-------------------------- MODULE ChargePage_proofs --------------------------
(***************************************************************************)
(* Theorems about ChargePage for any number of users, presses, resets and  *)
(* faults.                                                                 *)
(***************************************************************************)
EXTENDS ChargePage, Controller_proofs

-----------------------------------------------------------------------------
(***************************************************************************)
(* Types.  The pages publish requests of their own, which the controller's *)
(* invariant TypeInv also admits.                                          *)
(***************************************************************************)

Runs == [step : Steps \cup Outcomes, nonce : Nonces]

PageInv ==
    /\ page \in [Users -> [chargeStatus : ChargeStatuses, isChargeDisabled : BOOLEAN]]
    /\ charges \in [Users -> Seq(Runs)]
    /\ resets \in [Users -> Nat]

\* One page's runs of handleCharge change one at a time: a press adds one, and
\* a step moves one on.
Pressed(u) ==
    charges' = [charges EXCEPT ![u] = Append(charges[u], [step |-> "fetch", nonce |-> 0])]
Moved(u, k, run) ==
    /\ k \in DOMAIN charges[u]
    /\ charges' = [charges EXCEPT ![u] = [charges[u] EXCEPT ![k] = run]]

\* What Moved says of each run.
LEMMA MovedRuns ==
    ASSUME PageInv, NEW u \in Users, NEW k, NEW run \in Runs, Moved(u, k, run)
    PROVE  /\ charges' \in [Users -> Seq(Runs)]
           /\ \A v \in Users : DOMAIN charges'[v] = DOMAIN charges[v]
           /\ charges'[u][k] = run
           /\ \A v \in Users \ {u} : charges'[v] = charges[v]
           /\ \A j \in DOMAIN charges[u] \ {k} : charges'[u][j] = charges[u][j]
<1>1. charges \in [Users -> Seq(Runs)] /\ k \in DOMAIN charges[u]
  BY DEF PageInv, Moved
<1>2. /\ charges'[u] = [charges[u] EXCEPT ![k] = run]
      /\ \A v \in Users \ {u} : charges'[v] = charges[v]
      /\ DOMAIN charges' = Users
  BY <1>1 DEF Moved
<1>3. DOMAIN charges'[u] = DOMAIN charges[u] /\ charges'[u] \in Seq(Runs)
  BY <1>1, <1>2
<1>4. charges' \in [Users -> Seq(Runs)]
  <2>1. \A v \in Users : charges'[v] \in Seq(Runs)
    BY <1>1, <1>2, <1>3
  <2>2. charges' = [v \in Users |-> charges'[v]]
    BY <1>2 DEF Moved
  <2>3. QED
    BY <2>1, <2>2
<1>5. QED
  BY <1>1, <1>2, <1>3, <1>4

\* What Pressed says of each run.
LEMMA PressedRuns ==
    ASSUME PageInv, NEW u \in Users, Pressed(u)
    PROVE  /\ charges' \in [Users -> Seq(Runs)]
           /\ Len(charges[u]) \in Nat
           /\ DOMAIN charges[u] = 1..Len(charges[u])
           /\ DOMAIN charges'[u] = DOMAIN charges[u] \cup {Len(charges[u]) + 1}
           /\ charges'[u][Len(charges[u]) + 1] = [step |-> "fetch", nonce |-> 0]
           /\ \A j \in DOMAIN charges[u] : charges'[u][j] = charges[u][j]
           /\ \A v \in Users \ {u} : charges'[v] = charges[v]
<1> DEFINE run == [step |-> "fetch", nonce |-> 0]
<1>1. charges \in [Users -> Seq(Runs)] /\ charges[u] \in Seq(Runs) /\ run \in Runs
  BY EscrowAssumption DEF PageInv, Runs, Steps
<1>2. /\ charges'[u] = Append(charges[u], run)
      /\ \A v \in Users \ {u} : charges'[v] = charges[v]
  BY <1>1 DEF Pressed
<1>3. Append(charges[u], run) \in Seq(Runs)
  BY <1>1
<1>4. charges' \in [Users -> Seq(Runs)]
  BY <1>1, <1>3 DEF Pressed
<1>5. QED
  BY <1>1, <1>2, <1>4

LEMMA GoesMoves ==
    ASSUME PageInv, NEW u \in Users, NEW from, NEW k \in ChargesAt(u, from),
           NEW to \in Steps \cup Outcomes, Goes(u, k, to)
    PROVE  LET run == [step |-> to, nonce |-> charges[u][k].nonce]
           IN  run \in Runs /\ Moved(u, k, run)
<1>1. k \in DOMAIN charges[u] /\ charges[u] \in Seq(Runs)
  BY DEF PageInv, ChargesAt
<1>2. charges[u][k] \in Runs
  BY <1>1
<1>3. [charges[u][k] EXCEPT !.step = to] = [step |-> to, nonce |-> charges[u][k].nonce]
  BY <1>2 DEF Runs
<1>4. charges' = [charges EXCEPT ![u] = [charges[u] EXCEPT ![k] =
                      [charges[u][k] EXCEPT !.step = to]]]
  BY DEF Goes
<1>5. QED
  BY <1>1, <1>2, <1>3, <1>4 DEF Moved, Runs

\* The steps of handleCharge, and what each makes of its run.
HandleStep(u, k, from, run) ==
    /\ k \in ChargesAt(u, from)
    /\ run \in Runs
    /\ Moved(u, k, run)
    /\ from # "fetch" => run.nonce = charges[u][k].nonce
    /\ \/ from = "fetch" /\ run.step \in {"sign", "threw"} /\ UNCHANGED <<log, page>>
       \/ from = "sign" /\ run.step = "publish" /\ UNCHANGED <<log, page>>
       \/ from = "sign" /\ run.step = "rejected" /\ UNCHANGED log /\ Enables(u)
       \/ from = "publish" /\ run.step = "published" /\ Asks(u, k) /\ UNCHANGED page
       \/ from = "publish" /\ run.step = "dropped" /\ UNCHANGED <<log, page>>
       \/ /\ from = "publish" /\ run.step = "failed" /\ Enables(u)
          /\ Asks(u, k) \/ UNCHANGED log

LEMMA HandleSteps ==
    ASSUME TypeInv, PageInv, NEW u \in Users, NEW k \in DOMAIN charges[u],
           \/ FetchNonce(u, k) \/ FetchThrows(u, k) \/ SignMessage(u, k) \/ SignRejected(u, k)
           \/ PublishToRelay(u, k) \/ PublishDropped(u, k) \/ PublishFails(u, k)
    PROVE  \E from \in Steps, run \in Runs : HandleStep(u, k, from, run)
<1> USE DEF Steps, Outcomes
<1>1. CASE FetchNonce(u, k)
  <2> DEFINE run == [step |-> "sign", nonce |-> next[u]]
  <2>1. run \in Runs
    BY DEF TypeInv, OutsideInv, Runs
  <2>2. charges' = [charges EXCEPT ![u] = [charges[u] EXCEPT ![k] = run]]
    BY <1>1 DEF FetchNonce
  <2>3. k \in ChargesAt(u, "fetch") /\ UNCHANGED <<log, page>>
    BY <1>1 DEF FetchNonce, cvars
  <2>4. HandleStep(u, k, "fetch", run)
    BY <2>1, <2>2, <2>3 DEF HandleStep, Moved
  <2>5. QED
    BY <2>1, <2>4
<1>2. ASSUME NEW from \in Steps, k \in ChargesAt(u, from), NEW to \in Steps \cup Outcomes,
             Goes(u, k, to)
      PROVE  \E run \in Runs : /\ Moved(u, k, run) /\ run.step = to
                               /\ run.nonce = charges[u][k].nonce
  BY <1>2, GoesMoves
<1>3. CASE FetchThrows(u, k)
  <2>1. k \in ChargesAt(u, "fetch") /\ Goes(u, k, "threw") /\ UNCHANGED <<log, page>>
    BY <1>3 DEF FetchThrows
  <2>2. QED
    BY <1>2, <2>1 DEF HandleStep
<1>4. CASE SignMessage(u, k)
  <2>1. k \in ChargesAt(u, "sign") /\ Goes(u, k, "publish") /\ UNCHANGED <<log, page>>
    BY <1>4 DEF SignMessage
  <2>2. QED
    BY <1>2, <2>1 DEF HandleStep
<1>5. CASE SignRejected(u, k)
  <2>1. k \in ChargesAt(u, "sign") /\ Goes(u, k, "rejected") /\ UNCHANGED log /\ Enables(u)
    BY <1>5 DEF SignRejected, cvars
  <2>2. QED
    BY <1>2, <2>1 DEF HandleStep
<1>6. CASE PublishToRelay(u, k)
  <2>1. /\ k \in ChargesAt(u, "publish") /\ Goes(u, k, "published")
        /\ Asks(u, k) /\ UNCHANGED page
    BY <1>6 DEF PublishToRelay
  <2>2. QED
    BY <1>2, <2>1 DEF HandleStep
<1>7. CASE PublishDropped(u, k)
  <2>1. k \in ChargesAt(u, "publish") /\ Goes(u, k, "dropped") /\ UNCHANGED <<log, page>>
    BY <1>7 DEF PublishDropped, cvars
  <2>2. QED
    BY <1>2, <2>1 DEF HandleStep
<1>8. CASE PublishFails(u, k)
  <2>1. /\ k \in ChargesAt(u, "publish") /\ Goes(u, k, "failed") /\ Enables(u)
        /\ Asks(u, k) \/ UNCHANGED log
    BY <1>8 DEF PublishFails
  <2>2. QED
    BY <1>2, <2>1 DEF HandleStep
<1>9. QED
  BY <1>1, <1>3, <1>4, <1>5, <1>6, <1>7, <1>8

\* Everything else a page does.
OtherStep(u) ==
    \/ Connect(u) \/ ConnectFails(u) \/ OnEvent(u) \/ PressPay(u) \/ Reset(u) \/ SelectTab(u)

LEMMA PageSteps ==
    ASSUME TypeInv, PageInv, NEW u \in Users, PageStep(u)
    PROVE  /\ UNCHANGED <<now, controllerVars, late, merged, next>>
           /\ UNCHANGED faults \/ Fault
           /\ \/ /\ UNCHANGED resets
                 /\ \E k \in DOMAIN charges[u], from \in Steps, run \in Runs :
                        HandleStep(u, k, from, run)
              \/ UNCHANGED log /\ OtherStep(u)
<1>1. \/ OtherStep(u)
      \/ \E k \in DOMAIN charges[u] :
             \/ FetchNonce(u, k) \/ FetchThrows(u, k) \/ SignMessage(u, k) \/ SignRejected(u, k)
             \/ PublishToRelay(u, k) \/ PublishDropped(u, k) \/ PublishFails(u, k)
  BY DEF PageStep, HandleCharge, PageFault, OtherStep
<1>2. CASE OtherStep(u)
  BY <1>2 DEF OtherStep, Connect, ConnectFails, OnEvent, PressPay, Reset, SelectTab, HandleReset,
     cvars, escrowVars
<1>3. ASSUME NEW k \in DOMAIN charges[u],
             \/ FetchNonce(u, k) \/ FetchThrows(u, k) \/ SignMessage(u, k) \/ SignRejected(u, k)
             \/ PublishToRelay(u, k) \/ PublishDropped(u, k) \/ PublishFails(u, k)
      PROVE  /\ UNCHANGED <<now, controllerVars, late, merged, next, resets>>
             /\ UNCHANGED faults \/ Fault
  BY <1>3 DEF FetchNonce, FetchThrows, SignMessage, SignRejected, PublishToRelay, PublishDropped,
     PublishFails, Grant, cvars, escrowVars
<1>4. QED
  BY <1>1, <1>2, <1>3, HandleSteps

\* The request a page publishes is well formed, and of this second.
LEMMA AsksTypes ==
    ASSUME TypeInv, PageInv, NEW u \in Users, NEW k \in DOMAIN charges[u], Asks(u, k)
    PROVE  \E event \in RequestMessages :
               /\ Adds(event) \/ UNCHANGED log
               /\ event.created_at = now
               /\ event.user = u /\ event.nonce = charges[u][k].nonce
<1>1. PICK m \in Machines :
          PublishRequest(Request(FALSE, m, "Working", "UserRequest", NoRequest, u, charges[u][k].nonce))
  BY DEF Asks
<1>2. charges[u][k].nonce \in Nonces
  <2>1. charges[u] \in Seq(Runs)
    BY DEF PageInv
  <2>2. charges[u][k] \in Runs
    BY <2>1
  <2>3. QED
    BY <2>2 DEF Runs
<1>3. Request(FALSE, m, "Working", "UserRequest", NoRequest, u, charges[u][k].nonce)
          \in RequestMessages
  BY <1>2, MessageTypes DEF TypeInv, Statuses, Reasons, NoRequest
<1>4. QED
  BY <1>1, <1>3, PublishAdds DEF Request

LEMMA PageTypes ==
    ASSUME TypeInv, PageInv, [PageNext]_pvars
    PROVE  TypeInv'
<1>1. CASE UNCHANGED cvars \/ ControllerStep \/ Tick
  BY <1>1, TypeStep DEF Next
<1>2. ASSUME NEW u \in Users, PageStep(u)
      PROVE  TypeInv'
  <2>1. /\ UNCHANGED <<now, controllerVars, late, merged, next>>
        /\ UNCHANGED faults \/ Fault
        /\ \/ UNCHANGED log
           \/ \E k \in DOMAIN charges[u] : Asks(u, k)
    BY <1>2, PageSteps DEF HandleStep
  <2>2. /\ LogInv' /\ ClockInv'
        /\ Events("Request") \subseteq Events("Request")'
        /\ Len(log) \in Nat /\ Len(log') \in Nat /\ Len(log) <= Len(log')
    <3>1. LogInv /\ Len(log) \in Nat
      BY DEF TypeInv, LogInv
    <3>2. CASE UNCHANGED log
      BY <2>1, <3>1, <3>2, LogKept, ClockKept DEF TypeInv
    <3>3. CASE \E k \in DOMAIN charges[u] : Asks(u, k)
      <4>1. PICK event \in RequestMessages :
                (Adds(event) \/ UNCHANGED log) /\ event.created_at = now
        BY <3>3, AsksTypes
      <4>2. event \in Messages /\ event.kind # "Status"
        BY <4>1 DEF Messages, RequestMessages
      <4>3. CASE Adds(event)
        BY <2>1, <3>1, <4>1, <4>2, <4>3, LogGrown, ClockGrown DEF TypeInv
      <4>4. QED
        BY <3>2, <4>1, <4>3
    <3>4. QED
      BY <2>1, <3>2, <3>3
  <2>3. ProcessInv'
    BY <2>1, <2>2 DEF TypeInv, ProcessInv, controllerVars
  <2>4. OutsideInv'
    BY <2>1, <2>2, ControllerAssumption DEF TypeInv, OutsideInv, Fault
  <2>5. QED
    BY <2>2, <2>3, <2>4 DEF TypeInv
<1>3. QED
  BY <1>1, <1>2 DEF PageNext, pvars

LEMMA PageInvInit == PageInit => PageInv
BY DEF PageInit, PageInv, ChargeStatuses

LEMMA PageInvStep ==
    ASSUME TypeInv, PageInv, [PageNext]_pvars
    PROVE  PageInv'
<1>1. CASE UNCHANGED pageVars
  BY <1>1 DEF PageInv, pageVars
<1>2. ASSUME NEW u \in Users, PageStep(u)
      PROVE  PageInv'
  <2>1. ASSUME NEW k \in DOMAIN charges[u], NEW from \in Steps, NEW run \in Runs,
               HandleStep(u, k, from, run), UNCHANGED resets
        PROVE  PageInv'
    <3>1. charges' \in [Users -> Seq(Runs)]
      BY <2>1, MovedRuns DEF HandleStep
    <3>2. UNCHANGED page \/ Enables(u)
      BY <2>1 DEF HandleStep
    <3>3. QED
      BY <2>1, <3>1, <3>2 DEF PageInv, Enables
  <2>2. CASE Connect(u) \/ ConnectFails(u)
    BY <2>2 DEF Connect, ConnectFails, PageInv
  <2>3. CASE OnEvent(u)
    <3>1. /\ UNCHANGED <<charges, resets>>
          /\ \/ UNCHANGED page
             \/ \E status \in {"requested", "working"} : Shows(u, status)
             \/ page' = [page EXCEPT ![u] =
                    [chargeStatus |-> "available", isChargeDisabled |-> FALSE]]
      BY <2>3 DEF OnEvent
    <3>2. ASSUME NEW status \in ChargeStatuses, Shows(u, status)
          PROVE  page' \in [Users -> [chargeStatus : ChargeStatuses, isChargeDisabled : BOOLEAN]]
      BY <3>2 DEF Shows, PageInv
    <3>3. page' \in [Users -> [chargeStatus : ChargeStatuses, isChargeDisabled : BOOLEAN]]
      <4>1. CASE page' = [page EXCEPT ![u] =
                    [chargeStatus |-> "available", isChargeDisabled |-> FALSE]]
        BY <4>1 DEF PageInv, ChargeStatuses
      <4>2. {"requested", "working"} \subseteq ChargeStatuses
        BY DEF ChargeStatuses
      <4>3. QED
        BY <3>1, <3>2, <4>1, <4>2 DEF PageInv
    <3>4. QED
      BY <3>1, <3>3 DEF PageInv
  <2>4. CASE PressPay(u)
    <3>1. charges' \in [Users -> Seq(Runs)]
      BY <2>4, PressedRuns DEF PressPay, Pressed
    <3>2. page' = [page EXCEPT ![u].isChargeDisabled = TRUE] /\ UNCHANGED resets
      BY <2>4 DEF PressPay
    <3>3. page' \in [Users -> [chargeStatus : ChargeStatuses, isChargeDisabled : BOOLEAN]]
      BY <3>2 DEF PageInv
    <3>4. QED
      BY <3>1, <3>2, <3>3 DEF PageInv
  <2>5. CASE Reset(u) \/ SelectTab(u)
    <3>1. /\ page' = [page EXCEPT ![u] =
                  [chargeStatus |-> "idle", isChargeDisabled |-> FALSE]]
          /\ resets' = [resets EXCEPT ![u] = @ + 1]
          /\ UNCHANGED charges
      BY <2>5 DEF Reset, SelectTab, HandleReset
    <3>2. page' \in [Users -> [chargeStatus : ChargeStatuses, isChargeDisabled : BOOLEAN]]
      BY <3>1 DEF PageInv, ChargeStatuses
    <3>3. resets' \in [Users -> Nat]
      BY <3>1 DEF PageInv
    <3>4. QED
      BY <3>1, <3>2, <3>3 DEF PageInv
  <2>6. QED
    BY <1>2, <2>1, <2>2, <2>3, <2>4, <2>5, PageSteps DEF OtherStep
<1>3. QED
  BY <1>1, <1>2 DEF PageNext, pvars

LEMMA PageTypesHold == PageSpec => [](TypeInv /\ PageInv)
<1>1. PageInit => TypeInv
  BY TypeInit DEF PageInit
<1>2. QED
  BY <1>1, PageInvInit, PageInvStep, PageTypes, PTL DEF PageSpec
-----------------------------------------------------------------------------
(***************************************************************************)
(* What each page has seen and how often it was reset.  No page is past    *)
(* the end of the log, which only grows; the bound on resets is on their   *)
(* sum, so the sum is what the invariant keeps.                            *)
(***************************************************************************)

TabInv ==
    /\ listening \in [Users -> Listening]
    /\ delivered \in [Users -> Nat]
    /\ \A u \in Users : delivered[u] <= Len(log)
    /\ SumOver(resets, Users) <= MaxResets

\* The relay's log never shrinks.
LEMMA LogLengthens ==
    ASSUME TypeInv, PageInv, [PageNext]_pvars
    PROVE  Len(log) \in Nat /\ Len(log') \in Nat /\ Len(log) <= Len(log')
<1>1. Len(log) \in Nat
  BY DEF TypeInv, LogInv
<1>2. CASE UNCHANGED cvars \/ ControllerStep \/ Tick
  BY <1>2, LogStep DEF Next
<1>3. ASSUME NEW u \in Users, PageStep(u)
      PROVE  Len(log') \in Nat /\ Len(log) <= Len(log')
  <2>1. CASE UNCHANGED log
    BY <1>1, <2>1
  <2>2. ASSUME NEW k \in DOMAIN charges[u], Asks(u, k)
        PROVE  Len(log') \in Nat /\ Len(log) <= Len(log')
    <3>1. PICK event \in RequestMessages : Adds(event) \/ UNCHANGED log
      BY <2>2, AsksTypes
    <3>2. event \in Messages
      BY DEF Messages
    <3>3. Adds(event) => Len(log') = Len(log) + 1
      BY <3>2, Grows DEF TypeInv, LogInv
    <3>4. QED
      BY <1>1, <3>1, <3>3
  <2>3. QED
    BY <1>3, <2>1, <2>2, PageSteps DEF HandleStep
<1>4. QED
  BY <1>1, <1>2, <1>3 DEF PageNext, pvars

\* A reset is one more in the sum, which the guard of handleReset looks at.
LEMMA ResetCounts ==
    ASSUME PageInv, TabInv, NEW u \in Users, HandleReset(u)
    PROVE  SumOver(resets', Users) <= MaxResets
<1>1. /\ resets \in [Users -> Nat]
      /\ resets' = [resets EXCEPT ![u] = @ + 1]
      /\ SumOver(resets, Users) < MaxResets
      /\ MaxResets \in Nat
  BY ChargePageAssumption DEF PageInv, HandleReset
<1>2. \A v \in Users : resets[v] \in Nat /\ resets'[v] \in Nat
  BY <1>1
<1>3. \A v \in Users : resets[v] \in Int /\ resets'[v] \in Int
  BY <1>2
<1>4. resets'[u] - resets[u] = 1 /\ \A v \in Users : v # u => resets'[v] = resets[v]
  BY <1>1
<1>5. SumOver(resets', Users) = SumOver(resets, Users) + (resets'[u] - resets[u])
  BY <1>3, <1>4, UsersAssumption, SumChanges
<1>6. SumOver(resets, Users) \in Nat
  BY <1>2, UsersAssumption, SumNat
<1>7. QED
  BY <1>1, <1>4, <1>5, <1>6

\* What a step of a page makes of its subscription.
LEMMA TabSteps ==
    ASSUME TypeInv, TabInv, NEW u \in Users, PageStep(u)
    PROVE  /\ \/ UNCHANGED listening
              \/ \E status \in Listening : listening' = [listening EXCEPT ![u] = status]
           /\ \/ UNCHANGED delivered
              \/ /\ UNCHANGED log
                 /\ \/ \E past \in 0..Len(log) : delivered' = [delivered EXCEPT ![u] = past]
                    \/ /\ delivered[u] < Len(log)
                       /\ delivered' = [delivered EXCEPT ![u] = @ + 1]
           /\ UNCHANGED resets \/ HandleReset(u)
<1> USE DEF Listening
<1>1. CASE Connect(u)
  <2> DEFINE Past == {i \in Ids : log[i].created_at < now}
  <2>1. Past \subseteq 1..Len(log) /\ Len(log) \in Nat
    BY DEF Ids, TypeInv, LogInv
  <2>2. /\ listening' = [listening EXCEPT ![u] = "subscribed"]
        /\ delivered' = [delivered EXCEPT ![u] = Cardinality(Past)]
        /\ UNCHANGED <<log, resets>>
    BY <1>1 DEF Connect, cvars
  <2> HIDE DEF Past
  <2>3. ASSUME NEW n \in Nat
        PROVE  IsFiniteSet(1..n) /\ Cardinality(1..n) = n
    BY FS_Interval
  <2>4. IsFiniteSet(1..Len(log)) /\ Cardinality(1..Len(log)) = Len(log)
    BY <2>1, <2>3
  <2>5. Cardinality(Past) \in Nat /\ Cardinality(Past) <= Len(log)
    BY <2>1, <2>4, FS_Subset, FS_CardinalityType
  <2>6. PICK past \in 0..Len(log) : past = Cardinality(Past)
    BY <2>1, <2>5
  <2>7. delivered' = [delivered EXCEPT ![u] = past]
    BY <2>2, <2>6, Zenon
  <2>8. QED
    BY <2>2, <2>7
<1>2. CASE ConnectFails(u)
  BY <1>2 DEF ConnectFails
<1>3. CASE OnEvent(u)
  BY <1>3 DEF OnEvent, cvars
<1>4. CASE PressPay(u)
  BY <1>4 DEF PressPay
<1>5. CASE Reset(u) \/ SelectTab(u)
  <2>1. HandleReset(u)
    BY <1>5 DEF Reset, SelectTab
  <2>2. /\ UNCHANGED delivered
        /\ UNCHANGED listening \/ listening' = [listening EXCEPT ![u] = "closed"]
    <3>1. /\ UNCHANGED delivered
          /\ listening' = [listening EXCEPT
                 ![u] = IF listening[u] = "subscribed" THEN "closed" ELSE listening[u]]
      BY <2>1 DEF HandleReset
    <3>2. CASE listening[u] = "subscribed"
      BY <3>1, <3>2
    <3>3. CASE listening[u] # "subscribed"
      <4>1. listening' = [listening EXCEPT ![u] = listening[u]]
        BY <3>1, <3>3
      <4>2. QED
        BY <3>1, <4>1 DEF TabInv
    <3>4. QED
      BY <3>2, <3>3
  <2>3. QED
    BY <2>1, <2>2
<1>6. ASSUME NEW k \in DOMAIN charges[u],
             \/ FetchNonce(u, k) \/ FetchThrows(u, k) \/ SignMessage(u, k) \/ SignRejected(u, k)
             \/ PublishToRelay(u, k) \/ PublishDropped(u, k) \/ PublishFails(u, k)
      PROVE  UNCHANGED <<listening, delivered, resets>>
  BY <1>6 DEF FetchNonce, FetchThrows, SignMessage, SignRejected, PublishToRelay, PublishDropped,
     PublishFails
<1>7. QED
  BY <1>1, <1>2, <1>3, <1>4, <1>5, <1>6 DEF PageStep, HandleCharge, PageFault

LEMMA TabInit == PageInit => TabInv
<1> SUFFICES ASSUME PageInit PROVE TabInv
  OBVIOUS
<1>1. /\ listening = [u \in Users |-> "connecting"]
      /\ delivered = [u \in Users |-> 0]
      /\ resets = [u \in Users |-> 0]
      /\ log = <<>>
  BY DEF PageInit, Init
<1>2. SumOver(resets, Users) = 0 * Cardinality(Users)
  BY <1>1, UsersAssumption, SumConstant
<1>3. Cardinality(Users) \in Nat
  BY UsersAssumption, FS_CardinalityType
<1>4. SumOver(resets, Users) <= MaxResets
  BY <1>2, <1>3, ChargePageAssumption
<1>5. QED
  BY <1>1, <1>4 DEF TabInv, Listening

LEMMA TabStep == TypeInv /\ PageInv /\ TabInv /\ [PageNext]_pvars => TabInv'
<1> SUFFICES ASSUME TypeInv, PageInv, TabInv, [PageNext]_pvars
             PROVE  TabInv'
  OBVIOUS
<1>1. /\ listening \in [Users -> Listening]
      /\ delivered \in [Users -> Nat]
      /\ \A u \in Users : delivered[u] <= Len(log)
      /\ SumOver(resets, Users) <= MaxResets
  BY DEF TabInv
<1>2. Len(log) \in Nat /\ Len(log') \in Nat /\ Len(log) <= Len(log')
  BY LogLengthens
<1>3. CASE UNCHANGED pageVars
  BY <1>1, <1>2, <1>3 DEF TabInv, pageVars
<1>4. ASSUME NEW u \in Users, PageStep(u)
      PROVE  TabInv'
  <2>1. listening' \in [Users -> Listening]
    BY <1>1, <1>4, TabSteps
  <2>2. delivered' \in [Users -> Nat] /\ \A v \in Users : delivered'[v] <= Len(log')
    <3>1. CASE UNCHANGED delivered
      BY <1>1, <1>2, <3>1
    <3>2. ASSUME NEW past \in 0..Len(log), UNCHANGED log,
                 delivered' = [delivered EXCEPT ![u] = past]
          PROVE  delivered' \in [Users -> Nat] /\ \A v \in Users : delivered'[v] <= Len(log')
      BY <1>1, <1>2, <3>2
    <3>3. ASSUME delivered[u] < Len(log), UNCHANGED log,
                 delivered' = [delivered EXCEPT ![u] = @ + 1]
          PROVE  delivered' \in [Users -> Nat] /\ \A v \in Users : delivered'[v] <= Len(log')
      BY <1>1, <1>2, <3>3
    <3>4. QED
      BY <1>4, <3>1, <3>2, <3>3, TabSteps
  <2>3. SumOver(resets', Users) <= MaxResets
    BY <1>1, <1>4, TabSteps, ResetCounts
  <2>4. QED
    BY <2>1, <2>2, <2>3 DEF TabInv
<1>5. QED
  BY <1>3, <1>4 DEF PageNext, pvars

\* Every page shows a status it knows, has no more of the relay's log behind it
\* than there is, is reset within the bound, and holds runs of handleCharge at
\* steps of handleCharge, with nonces in range.
THEOREM PageTypesCorrect == PageSpec => []PageTypeOK
<1>1. PageInv /\ TabInv /\ TypeInv => PageTypeOK
  <2> SUFFICES ASSUME PageInv, TabInv, TypeInv, NEW u \in Users
               PROVE  /\ delivered[u] \in 0..Len(log)
                      /\ resets[u] \in 0..MaxResets
                      /\ \A k \in DOMAIN charges[u] : charges[u][k] \in Runs
    BY DEF PageTypeOK, PageInv, TabInv, Runs
  <2>1. delivered[u] \in Nat /\ delivered[u] <= Len(log) /\ Len(log) \in Nat
    BY DEF TabInv, TypeInv, LogInv
  <2>2. resets[u] \in Nat /\ resets[u] <= MaxResets
    <3>1. \A v \in Users : resets[v] \in Nat
      BY DEF PageInv
    <3>2. SumOver(resets, Users) \in Nat /\ resets[u] <= SumOver(resets, Users)
      BY <3>1, UsersAssumption, SumNat, TermOfSum
    <3>3. QED
      BY <3>1, <3>2, ChargePageAssumption DEF TabInv
  <2>3. charges[u] \in Seq(Runs)
    BY DEF PageInv
  <2>4. QED
    BY <2>1, <2>2, <2>3, ChargePageAssumption
<1>2. QED
  BY <1>1, TabInit, TabStep, PageTypesHold, PTL DEF PageSpec
-----------------------------------------------------------------------------
(***************************************************************************)
(* Charges follow presses.  Every request carries a nonce that one of its  *)
(* user's runs of handleCharge has fetched, a payment takes the account's  *)
(* nonce and moves on, so each payment needs a run of its own.             *)
(***************************************************************************)

Fetched(runs) == {runs[k].nonce : k \in {j \in DOMAIN runs : runs[j].step # "fetch"}}

HasRun(i) == log[i].nonce \in Fetched(charges[log[i].user])

PressInv ==
    /\ \A i \in Events("Request") : HasRun(i)
    /\ \A u \in Users : 0..(next[u] - 1) \subseteq Fetched(charges[u])

LEMMA FetchedGrows ==
    ASSUME TypeInv, PageInv, [PageNext]_pvars, NEW u \in Users
    PROVE  Fetched(charges[u]) \subseteq Fetched(charges[u])'
<1>1. CASE UNCHANGED charges
  BY <1>1 DEF Fetched, ChargesAt
<1>2. ASSUME NEW v \in Users, Pressed(v)
      PROVE  Fetched(charges[u]) \subseteq Fetched(charges[u])'
  BY <1>2, PressedRuns DEF Fetched, ChargesAt
<1>3. ASSUME NEW v \in Users, NEW k \in DOMAIN charges[v], NEW from \in Steps, NEW run \in Runs,
             HandleStep(v, k, from, run)
      PROVE  Fetched(charges[u]) \subseteq Fetched(charges[u])'
  <2>1. /\ run.step # "fetch"
        /\ charges[v][k].step = from
        /\ from # "fetch" => run.nonce = charges[v][k].nonce
    BY <1>3 DEF HandleStep, ChargesAt
  <2>2. /\ \A w \in Users : DOMAIN charges'[w] = DOMAIN charges[w]
        /\ charges'[v][k] = run
        /\ \A w \in Users \ {v} : charges'[w] = charges[w]
        /\ \A j \in DOMAIN charges[v] \ {k} : charges'[v][j] = charges[v][j]
    BY <1>3, MovedRuns DEF HandleStep
  <2>3. \A j \in DOMAIN charges[u] : charges[u][j].step # "fetch" =>
            charges'[u][j].step # "fetch" /\ charges'[u][j].nonce = charges[u][j].nonce
    BY <2>1, <2>2
  <2>4. QED
    BY <2>2, <2>3 DEF Fetched, ChargesAt
<1>4. ASSUME NEW v \in Users, OtherStep(v)
      PROVE  UNCHANGED charges \/ Pressed(v)
  BY <1>4 DEF OtherStep, Connect, ConnectFails, OnEvent, PressPay, Reset, SelectTab,
     HandleReset, Pressed
<1>5. QED
  BY <1>1, <1>2, <1>3, <1>4, PageSteps DEF PageNext, pvars, pageVars

\* The controller publishes no requests.
LEMMA ControllerRequests ==
    ASSUME TypeInv, ControllerStep \/ Tick
    PROVE  Events("Request")' \subseteq Events("Request")
<1>1. log \in Seq(Messages)
  BY DEF TypeInv, LogInv
<1>2. CASE UNCHANGED log
  BY <1>2, LogKept
<1>3. CASE SendStatus \/ SendTransaction \/ \E t \in timers : TimerFires(t)
  <2>1. PICK event \in StatusMessages \cup TransactionMessages : Publish(event)
    BY <1>3, Sends
  <2>2. event \in Messages /\ event.kind # "Request"
    BY DEF Messages, StatusMessages, TransactionMessages
  <2>3. CASE Adds(event)
    BY <1>1, <2>2, <2>3, Grows
  <2>4. QED
    BY <1>2, <2>1, <2>3, PublishAdds
<1>4. QED
  BY <1>2, <1>3 DEF Tick, ControllerStep, Receive, Pay, Send, cvars, SkipRequest, AcceptRequest,
     PaySucceeds, PayFails, PayTimesOut, HandleStatus, HandleTransaction, TimerFails,
     Crash, Restart, RestartRekeyed, LateLanding

\* A payment is for a published request with the account's nonce.
LEMMA PaidRequests ==
    ASSUME TypeInv, ControllerStep \/ Tick
    PROVE  \/ UNCHANGED next
           \/ \E r \in Events("Request") : /\ log[r].nonce = next[log[r].user]
                                           /\ next' = [next EXCEPT ![log[r].user] = @ + 1]
<1>1. CASE PaySucceeds
  <2>1. handling.request \in Events("Request")
    BY <1>1, AtNotIdle, HandledTypes DEF PaySucceeds, Awaits, TypeInv
  <2>2. QED
    BY <1>1, <2>1 DEF PaySucceeds, Handled, Pays, Charge, UseNext
<1>2. CASE \E r \in late : LateLanding(r)
  BY <1>2 DEF LateLanding, Pays, Charge, UseNext, TypeInv, OutsideInv
<1>3. CASE ~PaySucceeds /\ ~\E r \in late : LateLanding(r)
  BY <1>3 DEF Tick, ControllerStep, Receive, Pay, Send, escrowVars, SkipRequest, AcceptRequest,
     PayFails, PayTimesOut, SendStatus, SendTransaction, HandleStatus, HandleTransaction,
     TimerFires, TimerFails, Crash, Restart, RestartRekeyed
<1>4. QED
  BY <1>1, <1>2, <1>3

LEMMA PressStep == TypeInv /\ PageInv /\ PressInv /\ [PageNext]_pvars => PressInv'
<1> SUFFICES ASSUME TypeInv, PageInv, PressInv, [PageNext]_pvars PROVE PressInv'
  OBVIOUS
<1>1. /\ log \in Seq(Messages)
      /\ \A i \in Events("Request") : i \in DOMAIN log /\ log[i] \in RequestMessages
      /\ \A i \in Events("Request") : log[i].user \in Users /\ log[i].nonce \in Nat
      /\ next \in [Users -> Nat]
  BY EventTypes, EscrowAssumption DEF TypeInv, LogInv, OutsideInv, RequestMessages
<1>2. \A u \in Users : Fetched(charges[u]) \subseteq Fetched(charges[u])'
  BY FetchedGrows
<1>3. ASSUME NEW i \in Events("Request"), log'[i] = log[i]
      PROVE  HasRun(i)'
  <2>1. log[i].user \in Users /\ log[i].nonce \in Fetched(charges[log[i].user])
    BY <1>1 DEF PressInv, HasRun
  <2>2. log[i].nonce \in Fetched(charges'[log[i].user])
    BY <1>2, <2>1
  <2>3. QED
    BY <1>3, <2>2 DEF HasRun
<1>4. CASE UNCHANGED pvars
  BY <1>4 DEF PressInv, HasRun, pvars, cvars, pageVars, escrowVars, Events
<1>5. CASE (ControllerStep \/ Tick) /\ UNCHANGED pageVars
  <2>1. \A i \in Events("Request") : log'[i] = log[i]
    BY <1>1, <1>5, LogStep DEF Next
  <2>2. \A i \in Events("Request")' : HasRun(i)'
    BY <1>3, <1>5, <2>1, ControllerRequests
  <2>3. ASSUME NEW u \in Users
        PROVE  0..(next'[u] - 1) \subseteq Fetched(charges[u])'
    <3>1. next'[u] = next[u] \/ (next'[u] = next[u] + 1 /\ next[u] \in Fetched(charges[u]))
      <4>1. CASE UNCHANGED next
        BY <4>1
      <4>2. ASSUME NEW r \in Events("Request"), log[r].nonce = next[log[r].user],
                   next' = [next EXCEPT ![log[r].user] = @ + 1]
            PROVE  next'[u] = next[u] \/ (next'[u] = next[u] + 1 /\ next[u] \in Fetched(charges[u]))
        <5>1. log[r].user \in Users /\ next[log[r].user] \in Fetched(charges[log[r].user])
          BY <1>1, <4>2 DEF PressInv, HasRun
        <5>2. QED
          BY <1>1, <4>2, <5>1
      <4>3. QED
        BY <1>5, <4>1, <4>2, PaidRequests
    <3>2. next[u] \in Nat /\ 0..(next[u] - 1) \subseteq Fetched(charges[u])
      BY <1>1 DEF PressInv
    <3>3. 0..(next'[u] - 1) \subseteq Fetched(charges[u])
      BY <3>1, <3>2
    <3>4. QED
      BY <1>2, <3>3
  <2>4. QED
    BY <2>2, <2>3 DEF PressInv
<1>6. ASSUME NEW u \in Users, PageStep(u)
      PROVE  PressInv'
  <2>1. UNCHANGED next
    BY <1>6, PageSteps
  <2>2. \A v \in Users : 0..(next'[v] - 1) \subseteq Fetched(charges[v])'
    BY <1>2, <2>1 DEF PressInv
  <2>3. CASE UNCHANGED log
    <3>1. Events("Request")' = Events("Request")
      BY <2>3, LogKept
    <3>2. QED
      BY <1>3, <2>2, <2>3, <3>1 DEF PressInv
  <2>4. ASSUME NEW k \in DOMAIN charges[u], charges[u][k].step = "publish", Asks(u, k)
        PROVE  PressInv'
    <3>1. PICK event \in RequestMessages :
              /\ Adds(event) \/ UNCHANGED log
              /\ event.user = u /\ event.nonce = charges[u][k].nonce
      BY <2>4, AsksTypes
    <3>2. event \in Messages
      BY DEF Messages
    <3>3. event.nonce \in Fetched(charges[u])'
      BY <1>2, <2>4, <3>1 DEF Fetched, ChargesAt
    <3>4. ASSUME Adds(event)
          PROVE  /\ \A i \in Events("Request") : log'[i] = log[i]
                 /\ Events("Request")' \subseteq Events("Request") \cup {Len(log) + 1}
                 /\ log'[Len(log) + 1] = event
      BY <1>1, <3>2, <3>4, Grows
    <3>5. ASSUME Adds(event)
          PROVE  \A i \in Events("Request")' : HasRun(i)'
      <4>1. ASSUME NEW i \in Events("Request")', i = Len(log) + 1
            PROVE  HasRun(i)'
        BY <3>1, <3>3, <3>4, <3>5, <4>1 DEF HasRun
      <4>2. ASSUME NEW i \in Events("Request")', i # Len(log) + 1
            PROVE  HasRun(i)'
        BY <1>3, <3>4, <3>5, <4>2
      <4>3. QED
        BY <4>1, <4>2
    <3>6. QED
      BY <2>2, <2>3, <3>1, <3>5 DEF PressInv
  <2>5. QED
    BY <1>6, <2>3, <2>4, PageSteps DEF HandleStep, ChargesAt
<1>7. QED
  BY <1>4, <1>5, <1>6 DEF PageNext

\* Nobody is charged more often than they have pressed Pay, whatever is
\* published twice, handled again after a restart or lands late.
THEOREM PressesAreCharged == PageSpec => []ChargesFollowPresses
<1>1. PageInit => PressInv
  BY DEF PageInit, Init, PressInv, Events
<1>2. TypeInv /\ PageInv /\ PressInv => ChargesFollowPresses
  <2> SUFFICES ASSUME TypeInv, PageInv, PressInv, NEW u \in Users
               PROVE  next[u] <= Len(charges[u])
    BY DEF ChargesFollowPresses, Payments
  <2> DEFINE Past == 0..(next[u] - 1)
             Runs_u == 1..Len(charges[u])
  <2>1. next[u] \in Nat /\ Len(charges[u]) \in Nat /\ DOMAIN charges[u] = Runs_u
    <3>1. charges[u] \in Seq(Runs)
      BY DEF PageInv
    <3>2. next \in [Users -> Nonces] /\ Nonces \subseteq Nat
      BY EscrowAssumption DEF TypeInv, OutsideInv
    <3>3. Len(charges[u]) \in Nat /\ DOMAIN charges[u] = 1..Len(charges[u])
      BY <3>1
    <3>4. QED
      BY <3>2, <3>3
  <2>2. \A n \in Past : \E k \in Runs_u : charges[u][k].nonce = n
    BY <2>1 DEF PressInv, Fetched
  <2> DEFINE f == [n \in Past |-> CHOOSE k \in Runs_u : charges[u][k].nonce = n]
  <2>3. \A n \in Past : f[n] \in Runs_u /\ charges[u][f[n]].nonce = n
    BY <2>2
  <2>4. f \in Injection(Past, Runs_u)
    BY <2>3 DEF Injection, IsInjective
  <2>5. IsFiniteSet(Runs_u) /\ Cardinality(Runs_u) = Len(charges[u])
    BY <2>1, FS_Interval
  <2>6. Cardinality(Past) = next[u]
    BY <2>1, FS_Interval
  <2>7. Cardinality(Past) <= Cardinality(Runs_u)
    BY <2>4, <2>5, FS_Injection
  <2>8. QED
    BY <2>5, <2>6, <2>7
<1>3. QED
  BY <1>1, <1>2, PressStep, PageTypesHold, PTL DEF PageSpec
-----------------------------------------------------------------------------
(***************************************************************************)
(* Requests follow resets.  Tickets are counted: a page that is ready to   *)
(* pay holds one, a press turns it into a run of handleCharge, and a run   *)
(* that gives up returns it.  Only a reset makes another.                  *)
(***************************************************************************)

RunsAt(runs, steps) == {k \in DOMAIN runs : runs[k].step \in steps}
Live == Steps \cup {"published"}
Ready(u) == IF page[u].chargeStatus = "idle" /\ ~page[u].isChargeDisabled THEN 1 ELSE 0
One(condition) == IF condition THEN 1 ELSE 0

TicketInv ==
    \A u \in Users : Cardinality(RunsAt(charges[u], Live)) + Ready(u) <= 1 + resets[u]
RequestInv ==
    \A u \in Users :
        Cardinality(RequestsOf(u)) <= Cardinality(RunsAt(charges[u], {"published"}))
                                          + Cardinality(RunsAt(charges[u], {"failed"}))

LEMMA RunsFinite ==
    ASSUME PageInv, NEW u \in Users, NEW steps
    PROVE  /\ IsFiniteSet(RunsAt(charges[u], steps))
           /\ Cardinality(RunsAt(charges[u], steps)) \in Nat
<1>1. charges[u] \in Seq(Runs)
  BY DEF PageInv
<1>2. IsFiniteSet(1..Len(charges[u])) /\ RunsAt(charges[u], steps) \subseteq 1..Len(charges[u])
  BY <1>1, FS_Interval DEF RunsAt
<1>3. QED
  BY <1>2, FS_Subset, FS_CardinalityType

LEMMA RequestsFinite ==
    ASSUME TypeInv, NEW u \in Users
    PROVE  IsFiniteSet(RequestsOf(u)) /\ Cardinality(RequestsOf(u)) \in Nat
<1>1. log \in Seq(Messages)
  BY DEF TypeInv, LogInv
<1>2. RequestsOf(u) \subseteq 1..Len(log) /\ IsFiniteSet(1..Len(log))
  BY <1>1, FS_Interval DEF RequestsOf, Events
<1>3. QED
  BY <1>2, FS_Subset, FS_CardinalityType

\* A run that moves on leaves the sets of its old step and joins those of the new.
LEMMA MovedCounts ==
    ASSUME PageInv, NEW u \in Users, NEW k, NEW run \in Runs, Moved(u, k, run), NEW steps
    PROVE  Cardinality(RunsAt(charges'[u], steps)) =
               Cardinality(RunsAt(charges[u], steps))
                   + One(run.step \in steps) - One(charges[u][k].step \in steps)
<1> DEFINE old == RunsAt(charges[u], steps)
<1>1. /\ k \in DOMAIN charges[u] /\ DOMAIN charges'[u] = DOMAIN charges[u]
      /\ charges'[u][k] = run
      /\ \A j \in DOMAIN charges[u] \ {k} : charges'[u][j] = charges[u][j]
  BY MovedRuns DEF Moved
<1>2. RunsAt(charges'[u], steps) = IF run.step \in steps THEN old \cup {k} ELSE old \ {k}
  BY <1>1 DEF RunsAt
<1>3. k \in old <=> charges[u][k].step \in steps
  BY <1>1 DEF RunsAt
<1>4. IsFiniteSet(old) /\ Cardinality(old) \in Nat
  BY RunsFinite
<1>5. CASE run.step \in steps
  <2>1. Cardinality(old \cup {k}) = IF k \in old THEN Cardinality(old) ELSE Cardinality(old) + 1
    BY <1>4, FS_AddElement
  <2>2. QED
    BY <1>2, <1>3, <1>4, <1>5, <2>1 DEF One
<1>6. CASE run.step \notin steps
  <2>1. Cardinality(old \ {k}) = IF k \in old THEN Cardinality(old) - 1 ELSE Cardinality(old)
    BY <1>4, FS_RemoveElement
  <2>2. QED
    BY <1>2, <1>3, <1>4, <1>6, <2>1 DEF One
<1>7. QED
  BY <1>5, <1>6

LEMMA PressedCounts ==
    ASSUME PageInv, NEW u \in Users, Pressed(u), NEW steps
    PROVE  Cardinality(RunsAt(charges'[u], steps)) =
               Cardinality(RunsAt(charges[u], steps)) + One("fetch" \in steps)
<1> DEFINE old == RunsAt(charges[u], steps)
           k == Len(charges[u]) + 1
<1>1. /\ k \notin DOMAIN charges[u] /\ DOMAIN charges'[u] = DOMAIN charges[u] \cup {k}
      /\ charges'[u][k].step = "fetch"
      /\ \A j \in DOMAIN charges[u] : charges'[u][j] = charges[u][j]
  BY PressedRuns
<1> HIDE DEF k
<1>2. RunsAt(charges'[u], steps) = (IF "fetch" \in steps THEN old \cup {k} ELSE old)
  BY <1>1 DEF RunsAt
<1>3. k \notin old
  BY <1>1 DEF RunsAt
<1>4. IsFiniteSet(old) /\ Cardinality(old) \in Nat
  BY RunsFinite
<1>5. Cardinality(old \cup {k}) = Cardinality(old) + 1
  BY <1>3, <1>4, FS_AddElement
<1>6. QED
  BY <1>2, <1>4, <1>5 DEF One

\* A page that becomes ready without a reset has a run that gives up.
LEMMA TicketStep == TypeInv /\ PageInv /\ TicketInv /\ [PageNext]_pvars => TicketInv'
<1> SUFFICES ASSUME TypeInv, PageInv, TicketInv, [PageNext]_pvars, NEW v \in Users
             PROVE  (Cardinality(RunsAt(charges[v], Live)) + Ready(v) <= 1 + resets[v])'
  BY DEF TicketInv
<1> DEFINE live  == Cardinality(RunsAt(charges[v], Live))
           live_ == Cardinality(RunsAt(charges'[v], Live))
<1>1. /\ live \in Nat /\ resets[v] \in Nat
      /\ live + Ready(v) <= 1 + resets[v]
      /\ page \in [Users -> [chargeStatus : ChargeStatuses, isChargeDisabled : BOOLEAN]]
      /\ resets \in [Users -> Nat]
  BY RunsFinite DEF PageInv, TicketInv
<1>2. ASSUME charges'[v] = charges[v], page'[v] = page[v], resets'[v] = resets[v]
      PROVE  live_ + Ready(v)' <= 1 + resets'[v]
  BY <1>1, <1>2 DEF Ready
<1>3. CASE UNCHANGED pageVars
  BY <1>2, <1>3 DEF pageVars
<1>4. ASSUME NEW u \in Users, u # v, PageStep(u)
      PROVE  charges'[v] = charges[v] /\ page'[v] = page[v] /\ resets'[v] = resets[v]
  <2>1. CASE OtherStep(u)
    BY <1>1, <1>4, <2>1 DEF OtherStep, Connect, ConnectFails, OnEvent, PressPay, Reset,
       SelectTab, HandleReset, Shows, PageInv
  <2>2. ASSUME NEW k \in DOMAIN charges[u], NEW from \in Steps, NEW run \in Runs,
               HandleStep(u, k, from, run), UNCHANGED resets
        PROVE  charges'[v] = charges[v] /\ page'[v] = page[v] /\ resets'[v] = resets[v]
    <3>1. charges'[v] = charges[v]
      BY <1>4, <2>2, MovedRuns DEF HandleStep
    <3>2. UNCHANGED page \/ Enables(u)
      BY <2>2 DEF HandleStep
    <3>3. QED
      BY <1>1, <1>4, <2>2, <3>1, <3>2 DEF Enables
  <2>3. QED
    BY <1>4, <2>1, <2>2, PageSteps
<1>5. ASSUME NEW k \in DOMAIN charges[v], NEW from \in Steps, NEW run \in Runs,
             HandleStep(v, k, from, run), UNCHANGED resets
      PROVE  live_ + Ready(v)' <= 1 + resets'[v]
  <2>1. charges[v][k].step = from /\ from \in Live
    BY <1>5 DEF HandleStep, ChargesAt, Live
  <2>2. live_ = live + One(run.step \in Live) - 1
    BY <1>5, <2>1, MovedCounts DEF HandleStep, One
  <2>3. CASE UNCHANGED page
    BY <1>1, <1>5, <2>2, <2>3 DEF Ready, One
  <2>4. CASE run.step \notin Live
    BY <1>1, <1>5, <2>2, <2>4 DEF Ready, One
  <2>5. QED
    BY <1>5, <2>3, <2>4 DEF HandleStep, Live, Steps
<1>6. CASE PressPay(v)
  <2>1. Pressed(v) /\ Ready(v) = 1 /\ UNCHANGED resets
    BY <1>6 DEF PressPay, Pressed, Ready
  <2>2. page'[v].isChargeDisabled = TRUE
    BY <1>1, <1>6 DEF PressPay
  <2>3. live_ = live + 1
    BY <2>1, PressedCounts DEF Live, Steps, One
  <2>4. QED
    BY <1>1, <2>1, <2>2, <2>3 DEF Ready
<1>7. CASE Reset(v) \/ SelectTab(v)
  <2>1. UNCHANGED charges /\ resets'[v] = resets[v] + 1
    BY <1>1, <1>7 DEF Reset, SelectTab, HandleReset
  <2>2. Ready(v)' \in {0, 1}
    BY DEF Ready
  <2>3. Ready(v) \in {0, 1}
    BY DEF Ready
  <2>4. QED
    BY <1>1, <2>1, <2>2, <2>3
<1>8. CASE Connect(v) \/ ConnectFails(v)
  BY <1>2, <1>8 DEF Connect, ConnectFails
<1>9. CASE OnEvent(v)
  <2>1. UNCHANGED <<charges, resets>>
    BY <1>9 DEF OnEvent
  <2>2. page'[v] = page[v] \/ page'[v].chargeStatus # "idle"
    BY <1>1, <1>9 DEF OnEvent, Shows
  <2>3. QED
    BY <1>1, <2>1, <2>2 DEF Ready
<1>10. QED
  <2>1. CASE PageStep(v)
    BY <2>1, <1>5, <1>6, <1>7, <1>8, <1>9, PageSteps DEF OtherStep
  <2>2. QED
    BY <2>1, <1>2, <1>3, <1>4 DEF PageNext, pvars

LEMMA RequestStep == TypeInv /\ PageInv /\ RequestInv /\ [PageNext]_pvars => RequestInv'
<1> SUFFICES ASSUME TypeInv, PageInv, RequestInv, [PageNext]_pvars, NEW v \in Users
             PROVE  (Cardinality(RequestsOf(v)) <=
                         Cardinality(RunsAt(charges[v], {"published"}))
                             + Cardinality(RunsAt(charges[v], {"failed"})))'
  BY DEF RequestInv
<1> DEFINE done == Cardinality(RunsAt(charges[v], {"published"}))
                       + Cardinality(RunsAt(charges[v], {"failed"}))
           done_ == Cardinality(RunsAt(charges'[v], {"published"}))
                       + Cardinality(RunsAt(charges'[v], {"failed"}))
<1>1. log \in Seq(Messages)
  BY DEF TypeInv, LogInv
<1>2. IsFiniteSet(RequestsOf(v)) /\ Cardinality(RequestsOf(v)) \in Nat
  BY RequestsFinite
<1>3. done \in Nat /\ Cardinality(RequestsOf(v)) <= done
  BY RunsFinite DEF RequestInv
<1>4. ASSUME ControllerStep \/ Tick \/ UNCHANGED log
      PROVE  RequestsOf(v)' = RequestsOf(v)
  <2>1. CASE UNCHANGED log
    BY <2>1, LogKept DEF RequestsOf
  <2>2. CASE ControllerStep \/ Tick
    <3>1. /\ Events("Request")' = Events("Request")
          /\ \A i \in Events("Request") : log'[i] = log[i]
      BY <1>1, <2>2, LogStep, ControllerRequests, EventTypes DEF Next
    <3>2. QED
      BY <3>1 DEF RequestsOf
  <2>3. QED
    BY <1>4, <2>1, <2>2
<1>5. ASSUME NEW u \in Users, NEW k \in DOMAIN charges[u], Asks(u, k)
      PROVE  \/ RequestsOf(v)' = RequestsOf(v)
             \/ RequestsOf(v)' = RequestsOf(v) \cup (IF u = v THEN {Len(log) + 1} ELSE {})
  <2>1. PICK event \in RequestMessages : (Adds(event) \/ UNCHANGED log) /\ event.user = u
    BY <1>5, AsksTypes
  <2>2. event \in Messages /\ event.kind = "Request"
    BY DEF Messages, RequestMessages
  <2>3. ASSUME Adds(event)
        PROVE
        /\ Events("Request")' = Events("Request") \cup {Len(log) + 1}
        /\ \A i \in Events("Request") : log'[i] = log[i]
        /\ log'[Len(log) + 1] = event
    BY <1>1, <2>2, <2>3, Grows, EventTypes
  <2>4. Adds(event) =>
            RequestsOf(v)' = RequestsOf(v) \cup (IF u = v THEN {Len(log) + 1} ELSE {})
    BY <2>1, <2>3 DEF RequestsOf
  <2>5. QED
    BY <1>4, <2>1, <2>4
<1>6. CASE UNCHANGED pageVars /\ (ControllerStep \/ Tick \/ UNCHANGED log)
  BY <1>3, <1>4, <1>6 DEF pageVars
<1>7. ASSUME NEW u \in Users, OtherStep(u), UNCHANGED log
      PROVE  Cardinality(RequestsOf(v)') <= done_
  <2>1. CASE PressPay(u) /\ u = v
    <3>1. Pressed(v)
      BY <2>1 DEF PressPay, Pressed
    <3>2. done_ = done
      BY <1>3, <3>1, PressedCounts, RunsFinite DEF One
    <3>3. QED
      BY <1>3, <1>4, <1>7, <3>2
  <2>2. CASE ~(PressPay(u) /\ u = v)
    <3>1. charges'[v] = charges[v]
      BY <1>7, <2>2 DEF OtherStep, Connect, ConnectFails, OnEvent, PressPay, Reset, SelectTab,
         HandleReset, PageInv
    <3>2. QED
      BY <1>3, <1>4, <1>7, <3>1
  <2>3. QED
    BY <2>1, <2>2
<1>8. ASSUME NEW u \in Users, NEW k \in DOMAIN charges[u], NEW from \in Steps, NEW run \in Runs,
             HandleStep(u, k, from, run)
      PROVE  Cardinality(RequestsOf(v)') <= done_
  <2>1. CASE u # v
    <3>1. charges'[v] = charges[v]
      BY <1>8, <2>1, MovedRuns DEF HandleStep
    <3>2. RequestsOf(v)' = RequestsOf(v)
      BY <1>4, <1>5, <1>8, <2>1 DEF HandleStep
    <3>3. QED
      BY <1>3, <3>1, <3>2
  <2>2. CASE u = v
    <3>1. charges[v][k].step = from /\ from \notin {"published", "failed"}
      BY <1>8, <2>2 DEF HandleStep, ChargesAt, Steps
    <3>2. done_ = done + One(run.step \in {"published", "failed"})
      <4>1. Moved(v, k, run) /\ k \in DOMAIN charges[v]
        BY <1>8, <2>2 DEF HandleStep
      <4>2. ASSUME NEW outcome \in {"published", "failed"}
            PROVE  /\ Cardinality(RunsAt(charges[v], {outcome})) \in Nat
                   /\ Cardinality(RunsAt(charges'[v], {outcome})) =
                          Cardinality(RunsAt(charges[v], {outcome})) + One(run.step = outcome)
        <5>1. Cardinality(RunsAt(charges'[v], {outcome})) =
                  Cardinality(RunsAt(charges[v], {outcome}))
                      + One(run.step \in {outcome}) - One(charges[v][k].step \in {outcome})
          BY <4>1, MovedCounts
        <5>2. charges[v][k].step \notin {outcome}
          BY <3>1
        <5>3. Cardinality(RunsAt(charges[v], {outcome})) \in Nat
          BY RunsFinite
        <5>4. QED
          BY <5>1, <5>2, <5>3 DEF One
      <4>3. QED
        BY <4>2 DEF One
    <3>3. CASE UNCHANGED log
      <4>1. done <= done_
        BY <1>3, <3>2 DEF One
      <4>2. done_ \in Nat
        BY <1>3, <3>2 DEF One
      <4>3. QED
        BY <1>2, <1>3, <1>4, <3>3, <4>1, <4>2
    <3>4. CASE run.step \in {"published", "failed"} /\ Asks(v, k)
      <4>1. \/ RequestsOf(v)' = RequestsOf(v)
            \/ RequestsOf(v)' = RequestsOf(v) \cup {Len(log) + 1}
        BY <1>5, <1>8, <2>2, <3>4
      <4>2. Cardinality(RequestsOf(v)') \in {Cardinality(RequestsOf(v)),
                                             Cardinality(RequestsOf(v)) + 1}
        BY <1>2, <4>1, FS_AddElement
      <4>3. /\ Cardinality(RequestsOf(v)') \in Nat
            /\ Cardinality(RequestsOf(v)') <= Cardinality(RequestsOf(v)) + 1
        BY <1>2, <4>2
      <4>4. QED
        BY <1>2, <1>3, <3>2, <3>4, <4>3 DEF One
    <3>5. QED
      BY <1>8, <2>2, <3>3, <3>4 DEF HandleStep
  <2>3. QED
    BY <2>1, <2>2
<1>9. QED
  BY <1>6, <1>7, <1>8, PageSteps DEF PageNext, pvars, cvars

\* Nobody is asked to pay again unasked: one request a page, and one more for
\* each of its resets and each publication it was told had failed.
THEOREM RequestsNeedResets == PageSpec => []RequestsFollowResets
<1>1. PageInit => TicketInv /\ RequestInv
  <2> SUFFICES ASSUME PageInit PROVE TicketInv /\ RequestInv
    OBVIOUS
  <2>1. ASSUME NEW u \in Users, NEW steps
        PROVE  Cardinality(RunsAt(charges[u], steps)) = 0
    <3>1. charges[u] = <<>>
      BY DEF PageInit
    <3>2. RunsAt(charges[u], steps) = {}
      BY <3>1 DEF RunsAt
    <3>3. QED
      BY <3>2, FS_EmptySet
  <2>2. ASSUME NEW u \in Users
        PROVE  Cardinality(RequestsOf(u)) = 0
    <3>1. RequestsOf(u) = {}
      BY DEF PageInit, Init, RequestsOf, Events
    <3>2. QED
      BY <3>1, FS_EmptySet
  <2>3. ASSUME NEW u \in Users
        PROVE  resets[u] = 0 /\ Ready(u) \in {0, 1}
    BY DEF PageInit, Ready
  <2>4. TicketInv
    <3>1. ASSUME NEW u \in Users
          PROVE  Cardinality(RunsAt(charges[u], Live)) + Ready(u) <= 1 + resets[u]
      <4>1. Cardinality(RunsAt(charges[u], Live)) = 0
        BY <2>1
      <4>2. resets[u] = 0 /\ Ready(u) \in {0, 1}
        BY <2>3
      <4>3. QED
        BY <4>1, <4>2
    <3>2. QED
      BY <3>1 DEF TicketInv
  <2>5. RequestInv
    <3>1. ASSUME NEW u \in Users
          PROVE  Cardinality(RequestsOf(u)) <= Cardinality(RunsAt(charges[u], {"published"}))
                                                   + Cardinality(RunsAt(charges[u], {"failed"}))
      <4>1. /\ Cardinality(RunsAt(charges[u], {"published"})) = 0
            /\ Cardinality(RunsAt(charges[u], {"failed"})) = 0
        BY <2>1
      <4>2. Cardinality(RequestsOf(u)) = 0
        BY <2>2
      <4>3. QED
        BY <4>1, <4>2
    <3>2. QED
      BY <3>1 DEF RequestInv
  <2>6. QED
    BY <2>4, <2>5
<1>2. TypeInv /\ PageInv /\ TicketInv /\ RequestInv => RequestsFollowResets
  <2> SUFFICES ASSUME TypeInv, PageInv, TicketInv, RequestInv, NEW u \in Users
               PROVE  Cardinality(RequestsOf(u)) <=
                          1 + resets[u] + Cardinality(ChargesAt(u, "failed"))
    BY DEF RequestsFollowResets
  <2> DEFINE live == RunsAt(charges[u], Live)
             published == RunsAt(charges[u], {"published"})
             failed == RunsAt(charges[u], {"failed"})
  <2>1. ChargesAt(u, "failed") = failed
    BY DEF ChargesAt, RunsAt
  <2>2. Cardinality(published) <= Cardinality(live)
    <3>1. published \subseteq live
      BY DEF RunsAt, Live
    <3>2. IsFiniteSet(live)
      BY RunsFinite
    <3>3. QED
      BY <3>1, <3>2, FS_Subset
  <2>3. /\ Cardinality(live) \in Nat /\ Cardinality(published) \in Nat
        /\ Cardinality(failed) \in Nat /\ resets[u] \in Nat /\ Ready(u) \in {0, 1}
    BY RunsFinite DEF PageInv, Ready
  <2>4. /\ Cardinality(live) + Ready(u) <= 1 + resets[u]
        /\ Cardinality(RequestsOf(u)) <= Cardinality(published) + Cardinality(failed)
    BY DEF TicketInv, RequestInv
  <2>5. Cardinality(RequestsOf(u)) \in Nat
    BY RequestsFinite
  <2>6. QED
    BY <2>1, <2>2, <2>3, <2>4, <2>5
<1>3. QED
  BY <1>1, <1>2, TicketStep, RequestStep, PageTypesHold, PTL DEF PageSpec
-----------------------------------------------------------------------------
(***************************************************************************)
(* The controller among pages.  Controller's own users publish a request   *)
(* over the nonce the account has and grant it in the same step; pages     *)
(* fetch a nonce, grant it and publish it in steps of their own, so their  *)
(* requests may hold a nonce that is used by now, or that nobody granted.  *)
(* What the controller promises depends on none of that: its invariants    *)
(* are kept by any message of the kind Request, whoever publishes it.      *)
(***************************************************************************)

ControllerInv == SignatureInv /\ CreditInv /\ LossInv /\ WorkingInv

\* A step of somebody else that publishes one request or nothing.
OutsideRequest ==
    /\ UNCHANGED <<now, controllerVars, late, merged, next>>
    /\ UNCHANGED faults \/ Fault
    /\ UNCHANGED log \/ \E event \in RequestMessages : Adds(event)

LEMMA OutsideEvents ==
    ASSUME TypeInv, OutsideRequest
    PROVE  /\ \A i \in DOMAIN log : i \in DOMAIN log' /\ log'[i] = log[i]
           /\ Events("Status")' = Events("Status")
           /\ Events("Transaction")' = Events("Transaction")
           /\ Events("Request") \subseteq Events("Request")'
<1>1. log \in Seq(Messages)
  BY DEF TypeInv, LogInv
<1>2. CASE UNCHANGED log
  BY <1>2 DEF Events
<1>3. ASSUME NEW event \in RequestMessages, Adds(event)
      PROVE  /\ \A i \in DOMAIN log : i \in DOMAIN log' /\ log'[i] = log[i]
             /\ Events("Status")' = Events("Status")
             /\ Events("Transaction")' = Events("Transaction")
             /\ Events("Request") \subseteq Events("Request")'
  <2>1. event \in Messages /\ event.kind = "Request"
    BY DEF Messages, RequestMessages
  <2>2. \A i \in DOMAIN log : i \in DOMAIN log' /\ log'[i] = log[i]
    BY <1>1, <1>3, <2>1, Grows
  <2>3. \A kind : Events(kind)' = Events(kind) \cup
                      (IF event.kind = kind THEN {Len(log) + 1} ELSE {})
    BY <1>1, <1>3, <2>1, Grows
  <2>4. Events("Status")' = Events("Status")
    BY <2>1, <2>3
  <2>5. Events("Transaction")' = Events("Transaction")
    BY <2>1, <2>3
  <2>6. Events("Request") \subseteq Events("Request")'
    BY <2>3
  <2>7. QED
    BY <2>2, <2>4, <2>5, <2>6
<1>4. QED
  BY <1>2, <1>3 DEF OutsideRequest

LEMMA OutsideKeeps ==
    ASSUME TypeInv, ControllerInv, OutsideRequest
    PROVE  ControllerInv'
<1>1. /\ UNCHANGED <<up, machine, cursor, handling, late, next, merged>>
      /\ faults \in Nat /\ faults' \in Nat /\ faults <= faults'
  BY ControllerAssumption
  DEF OutsideRequest, controllerVars, Fault, TypeInv, OutsideInv
<1>2. \A i \in Events("Status") \cup Events("Transaction") \cup Events("Request") :
          log'[i] = log[i]
  BY OutsideEvents DEF Events
<1>3. ASSUME NEW r \in Events("Request")
      PROVE  Signature(r)' = Signature(r) /\ BelowNonce(r)' = BelowNonce(r)
  BY <1>1, <1>2, <1>3 DEF Signature, BelowNonce
<1>4. handling # Idle => handling.request \in Events("Request") /\ Handled' = Handled
  <2>1. handling # Idle => handling.request \in Events("Request")
    BY HandledTypes DEF TypeInv
  <2>2. QED
    BY <1>1, <1>2, <2>1 DEF Handled
<1>5. SignatureInv'
  <2>1. Changes' = Changes /\ \A i \in Changes : /\ log'[i] = log[i]
                                                 /\ log[i].initial_request \in Events("Request")
    BY <1>2, OutsideEvents, ChangeTypes DEF Changes
  <2>2. handling.step = "status" => handling # Idle
    BY DEF Idle
  <2>3. \A i \in Changes' : BelowNonce(log[i].initial_request)'
    BY <1>1, <1>2, <2>1 DEF ControllerInv, SignatureInv, BelowNonce
  <2>4. OneSessionPerSignature'
    BY <1>2, <2>1 DEF ControllerInv, SignatureInv, OneSessionPerSignature, Signature
  <2>5. ASSUME handling'.step = "status"
        PROVE  /\ BelowNonce(handling.request)'
               /\ \A i \in Changes' :
                      Signature(log[i].initial_request)' # Signature(handling.request)'
    BY <1>1, <1>2, <1>4, <2>1, <2>2, <2>5
    DEF ControllerInv, SignatureInv, BelowNonce, Signature
  <2>6. QED
    BY <2>3, <2>4, <2>5 DEF SignatureInv
<1>6. \A u \in Users : Credits(u)' = Credits(u)
  <2>1. ASSUME NEW u \in Users
        PROVE  {i \in Events("Transaction")' : log'[i].user = u}
                   = {i \in Events("Transaction") : log[i].user = u}
    BY <1>2, OutsideEvents
  <2>2. QED
    BY <2>1 DEF Credits
<1>7. Paid' = Paid /\ (Paid => handling # Idle)
  BY <1>1 DEF Paid, Idle
<1>8. CreditInv'
  <2>1. ASSUME NEW u \in Users
        PROVE  Owed(u)' = Owed(u)
    BY <1>4, <1>7 DEF Owed
  <2>2. QED
    BY <1>1, <1>6, <2>1 DEF ControllerInv, CreditInv
<1>9. LossInv'
  <2>1. [u \in Users |-> Credits(u)]' = [u \in Users |-> Credits(u)]
    BY <1>6
  <2>2. /\ PaymentsMade' = PaymentsMade /\ CreditsMade' = CreditsMade
        /\ MergedMade' = MergedMade /\ Carried' = Carried
    BY <1>1, <1>7, <2>1 DEF PaymentsMade, CreditsMade, MergedMade, Carried
  <2>3. /\ PaymentsMade \in Nat /\ CreditsMade \in Nat /\ Cardinality(late) \in Nat
        /\ MergedMade \in Nat /\ Carried \in {0, 1}
        /\ PaymentsMade + Cardinality(late) <= CreditsMade + MergedMade + faults + Carried
    BY LossTypes DEF ControllerInv, LossInv
  <2>4. QED
    BY <1>1, <2>2, <2>3 DEF LossInv
<1>10. WorkingInv'
  <2>1. \A m : StatusEvents(m)' = StatusEvents(m)
    BY <1>2, OutsideEvents DEF StatusEvents
  <2>2. ASSUME NEW m \in Machines, NEW i \in StatusEvents(m), Known(m, i)
        PROVE  i \in StatusEvents(m)' /\ Known(m, i)'
    BY <1>1, <1>2, <2>1, <2>2 DEF Known, StatusEvents
  <2>3. QED
    BY <1>1, <2>2 DEF ControllerInv, WorkingInv
<1>11. QED
  BY <1>5, <1>8, <1>9, <1>10 DEF ControllerInv

LEMMA ControllerInvStep ==
    ASSUME TypeInv, PageInv, ControllerInv, [PageNext]_pvars
    PROVE  ControllerInv'
<1>1. CASE ControllerStep \/ Tick \/ UNCHANGED cvars
  BY <1>1, SignatureStep, CreditStep, LossStep, WorkingStep DEF ControllerInv, Next
<1>2. ASSUME NEW u \in Users, PageStep(u)
      PROVE  OutsideRequest
  <2>1. UNCHANGED log \/ \E event \in RequestMessages : Adds(event)
    BY <1>2, PageSteps, AsksTypes DEF HandleStep
  <2>2. QED
    BY <1>2, <2>1, PageSteps DEF OutsideRequest
<1>3. QED
  BY <1>1, <1>2, OutsideKeeps DEF PageNext, pvars

\* Whatever pages do, the controller announces tokens only for payments, opens
\* one session for a signature, loses no more than faults and equal Transactions
\* of one second cost, and does not take a machine for working that a later
\* second stopped.
THEOREM ControllerKeepsPromises ==
    PageSpec => [](/\ CreditsArePaid /\ OneSessionPerSignature
                   /\ LossesAreFaults /\ NeverWorkingAfterStop)
<1>1. PageInit => ControllerInv
  BY SignatureInit, CreditInit, LossInit, WorkingInit DEF PageInit, ControllerInv
<1>2. TypeInv /\ ControllerInv => /\ CreditsArePaid /\ OneSessionPerSignature
                                  /\ LossesAreFaults /\ NeverWorkingAfterStop
  BY CreditSafe, LossSafe, WorkingSafe DEF ControllerInv, SignatureInv
<1>3. PageSpec => []ControllerInv
  BY <1>1, ControllerInvStep, PageTypesHold, PTL DEF PageSpec
<1>4. QED
  BY <1>2, <1>3, PageTypesHold, PTL

\* Presses of the button, refusals of the wallet and failed publications do no
\* more on chain than grants of signatures and charges for them.
THEOREM PagesChargeInEscrow ==
    PageSpec => [][ChainStep]_escrowVars /\ [][EscrowNext]_escrowVars
<1>1. ASSUME NEW u \in Users, PageStep(u)
      PROVE  ChainStep \/ UNCHANGED escrowVars
  BY <1>1
  DEF PageStep, Connect, OnEvent, PressPay, HandleCharge, PageFault, Reset, SelectTab,
      ConnectFails, HandleReset, FetchNonce, SignMessage, SignRejected, PublishToRelay,
      PublishDropped, FetchThrows, PublishFails, ChainStep, cvars
<1>2. TypeInv /\ [PageNext]_pvars => [ChainStep]_escrowVars
  BY <1>1, ControllerMoves DEF PageNext, Tick, pvars, cvars
<1>3. [ChainStep]_escrowVars => [EscrowNext]_escrowVars
  BY ChainStepEscrow
<1>4. QED
  BY <1>2, <1>3, PageTypesHold, PTL DEF PageSpec
=============================================================================
