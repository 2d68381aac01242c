# Verification of the DePHY LLM proxy

TLA+ models of the DePHY LLM proxy, the TLC runs that check them on small
instances, and TLAPS proofs for every instance: each invariant and each action
property that a run finds to hold, of the on-chain program, its SDK and generated
client, the controller, the backend and the payment page, is a theorem. Liveness
is checked by TLC alone.

## 1. The system

A user buys tokens for a language model with lamports kept in a vault on
Solana, and spends them in conversations held by a backend.

| part | state it keeps | operations | speaks to |
|---|---|---|---|
| `balance-payment` program (Rust, Anchor) | `GlobalAccount`, a `UserAccount`, a vault and `LockAccount`s per user | initialize, set_bot, set_treasury, register, deposit, withdraw, lock, settle, pay | called by users and by the bot |
| SDK (`balance-payment-sdk`) | none | check_eligible, lock, settle, pay over RPC | program |
| controller (`dsproxy-controller`) | per machine: status and the request that started it, in memory; sleeping tasks | handle_message, update_machine, recovery, the task that ends a session | relay (both ways), program through the SDK |
| relay (external) | signed events | publish, subscribe with filters | everyone |
| backend (`dsproxy-backend`, Go) | Postgres: users, conversations, messages, tx_events; in memory: subscription, running requests | listener, AddMessageAndCallChat, Login, lists | relay, chat service, dApp |
| dApp (`balance-payment/app`) | charge status, button, subscription; shown conversation, login | sign, publish a request, follow its events, reset, chat | wallet, relay, backend |

One purchase goes through all of them. The dApp reads the account's nonce, the
wallet signs it, the dApp publishes a `Request`. The controller pays with that
signature, publishes a `Status` and a `Transaction`, and ten seconds later the
`Status` that frees the machine. The backend's listener stores the `Transaction`
and adds its tokens to the user's row. A conversation spends them: the backend
publishes a `Transaction` with negative tokens to itself.

Hard behaviours, all in `PROJECT.json` under `hazards` with their lines:

- *program*: any order of the nine instructions from any signer; two summaries
  (`locked_amount`, the vault) of the same locks; a signature that names no
  amount; rent moved by hand;
- *controller*: memory that follows its own events through the relay; three
  awaits (payment, status, tokens) any of which may be the last before a crash;
  a payment that times out and lands; recovery from one event;
- *backend*: no database transaction anywhere; balance checked before a stream
  and charged by another goroutine later; whole-row writes; a subscription that
  resumes by the second; errors that are logged and passed over;
- *dApp*: status derived from everybody's events; a payment that spans an RPC
  read, a wallet's question and a publication, beside resets that end the
  subscription; in the chat tab, streams and loads that meet in one list.

What makes each part correct: the program never owes more than a vault holds
and never takes one authorisation for two; the controller announces tokens only
for payments, and one goes without only by a fault or because it is announced in
the same second as an equal one; the backend's balance is
what its events say, up to one event per fault, and no answer is charged that is
not there; the dApp never makes a user pay again unasked.

## 2. Modules

| module | models |
|---|---|
| `Escrow` | what the program promises, without accounts, rent, signatures: authorisations used once and in order, amounts held and released |
| `Accounts` | accounts, wallets, clock, `verify`, the runtime's rent rule |
| `BalancePayment` | one action per instruction, signing, direct transfers to a vault, the clock; properties; refinement to `Escrow` |
| `BalancePayment_proofs` | the theorems about the program |
| `Instructions` | the interface between program and generated client: for each instruction the accounts and arguments the client sends, those another program's call sends, and those the handler asks for; account data |
| `InstructionBuilders` | the generated builders at work: setters in any order and again, remaining accounts, more than one instruction from one builder |
| `InstructionBuilders_proofs` | the theorems about the builders and the tables of `Instructions` |
| `Client` | the SDK's `check_eligible`, `lock`, `settle`, `pay`, several calls at once, composed with `BalancePayment`: a transaction is an instruction of `Instructions` that the program runs later |
| `Client_proofs` | the theorems about the SDK and the program together |
| `ControllerState` | relay log with the second of each event, machines, the request being handled, timers; the chain is the variables of `Escrow`, charged by its action `Charge` |
| `Controller` | `message_handler.rs`, one action from one await to the next; crashes, restarts, late payments; properties |
| `BackendState` | tables, relay events, the subscription, requests and logins under way |
| `Controller_proofs` | the theorems about the controller |
| `Backend` | listener, `AddMessageAndCallChat`, `Login`, one action from one external call to the next; properties |
| `Backend_proofs` | the theorems about the backend |
| `ChargePage` | the dApp's payment tab, one page per user, composed with `Controller`; properties |
| `ChargePage_proofs` | the theorems about pages and controller together |
| `Sums` | the sum of a function over a finite set |
| `Sums_proofs` | what that sum is, for every finite set |
| `MCController`, `MCBackend`, `MCChargePage`, `MCClient` | instances for TLC |

Most of these modules hold a section of faulty variants of their steps or
tables. No specification uses them; each shows that a property would notice a
plausible bug.

The composition goes through the abstraction: `BalancePayment` implements
`Escrow` (proved and checked), and `Controller` and `ChargePage` take none but the
steps of `Escrow` on chain (proved). `Backend`
sees of the controller that purchases appear on the relay at any time, which is
more than `Controller` does. `Client` extends `BalancePayment` itself, with users
and the authority acting beside the bot's calls (`Others`); every step of it is a
step of the program, of its world, or none of theirs (proved). `ChargePage` takes
every step of `Controller` as its own (`ControllerStep`) and puts the pages in
the place of the action `Ask`, so its behaviours run from the press of a button
to the charge in the escrow.

### Correspondence

*Program.* `global`, `userAccount`, `lockAccount` are the three account types of
`state/`; `vault` and `wallet` are lamports. An instruction that fails is undone
by the runtime, so its checks are guards, in whatever order. `Lock`, `Settle`
and `Pay` keep `init`, `has_one`, the `require!`s, checked subtraction and the
moved rent; `RentChecked` is the runtime's refusal of accounts left below the
rent minimum. Neither `withdraw.rs` nor `lock.rs` keeps that minimum in the vault. A signature is a record of what it signs. Transaction fees,
collisions of derived addresses, lamports sent to lock accounts and u64 limits
of wallets are left out; the nonce has its limit.

*Controller.* `handling` is the request being handled and the await it is at;
while it is not `Idle` no event is taken from the subscription, as in the loop
of `run`. `AcceptRequest` is everything before `pay`, `PaySucceeds`/`PayFails`/
`PayTimesOut` its outcomes, `SendStatus` and `SendTransaction` the two sends,
the latter with the spawned task. `machine` changes only in `HandleStatus`.
`Crash` is every panic and every stop of the process: a closed subscription, a
lagging channel, a failed send, a lost relay. Events carry the second they were
made in (`created_at`), and `now` is one clock for all, so the log is in the
order of its seconds. An event is its content, its second and its author: when
`send_event` makes one that is there already, the relay reports no failure and has
nothing new (`Publish`). Two equal `Transaction`s of one second are therefore one,
and `merged` counts the payments that share one in this way; no step reads it.
A `Status` names the request it answers and a request carries a key and a
deadline of its own, so theirs differ, but a page may publish the same request
twice (`PublishRequest`). `Restart` reads for each machine one own event of the
newest second in which there is one, any of them (`Newest`): `limit(1)` leaves
open which. Then it subscribes to all events of the second it starts in and
later (`Subscribes`). The timer of a session fires in a later second than it was
set. The key that signs the controller's events lies in a file that is not
mounted from outside the container: `RestartRekeyed` is the start of a container
made anew, under whose key the relay has no status of any machine (`keyed` is
how much of the log is older than the key). Payloads that do not parse are
dropped by the code before anything changes and are left out. Stored events are
delivered in the order of the log. The controller takes a `Status` of any author
for a machine's status (`message_handler.rs:398`); that none but the controller
publishes one, under the key it has or had, is an assumption of the model, in
line with the clients of the repository, which publish only requests.

*Generated client.* Every instruction has three tables that nothing but their
order ties together: `...Accounts` and `...Args` (what `instruction()` and the
borsh structs send), `...Cpi` (what `invoke_signed` sends), `...Context` (the
`#[derive(Accounts)]` struct and the parameters of the handler). `Bound`,
`Received` and `Admits` are Anchor's reading of an instruction by position. A
builder is the map from its fields to how often each was set; the value stands
for itself, so a mix-up of two fields or of an old and a new setting shows.
`Issue` leaves the builder in use, as `instruction(&self)` does, and an unset
field is a panic. Discriminators are the instruction's name; byte widths are
left out. The CPI builder reads the two flags of a remaining account in the
other order than it documents (`settle.rs:392` against `settle.rs:550`):
`RemainingMeta` models what it does.

*SDK.* `call[c]` is a call and the await it is at, `transaction[c]` what it has
sent. `check_eligible` reads the account (`CheckAccount`) and then the vault
(`CheckVault`); `lock`, `settle` and `pay` read one account, build, send and wait
for the confirmation. `GivesUp` is the ten-second timeout or an RPC error at any
of these, and a transaction that was sent may land all the same (`Land`), any
number of instructions later, if the program accepts it then. Subtraction wraps
at `MaxU64`: the build has no overflow checks. `VerifySignature` has three
results, of which `check_eligible` refuses one. `verify.rs` is the SDK's copy of
the program's `ed25519.rs`; both come down to who signed what.

*Backend.* `relay` is a set because an event's identity is its content with a
second-grained time. That only the controller publishes purchases there, and only
the backend charges, is assumed; the listener's filter (`tx_event.go:48`) names no
author. `Subscribe` is `StartNostrListener` up to the loop,
`SaveEvent` and `CreditEvent` the two writes of an event. One subscription hands
an event over once, and a new one starts after the newest that is stored, so
what is stored does not come again. `asks[s]` is a running
request with what it has read: `ReadConversation`, `CheckBalance`, `StreamEnds`
or `StreamFails`, `SaveAsk`, `SaveAnswer`, `PublishCharge`, `WriteTotal` follow
the function from top to bottom, and `WorksOrFails` gives each write and publish
its error path: return, or log and go on, as the code does. `LoginReads` and
`LoginSaves` are the read (or creation) and the save of `Login`. The chat
service counts a prompt in `Prompts` and an answer of at most `max_tokens`.
Reading a negative balance into the unsigned field is an error of the ORM. The
texts of messages, tokens of HTTP sessions and lists are left out.

*dApp.* `page` is `chargeStatus` with `isChargeDisabled`, `listening` the relay
connection and what `subscriptionRef` holds, `delivered` how far the
subscription has come in the log. `charges[u]` are the runs of `handleCharge` of
a page, each at one of its three awaits with the nonce it read: a reset lets a
second run start beside the first. `OnEvent` is the callback of
`listenFromRelay`, which does not look at whose event it is, and `Connect` subscribes to the events
of its second and later. `HandleReset` is
called by the Reset button and by selecting a tab, the selected one included, so
the tab itself is no state. A signature over a nonce the account has left
behind grants nothing. The status `error` needs an event that none of the
components publishes and is never reached.

## 3. Runs

| run | checks | result |
|---|---|---|
| `one_user` | all nine properties of the program, refinement of `Escrow` included | hold |
| `builders` | `AccountsArriveAsSet`, `PrivilegesMatch`, types | hold |
| `client` | `LandsOnce`, `LocksAreFound`, `EligibleIsCovered`, types | hold |
| `controller_crash` | `CreditsArePaid`, `LossesAreFaults`, `OneSessionPerSignature`, `NeverWorkingAfterStop`, types | hold |
| `charge_page` | `RequestsFollowResets`, `ChargesFollowPresses`, types | hold |
| `payment_live` | `PaidIsCredited`, `WorkingEnds`, `ProgressEnds` over pages and controller | hold |
| `backend_faults` | `LedgersAgree`, `NeverOverCredited`, `ChargesHaveAnswers`, `AsksHaveAnswers`, `ContextBounded`, types | hold |
| `backend_live` | `EventsAreHandled`, and `NeverOverCredited` with logins and late events | hold |
| `eligible_signed` | `EligibleHasSigned` | violated: `check_eligible` calls a user eligible whose signature is somebody else's |
| `double_charge` | `NoChargeWhileWorking` | violated: a queued request is charged before the controller hears its own status |
| `ready_to_pay` | `ReadyToPay` | violated: after a reset a page hears nothing of its next payment |
| `overdraft` | `BalanceIsUnsigned` | violated: two requests spend one balance |

`EligibleIsCovered` is what the answer of `check_eligible` is worth, which reads
account and vault apart with anything landing in between. The nonce of a yes is
the account's own, unless it has been used up since the account was read. While it
is the account's own, no lock has been added, so the vault covers the amount next
to every open lock, with one exception that the property names (`SettledSince`): a
`settle` in between takes the vault below the `locked_amount` that was read, the
unsigned difference wraps round and any amount passes. The answer is about the
moment it is given: the program checks again.

`EveryLockSettleable` is about the instruction as a whole, the runtime's rent rule
included, for any payer. No withdrawal or payment makes a lock unsettleable; but
neither of the two keeps the vault's rent minimum, so a settlement in full is
refused when it would leave the vault more than nothing and less than that. Then
the bot can take all but an amount below the minimum. A treasury without any
lamports may be too poor to receive the amount, and is left out.

The models contain six more divergences that have no run of their own. A
request with a wrong reason is logged as one to skip
(`message_handler.rs:271`-`272`) and then handled: `Accepts` does not look at it.
A login writes back the row it has read, which may be older than a charge
(`logic/user.go:90`): `LoginSaves`; the balance is an event short or over then,
and the total of consumed tokens falls, which `models/user.go:12` calls total.
Two equal `Transaction`s of one second are one event, so one of two payments gives
no tokens although nothing failed (`merged`). A restart reads any own event of the
newest second: of a Working and an Available status in one second it may take the
first, and the machine for working that was stopped (`Newest`). The flags of
remaining accounts are swapped, and a settlement in full may be refused for rent,
both above. The properties do not assume these away: each names its exception.

`LossesAreFaults` is the controller's price list: a payment without tokens is
either being handled, or due to a crash or timeout, one payment each, or shares
its event with an equal one. In the
same way `LedgersAgree` lets a stop or failed write part a balance from the
stored events by one event, and `NeverOverCredited` says that losing is the only
direction, failed saves apart: it does not exclude that a login undoes a credit. `LedgersAgree` speaks of the time before the first
login (`logins = 0`): a login may write back a row that is any number of events
old, and no bound on faults covers that. `NeverOverCredited` needs no such guard.
`EventsAreHandled` says that every event is stored and leaves the listener's hands,
and that a user's row shows all events of the relay time and again, for a user who
had a row from the start and as long as nobody has logged in: a credit without a
row updates nothing (`dao/user.go:41`), and a login may undo one.

### Bounds

- `one_user`: nonces 0..2, so two locks may be open and a pay may come before,
  between or after; five lamports and a rent minimum of two, so that rent
  refuses some transfers; two seconds, so that signatures expire. One operator
  key beside the user: roles may coincide or differ. The nonce limit is reached.
  More users share only the global account and the operators' wallets; the
  theorems are about any number of them.
- `builders`: every instruction through both builders; each field set up to
  twice, two fields more than once, one remaining account with any flags: enough
  for a setting that is repeated after an instruction was built from the first.
- `client`: one user, one operator who is the bot, three calls of any kind, two
  of which may carry one signature or settle one lock; nonces 0..2, amounts of
  two, five lamports in the vault, so that two locks fit and a settlement may
  leave less than was locked; a treasury that moves while a call waits. Calls are
  interchangeable (symmetry); unsigned numbers wrap at seven, and a settlement
  between the readings does make the difference wrap.
  `eligible_signed`: two users and one call.
- `controller_crash`: three requests (one may be the admin's) of two users, who
  are interchangeable (symmetry), on one machine, and two faults (a lost key is
  one): enough for a crash during the recovery from a crash, for a late payment
  beside a session of the other user, and for the request of one second to be
  handled twice. `MaxSeconds` counts the seconds told apart; those that a timer or
  a stopped process waits for are not counted. With one, everything that is not
  kept apart by a timer or a restart may happen in one second, which is where
  events are equal, are read in another order and are delivered again. The clock
  moves only when an event carries the present second: seconds without events
  tell nothing apart.
- `charge_page`: two users, who are interchangeable (symmetry), on the one
  machine a page knows; two presses, one reset, one fault: enough for a second
  request beside the first, and for either a publication that failed and was
  stored or a controller that restarts while a page is paying.
- `payment_live`, `ready_to_pay`: the same without faults. Two sessions of one
  machine overlap when the second request is queued before the first is
  answered.
- `backend_*`: one user and one conversation, which is where requests, listener
  and login meet; two requests at once; two seconds, so that events share a
  second; one purchase of two tokens per second against a context of two and
  prompts of one. `backend_faults` has a stop and a failed write and no logins,
  `backend_live` a login and events that arrive a second late, and no faults.
- `CHECK_DEADLOCK FALSE` in all runs but `one_user` and `builders`: with the
  requests, presses, calls, clock and faults of the bounds used up the system
  rests.

### Fairness

`payment_live`: weak fairness of a page's connecting, of its event callback and
of the next step of its `handleCharge`, of the controller's receiving, of the
payment's answer and of the two sends, which are one loop at one await at a time,
of the timers, of which there are finitely many, and of the clock. The browser and the async
runtime run what is ready, the relay delivers what it has stored, `pay` returns
within its timeout, time passes (`Tick`), sleep ends, and a user answers the wallet one way or the
other. `Pay` is fair as a whole: nothing forces success. Nobody has to press a
button. There are no faults in this run, since nothing in the code recovers a
lost timer or tokens. `backend_live`: weak fairness of subscribing, of the two
writes and of the restart, without stops and failed writes, since nothing in the
code retries. Nothing is assumed of the chat service: its client has no timeout.

## 4. Proofs

### Sums

Balances, counts and ledgers are sums, so the proofs about them need facts about
`SumOver`, a fold of the community modules. `Sums_proofs` proves them for every
finite set: the sum of any term and the rest (`SumTakes`, whatever order the fold
takes), a change of one term (`SumChanges`), unions, subsets, equal terms,
comparisons. An induction theorem that takes the claim as an operator cannot be
used here, so each lemma argues by a smallest counterexample: a nonempty
collection of subsets of a finite set has a smallest member (`SmallestSubset`,
from the well-foundedness of strict subsets), and for the smallest subset that
fails, the claim holds with one element less. In the same way the fold's recursive
function is shown to exist (`SumExists`) and to be unique (`SumUnique`).

For sums the sets have to be finite: `KeysAssumption`, `UsersAssumption`,
`RowsAssumption`. Keys are 32 bytes long and a database holds finitely many rows.

### The program

`BalancePayment_proofs` proves for all users, nonces, lamports and times:

| theorem | states |
|---|---|
| `Inductive` | `Spec => []IndInv` |
| `TypeCorrect`, `BackedLocks`, `Solvency`, `FreshLocks` | its parts `TypeOK`, `LockedIsBacked`, `Solvent`, `FreshLockAddress` |
| `Settleable` | `EveryLockSettleable` |
| `NoncesUsedOnce`, `OnlyAuthorisedCharges` | the two action properties |
| `Conservation` | `LamportsConserved` |
| `Refinement` | `Spec => ImplementsEscrow` |

Assumed are `BoundsAssumption`, `RentAssumption`, `KeysAssumption` and
`NoneAssumption` of `Accounts`: bounds are natural numbers, wallets start
rent-exempt, keys are finitely many, an account that does not exist differs from
every one that does.

`Solvent` is not inductive: `settle` takes a whole lock out of `locked_amount`
and pays from the vault, which is safe only when `locked_amount` counts every
open lock, `LockedIsBacked`. That sum is the cardinality of a set with one
element per locked lamport, so the lemmas `OpenAdds` and `CloseRemoves` follow
from the library's facts on unions. `lock` adds a term to the sum, and does not
overwrite one, because the address of the next lock is free, `FreshLockAddress`.
`IndInv` is these, types, the finiteness of the locks, and that the runtime has
left no wallet or vault below the rent minimum (`RentInv`). From it follows
`EveryLockSettleable`: the amount is in full what the lock says, or, when that
leaves dust, what brings the vault to exactly the minimum (`DustStaysBehind`), and
a payer or treasury that is exempt stays so with more (`CreditsStayExempt`). `Refinement` maps each
instruction to one escrow operation or to a stutter: `available` is the vault
less `locked_amount`, `granted` the nonces a user has signed.

`LamportsConserved` is inductive with the types alone. Each instruction changes
five numbers, the sums of wallets and of vaults and the three counts of accounts
that rent was paid for (`GlobalPaid`, `Created`, `Opened`), and the changes cancel
(`ChangesCancel`). The work is in the counts: that `register` adds one account
(`RegisterCreates`), `lock` opens one lock (`LockOpens`), `settle` closes one
(`SettleCloses`) and nothing else touches them; and in a payer, a treasury and a
user that may be one and the same key.

### The controller

`Controller_proofs` proves for all users, machines, requests, nonces and for any
number of crashes, lost keys, late payments and events delivered again:

| theorem | states |
|---|---|
| `ControllerTypes` | `ControllerTypeOK` |
| `OneSession` | `OneSessionPerSignature` |
| `PaidCredits` | `CreditsArePaid` |
| `WorkingIsLast` | `NeverWorkingAfterStop` |
| `LossesBounded` | `LossesAreFaults` |
| `ChargesInEscrow` | `Spec => [][EscrowNext]_escrowVars`: on chain, users grant authorisations and the controller charges its price against them, and nothing else |

Assumed are `EscrowAssumption`, `ControllerAssumption`, `ReasonAssumption` and
`UsersAssumption`: amounts and bounds are natural numbers, `PAY_AMOUNT` is an amount
an instruction can name, a user's reasons are reasons, users are finitely many.

`TypeInv` adds to the types what the messages of the log are, that the log is in the
order of its seconds (`ClockInv`), and that a process that is down remembers
nothing. The lemmas `Grows` and `Publishes` say what any
step appends to the log, so that the other invariants are about one new event
instead of about all actions.

- *One session per signature.* The chain takes a signature at the account's
  present nonce only and moves the nonce on. `SignatureInv`: the signature behind
  every announced change of a machine, and behind the request that has been paid
  and not yet announced, lies below its account's nonce, and they all differ. A
  payment takes the nonce itself, so it makes none of them twice.
- *Credits are paid.* Not inductive, since the credit follows the payment by two
  awaits. `CreditInv` counts the payment under way: credits plus one for a
  request that is paid and not yet credited are at most the nonce.
- *Working is last.* `WorkingInv`: while the process runs, a machine it takes for
  working has a Working status in the log such that every status of a later
  second is still to be delivered. Recovery reads one of the newest second
  (`RecoveredWorking`), and what the subscription delivers, again or for the first
  time, moves the claim forward with the cursor, because the log is in the order
  of its seconds. Once the cursor is at the end no second after it has a status.
  Within one second nothing more can be claimed: recovery may read either of two.
- *Losses.* Not inductive: a payment that timed out is charged to no fault when it
  lands later. `LossInv` counts it when it is given up on: payments made and
  payments that may still land are at most the credits, the payments merged with
  an equal one, the faults, and the request in hand if it is paid. `SendTokens`
  moves the request in hand either to the credits or to the merged ones, and a
  crash that takes it along is a fault.

### The SDK

`Client_proofs` proves for all users, keys, amounts and for any number of calls,
given up on or not, whose transactions land at any time:

| theorem | states |
|---|---|
| `ClientInductive` | `ClientSpec => []ClientInv /\ [][Next]_vars`: calls, users and the authority do nothing to the program but its instructions |
| `ClientTypes` | `ClientTypeOK` |
| `OneLanding` | `LandsOnce` |
| `FoundLocks` | `LocksAreFound` |
| `SeenFits` | while `check_eligible` waits for the vault: what it has read of an account whose nonce has not moved since has at least the locks of now |
| `YesIsCovered` | `EligibleIsCovered` |
| `TransactionsAreSafe` | of the program: `LamportsConserved`, `Solvent`, `LockedIsBacked`, `EveryLockSettleable`, `FreshLockAddress`, `NonceUsedOnce`, `ChargesAreAuthorised` |

Assumed are the assumptions of `Accounts`, `ClientAssumption` and
`BalancesAssumption`: the bot and the treasuries are keys, amounts are lamports, a
wallet pays for the accounts and deposits the calls start from and the runtime
has accepted what it is left with, and what is no curve point is nobody's
signature.

The lemmas `LockArrives`, `SettleArrives` and `PayArrives` read the tables: what
the client puts into an instruction is what the program takes out of it, because
both list the same names and each name once. So a landing is the program's own
instruction for the call's arguments (`LandRuns`), which needs that the
transaction is still the instruction of its call however the call went on
(`TransactionInv`). `LandsOnce` and `LocksAreFound` are then inductive together
with `LandedInv`: the account has left behind the nonce of every lock and payment
that has landed, and the lock of every settle is gone. A later one would have to
name the account's present nonce, or a lock that is open. A yes of
`check_eligible` is about two readings: `CallInv` carries what the first has read
to the second, and `SeenInv` says what may have happened since: the nonce has
moved, or the locks have only become fewer (`LocksOnlyShrink`), because a lock
uses a nonce up. So the difference that is computed is at most the true one, or
it wraps round, which takes a vault below the locks that were read. `TransactionsAreSafe` says that the program's promises hold among
calls, retries and late transactions: every step of `ClientSpec` is one of the
program's, so the lemmas about its steps apply. `ClientSpec` starts where some
users have registered and deposited, which `Spec` only reaches, so
`ClientInitConserved` balances the lamports of that world.

### The generated client

`InstructionBuilders_proofs` proves for any number of settings of a field, any
remaining accounts and any number of instructions from one builder:

| theorem | states |
|---|---|
| `BuildersAreComplete` | `BuilderTypeOK` |
| `PrivilegesAreAsked` | `PrivilegesMatch` |
| `BuildersKeepNames` | `AccountsArriveAsSet` |

The tables of `Instructions` are read once: for each of the nine instructions,
client, call of another program and handler list the same accounts in the same
order, each once, with the same privileges, and the same arguments
(`InterfaceAgrees`), and `PrivilegesMatch` is about each instruction when it is
issued: the declared accounts ask for exactly what the handler asks for, the
additional ones follow as they were added, those of the builder for CPIs only
when their two flags are equal. This is where a table that the generator or the program's
authors changed on one side only would show. The rest is about lists of any such
kind: what is appended (`AppendToList`), that remaining accounts come behind and
hide none of those before (`ListsJoined`), and that an account found by its
position in one list is the account of that name in the other (`BuiltAccounts`,
`BuiltData`, `BuiltArrives`). `BuilderInv` is that a builder in use has exactly the
fields of its instruction, each with a count; `IssuedInv` that whatever was issued
was well built when it was, and stays so when the builder is changed afterwards.

### The backend

`Backend_proofs` proves for all users, conversations, purchases and for any
number of requests at once, logins, stops and failed writes:

| theorem | states |
|---|---|
| `BackendTypes` | `BackendTypeOK` |
| `ContextStaysBounded` | `ContextBounded` |
| `AsksAreAnswered` | `AsksHaveAnswers` |
| `LedgersStayClose` | `LedgersAgree` |
| `NoPurchaseTwice` | `NeverOverCredited` |
| `ChargesAreForAnswers` | `ChargesHaveAnswers` |

Assumed are `BackendAssumption`, `LimitsAssumption` and `RowsAssumption`:
conversations have owners, bounds and prompts are natural numbers, one of the
prompts is the longest, finitely many requests run at once, and users and
conversations are finitely many.

- *Context.* Requests overwrite each other's totals, so no total follows from the
  one before. Each request keeps to what the total that it read leaves, whatever
  is stored meanwhile (`ContextInv`): what it will write is bounded when it reads.
- *Asks.* The asks of a conversation without an answer (`Alone`) are counted
  beside the requests between their two writes (`Between`). A step keeps both,
  adds one to both, takes one from both or fails to, or empties `Between` in a
  stop (`AsksMove`): the bounds are inductive.
- *Ledgers.* `BalanceInv` is `LedgersAgree` and that nobody's login is under way
  before the first one. An event's identity is its content, so the sum over the
  stored ones is over a set: `EventsInv` keeps it finite and each event within
  `Largest`, and what the subscription has yet to deliver apart from what is stored,
  so that saving adds one term. A save and its credit move sum and balance by one
  event each; what fails or stops between them widens the slack by as much.
- *Purchases.* Logins break any relation between a row and the events stored, but
  only downwards: `PurchaseInv` says of the row and of every row that a login has
  read that what it shows as bought, and the purchase in hand, was stored, or is
  excused by a failed save (`Covered`). The copy a login holds obeys the same
  bound, so writing it back does.
- *Charges.* `ChargeInv` adds to the charges on the relay those that are about to
  be published, which count after their answers were stored and before the events
  exist: together they are covered by the usage of stored answers.

### The payment page

`ChargePage_proofs` proves for all users, machines, nonces and for any number of
presses, resets and faults of the controller:

| theorem | states |
|---|---|
| `PressesAreCharged` | `ChargesFollowPresses` |
| `RequestsNeedResets` | `RequestsFollowResets` |
| `PageTypesCorrect` | `PageTypeOK` |
| `ControllerKeepsPromises` | of the controller: `CreditsArePaid`, `OneSessionPerSignature`, `LossesAreFaults`, `NeverWorkingAfterStop` |
| `PagesChargeInEscrow` | `PageSpec => [][EscrowNext]_escrowVars` |

All build on the invariants of `Controller_proofs` and need no assumption beyond
its own.

- *Charges.* The chain charges a nonce once, the controller charges only for
  requests, and every request carries a nonce that a run of its user's page has
  fetched (`PressInv`). So every nonce that is used up has a run of its own: an
  injection from the charges into the runs.
- *Requests.* The live runs of a page, and the ready page itself, are tickets for
  requests to come: a reset is the only thing that makes one more
  (`TicketInv`), and a request uses one up, or was reported as failed
  (`RequestInv`).
- *Types.* `TabInv`: no page is past the end of the log, and the sum of the resets
  of all pages stays within `MaxResets`, which is what bounds a single page's
  resets.
- *The controller among pages.* The pages' requests are not those of the action
  `Ask`: a nonce may be stale, a publication may fail and be stored. Everything
  the pages do is an `OutsideRequest`: it leaves the controller and the chain
  alone and publishes one request or nothing. The four invariants of the
  controller (`ControllerInv`) are kept by any such step, whatever the request
  says (`OutsideKeeps`), so they hold of the composition.

### Only model-checked

The liveness properties: `PaidIsCredited`, `WorkingEnds` and `ProgressEnds` of pages
and controller, `EventsAreHandled` of the backend. They rest on fairness, which is
about `ENABLED` and out of this prover's reach. Of the escrow, controller and pages
refine the steps only: their users have funds at the start.

## 5. Not modelled

- curve arithmetic of signature verification, byte layouts and discriminators;
- HTTP routing, sessions, streaming to the browser, the parsing of command lines:
  each calls one modelled function per request, and keeps nothing between two;
- the library's reconnection to the relay and its channel, except as a crash;
- creating and listing conversations, message texts;
- of the dApp: the chat tab and the services it calls, which show what the
  backend has stored and keep a login in the browser; the polling of balances;
  the template's cluster and account pages;
- the command line of the program and its tests: what they may call is what
  `BalancePayment` lets anybody call.

## 6. What is left

Out of reach of these tools: liveness in the proofs (above), and the
composition of all components in one instance, whose interleavings exceed what
TLC explores in the time of a run; the composition is through `Escrow`, through
the program's instructions, and through the events of the relay instead. The
hazards that no property covers carry a note in `PROJECT.json`: for most of them
no document says what the code should do.
