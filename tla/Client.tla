------------------------------- MODULE Client -------------------------------
(***************************************************************************)
(* The balance-payment SDK: check_eligible, lock, settle and pay, as the   *)
(* bot's processes call them, together with the program their transactions *)
(* reach.  A call reads accounts through one RPC request after another and *)
(* may be one of several at once; its transaction is built from what it    *)
(* read, and lands later, or never, whatever the call has answered.        *)
(***************************************************************************)
EXTENDS BalancePayment, Instructions

CONSTANTS
    Calls,          \* calls of the SDK, bounds how many there are
    Bot,            \* the key in the keypair file
    Amounts,        \* bound: the amounts calls and withdrawals name
    Treasuries,     \* bound: the keys set_treasury names
    Deposited,      \* lamports in the vault of a registered user at the start
    MaxU64,         \* the largest u64 of an unsigned difference
    Nobody          \* "signed by" in a signature that is not a curve point

ASSUME ClientAssumption ==
    /\ Bot \in Keys
    /\ Amounts \subseteq Lamports
    /\ Treasuries \subseteq Keys
    /\ {Deposited, MaxU64} \subseteq Nat
    /\ GlobalRent + UserRent + Deposited <= InitialWallet
    /\ Nobody \notin Keys

\* The runtime has accepted the balances the behaviours start from.
ASSUME BalancesAssumption ==
    /\ RentExempt(Deposited)
    /\ \A paid \in {0, GlobalRent, UserRent + Deposited, GlobalRent + UserRent + Deposited} :
           RentExempt(InitialWallet - paid)

VARIABLES
    call,           \* each call: its function, arguments, what it has read
                    \* and the await it is at, or its answer
    transaction     \* each call's transaction: its instruction and its fate

clientVars == <<call, transaction>>
allVars == <<vars, clientVars>>

Unused == [fn |-> "none", step |-> "unused"]
NoTransaction == [state |-> "none"]

Malformed == [user |-> Nobody, nonce |-> 0, deadline |-> MaxTime]
GivenSignatures == signed \cup {Malformed}
-----------------------------------------------------------------------------
\* find_program_address.

GlobalAddress == <<"GLOBAL">>
UserAddress(u) == <<"USER", u>>
VaultAddress(u) == <<"VAULT", u>>
LockAddress(u, n) == <<"LOCK", u, n>>
SystemProgram == <<"SYSTEM">>

\* verify_signature: an error when the key or the signature is not a point of
\* the curve, otherwise whether the signature is that key's over the digest.
VerifySignature(u, sig, nonce) ==
    IF sig.user = Nobody THEN "error" ELSE IF SignedBy(u, sig, nonce) THEN "true" ELSE "false"

\* Subtraction of u64: this build has no overflow checks.
WrappingSub(a, b) == (a - b) % (MaxU64 + 1)

At(c, fns, step) == call[c].fn \in fns /\ call[c].step = step

\* The call goes on to its next await, or answers.
Goes(c, step) ==
    /\ call' = [call EXCEPT ![c].step = step]
    /\ UNCHANGED <<vars, transaction>>

\* get_account_data and from_bytes: the client reads what the program wrote.
UserAccountRead(u) == FromBytes(UserAccountState, UserAccountData, userAccount[u])
GlobalAccountRead == FromBytes(GlobalAccountState, GlobalAccountData, global)
-----------------------------------------------------------------------------
\* Faulty variants, each with one plausible mistake; no specification uses them.

\* check_eligible comparing with the whole vault.
CheckVaultIgnoresLocks(c) ==
    /\ At(c, {"check_eligible"}, "vault")
    /\ Goes(c, IF vault[call[c].user] < call[c].amount THEN "refused" ELSE "eligible")

\* settle taking the newest lock for the one it is asked for.
SettleInstructionNewest(request) ==
    LET u == request.user
        n == IF NonceOf(u) = 0 THEN 0 ELSE NonceOf(u) - 1
    IN  Instruction("settle", SettleAccounts,
            [global_account |-> GlobalAddress, user_account |-> UserAddress(u), user |-> u,
             treasury |-> request.seen.treasury, lock_account |-> LockAddress(u, n),
             vault |-> VaultAddress(u), bot |-> Bot, payer |-> Bot,
             system_program |-> SystemProgram],
            SettleArgs, [nonce |-> n, amount_to_transfer |-> request.amount], <<>>)
-----------------------------------------------------------------------------
\* check_eligible(user, nonce, amount, recover_info)

CheckEligible(c, u, nonce, amount, sig) ==
    /\ call[c] = Unused
    /\ call' = [call EXCEPT ![c] = [fn |-> "check_eligible", user |-> u, nonce |-> nonce,
           amount |-> amount, sig |-> sig, step |-> "account", seen |-> Unused]]
    /\ UNCHANGED <<vars, transaction>>

\* Only an error of verify_signature counts as an invalid signature, and
\* the program still accepts in the second of the deadline.
PassesAccount(c) ==
    LET account == UserAccountRead(call[c].user)
        sig == call[c].sig
    IN  /\ account.nonce = call[c].nonce
        /\ VerifySignature(call[c].user, sig, account.nonce) # "error"
        /\ now < sig.deadline

CheckAccount(c) ==
    /\ At(c, {"check_eligible"}, "account")
    /\ \/ ~Registered(call[c].user) /\ Goes(c, "error")
       \/ Registered(call[c].user) /\ ~PassesAccount(c) /\ Goes(c, "refused")
       \/ /\ Registered(call[c].user)
          /\ PassesAccount(c)
          /\ call' = [call EXCEPT ![c].step = "vault", ![c].seen = UserAccountRead(call[c].user)]
          /\ UNCHANGED <<vars, transaction>>

\* The vault is read after the account; an empty one does not exist.
CheckVault(c) ==
    /\ At(c, {"check_eligible"}, "vault")
    /\ LET balance == vault[call[c].user]
           short == WrappingSub(balance, call[c].seen.locked_amount) < call[c].amount
       IN  Goes(c, IF balance = 0 THEN "error" ELSE IF short THEN "refused" ELSE "eligible")
-----------------------------------------------------------------------------
\* lock(user, amount, recover_info), settle(user, nonce, amount_to_transfer),
\* pay(user, amount_to_transfer, recover_info): read one account, build, sign,
\* send and wait for the confirmation.  The bot pays too.

Begin(c, fn, u, nonce, amount, sig) ==
    /\ call[c] = Unused
    /\ call' = [call EXCEPT ![c] = [fn |-> fn, user |-> u, nonce |-> nonce,
           amount |-> amount, sig |-> sig, step |-> "read", seen |-> Unused]]
    /\ UNCHANGED <<vars, transaction>>

ReadAccount(c) ==
    /\ At(c, {"lock", "settle", "pay"}, "read")
    /\ \/ call[c].fn = "lock" /\ ~Registered(call[c].user) /\ Goes(c, "error")
       \/ /\ call[c].fn = "lock" => Registered(call[c].user)
          /\ call' = [call EXCEPT ![c].step = "send", ![c].seen =
                 IF call[c].fn = "lock" THEN UserAccountRead(call[c].user) ELSE GlobalAccountRead]
          /\ UNCHANGED <<vars, transaction>>

\* The instruction built from a call's arguments and what it has read.
LockInstruction(request) ==
    LET u == request.user
    IN  Instruction("lock", LockAccounts,
            [global_account |-> GlobalAddress, user_account |-> UserAddress(u), user |-> u,
             lock_account |-> LockAddress(u, request.seen.nonce), vault |-> VaultAddress(u),
             bot |-> Bot, payer |-> Bot, system_program |-> SystemProgram],
            LockArgs, [recover_info |-> request.sig, amount |-> request.amount], <<>>)

SettleInstruction(request) ==
    LET u == request.user
    IN  Instruction("settle", SettleAccounts,
            [global_account |-> GlobalAddress, user_account |-> UserAddress(u), user |-> u,
             treasury |-> request.seen.treasury, lock_account |-> LockAddress(u, request.nonce),
             vault |-> VaultAddress(u), bot |-> Bot, payer |-> Bot,
             system_program |-> SystemProgram],
            SettleArgs, [nonce |-> request.nonce, amount_to_transfer |-> request.amount], <<>>)

PayInstruction(request) ==
    LET u == request.user
    IN  Instruction("pay", PayAccounts,
            [global_account |-> GlobalAddress, user_account |-> UserAddress(u), user |-> u,
             vault |-> VaultAddress(u), treasury |-> request.seen.treasury, bot |-> Bot,
             payer |-> Bot, system_program |-> SystemProgram],
            PayArgs, [recover_info |-> request.sig, amount_to_transfer |-> request.amount], <<>>)

InstructionOf(request) ==
    CASE request.fn = "lock" -> LockInstruction(request)
      [] request.fn = "settle" -> SettleInstruction(request)
      [] request.fn = "pay" -> PayInstruction(request)

Send(c) ==
    /\ At(c, {"lock", "settle", "pay"}, "send")
    /\ transaction' = [transaction EXCEPT ![c] =
           [state |-> "flying", instruction |-> InstructionOf(call[c])]]
    /\ call' = [call EXCEPT ![c].step = "confirm"]
    /\ UNCHANGED vars

Confirmed(c) ==
    /\ At(c, {"lock", "settle", "pay"}, "confirm")
    /\ transaction[c].state = "landed"
    /\ Goes(c, "ok")

\* A request to the RPC node fails or takes more than ten seconds; so may the
\* confirmation, whether the transaction was refused, lost or still flies.
GivesUp(c) ==
    /\ call[c].step \in {"account", "vault", "read", "send", "confirm"}
    /\ Goes(c, "error")
-----------------------------------------------------------------------------
\* The program receives an instruction.

Addressed(context, ix) ==
    LET u == Bound(context, ix, "user")
    IN  /\ Bound(context, ix, "global_account") = GlobalAddress
        /\ Bound(context, ix, "user_account") = UserAddress(u)
        /\ Bound(context, ix, "vault") = VaultAddress(u)
        /\ Bound(context, ix, "system_program") = SystemProgram

RunLock(ix) ==
    LET u == Bound(LockContext, ix, "user")
    IN  /\ Admits(LockContext, ix)
        /\ Addressed(LockContext, ix)
        /\ Bound(LockContext, ix, "lock_account") = LockAddress(u, NonceOf(u))
        /\ Lock(Bound(LockContext, ix, "bot"), Bound(LockContext, ix, "payer"), u,
                Received(LockContext, ix, "recover_info"), Received(LockContext, ix, "amount"))

RunSettle(ix) ==
    LET u == Bound(SettleContext, ix, "user")
        n == Received(SettleContext, ix, "nonce")
    IN  /\ Admits(SettleContext, ix)
        /\ Addressed(SettleContext, ix)
        /\ Bound(SettleContext, ix, "treasury") = global.treasury
        /\ Bound(SettleContext, ix, "lock_account") = LockAddress(u, n)
        /\ Settle(Bound(SettleContext, ix, "bot"), Bound(SettleContext, ix, "payer"), u, n,
                  Received(SettleContext, ix, "amount_to_transfer"))

RunPay(ix) ==
    LET u == Bound(PayContext, ix, "user")
    IN  /\ Admits(PayContext, ix)
        /\ Addressed(PayContext, ix)
        /\ Bound(PayContext, ix, "treasury") = global.treasury
        /\ Pay(Bound(PayContext, ix, "bot"), u, Received(PayContext, ix, "recover_info"),
               Received(PayContext, ix, "amount_to_transfer"))

\* A flying transaction lands, if the program accepts it by then.
Land(c) ==
    /\ transaction[c].state = "flying"
    /\ LET ix == transaction[c].instruction
       IN  \/ ix.data[1] = "lock" /\ RunLock(ix)
           \/ ix.data[1] = "settle" /\ RunSettle(ix)
           \/ ix.data[1] = "pay" /\ RunPay(ix)
    /\ transaction' = [transaction EXCEPT ![c].state = "landed"]
    /\ UNCHANGED call
-----------------------------------------------------------------------------
\* The program has been initialised, some users have registered and deposited.
ClientInit ==
    /\ global = [authority |-> Bot, bot |-> Bot, treasury |-> Bot]
    /\ \E registered \in SUBSET Users :
           /\ userAccount = [u \in Users |->
                  IF u \in registered THEN [nonce |-> 0, locked_amount |-> 0] ELSE NoAccount]
           /\ vault = [u \in Users |-> IF u \in registered THEN Deposited ELSE 0]
           /\ wallet = [k \in Keys |-> InitialWallet
                  - (IF k = Bot THEN GlobalRent ELSE 0)
                  - (IF k \in registered THEN UserRent + Deposited ELSE 0)]
    /\ lockAccount = [u \in Users |-> [n \in Nonces |-> NoLock]]
    /\ signed = {}
    /\ now = 0
    /\ call = [c \in Calls |-> Unused]
    /\ transaction = [c \in Calls |-> NoTransaction]

CallBegins(c) ==
    \E u \in Users, amount \in Amounts :
        \/ \E sig \in GivenSignatures :
               \/ \E nonce \in Nonces : CheckEligible(c, u, nonce, amount, sig)
               \/ \E fn \in {"lock", "pay"} : Begin(c, fn, u, 0, amount, sig)
        \/ \E nonce \in Nonces : Begin(c, "settle", u, nonce, amount, Malformed)

CallStep(c) ==
    \/ CheckAccount(c)
    \/ CheckVault(c)
    \/ ReadAccount(c)
    \/ Send(c)
    \/ Confirmed(c)
    \/ GivesUp(c)

\* Users and the authority use other clients.  The dApp signs with a deadline
\* that is ahead.
Others ==
    /\ \/ \E u \in Users, amount \in Amounts : Withdraw(u, amount)
       \/ \E u \in Users, deadline \in Times : deadline > now /\ Sign(u, deadline)
       \/ \E key \in Treasuries : SetTreasury(global.authority, key)
       \/ Tick
    /\ UNCHANGED clientVars

ClientNext ==
    \/ \E c \in Calls : CallBegins(c) \/ CallStep(c) \/ Land(c)
    \/ Others

ClientSpec == ClientInit /\ [][ClientNext]_allVars
-----------------------------------------------------------------------------
Answers == {"eligible", "refused", "ok", "error"}

ClientTypeOK ==
    /\ TypeOK
    /\ \A c \in Calls :
           /\ call[c].step \in {"unused", "account", "vault", "read", "send", "confirm"} \cup Answers
           /\ call[c].step \in {"confirm", "ok"} => transaction[c] # NoTransaction
           /\ transaction[c] # NoTransaction => call[c].step \in {"confirm", "ok", "error"}

Landed == {c \in Calls : transaction[c].state = "landed"}

\* However many calls are made, given up on and made again with the same
\* signature, one lock or payment comes of it, and one settlement of a lock.
SameAuthority(c, d) ==
    /\ call[c].user = call[d].user
    /\ \/ {call[c].fn, call[d].fn} \subseteq {"lock", "pay"} /\ call[c].sig.nonce = call[d].sig.nonce
       \/ {call[c].fn, call[d].fn} = {"settle"} /\ call[c].nonce = call[d].nonce
LandsOnce == \A c, d \in Landed : c # d => ~SameAuthority(c, d)

\* The bot can find its locks again: under the nonce of the signature it used,
\* a lock holds the amount the call named, from the landing of that call to the
\* landing of the settle call that names this nonce.
Settled(c) ==
    \E d \in Landed : call[d].fn = "settle" /\ call[d].user = call[c].user
                      /\ call[d].nonce = call[c].sig.nonce
LocksAreFound ==
    \A c \in Landed : call[c].fn = "lock" =>
        lockAccount[call[c].user][call[c].sig.nonce]
            = IF Settled(c) THEN NoLock ELSE call[c].amount

\* What a yes of check_eligible is worth, whatever lands between its two
\* readings: the nonce is the one asked about, unless it has been used up since;
\* and while it is not used up the vault covers the amount next to all open
\* locks, unless a settlement has emptied the vault below what the account had
\* locked when it was read, so that the difference wraps round.
Says(c, answer) == call[c].step # answer /\ call'[c].step = answer
SettledSince(u, seen) ==
    vault[u] < seen.locked_amount /\ LockedOf(u) < seen.locked_amount
Covered(c) ==
    LET u == call[c].user
    IN  /\ call[c].nonce <= NonceOf(u)
        /\ call[c].nonce = NonceOf(u) =>
               CanSpend(u, call[c].amount) \/ SettledSince(u, call[c].seen)
EligibleIsCovered == [][\A c \in Calls : Says(c, "eligible") => Covered(c)]_allVars

\* "verify signature", "Invalid signature": who is eligible has signed.
EligibleHasSigned ==
    \A c \in Calls : call[c].step = "eligible" =>
        SignedBy(call[c].user, call[c].sig, call[c].nonce)
=============================================================================
