--------------------------- MODULE BalancePayment ---------------------------
(***************************************************************************)
(* The on-chain program balance-payment: one action per instruction.  An   *)
(* instruction is a transaction of its own: the runtime runs it alone and  *)
(* undoes all of it when any check fails, so a refused instruction is no   *)
(* step.  Users, bots and payers may send any instruction at any time.     *)
(***************************************************************************)
EXTENDS Accounts

Init ==
    /\ global = NoGlobal
    /\ userAccount = [u \in Users |-> NoAccount]
    /\ lockAccount = [u \in Users |-> [n \in Nonces |-> NoLock]]
    /\ vault = [u \in Users |-> 0]
    /\ wallet = [k \in Keys |-> InitialWallet]
    /\ signed = {}
    /\ now = 0
-----------------------------------------------------------------------------
(***************************************************************************)
(* Faulty variants of instructions, each with one plausible mistake.  No   *)
(* specification uses them; each stands in for the instruction of the same *)
(* shape to show that a property would notice the mistake.                 *)
(***************************************************************************)

\* withdraw.rs comparing with the whole vault instead of its unlocked part.
WithdrawIgnoresLocks(u, amount) ==
    /\ Registered(u)
    /\ amount <= vault[u]
    /\ vault' = Debit(vault, u, amount)
    /\ wallet' = Credit(wallet, u, amount)
    /\ UNCHANGED <<global, userAccount, lockAccount, signed, now>>
    /\ RentChecked

LockWith(signer, payer, u, sig, amount, nonce, locked) ==
    /\ SignedByBot(signer)
    /\ Registered(u)
    /\ lockAccount[u][NonceOf(u)] = NoLock
    /\ LockRent <= wallet[payer]
    /\ Verify(u, sig)
    /\ CanSpend(u, amount)
    /\ NonceOf(u) + 1 \in Nonces
    /\ WriteAccount(u, nonce, locked)
    /\ lockAccount' = [lockAccount EXCEPT ![u][NonceOf(u)] = amount]
    /\ wallet' = Debit(wallet, payer, LockRent)
    /\ UNCHANGED <<global, vault, signed, now>>
    /\ RentChecked

\* lock.rs without `nonce += 1`.
LockKeepsNonce(signer, payer, u, sig, amount) ==
    LockWith(signer, payer, u, sig, amount, NonceOf(u), LockedOf(u) + amount)

\* lock.rs with `locked_amount -= amount`.
LockSubtracts(signer, payer, u, sig, amount) ==
    LockWith(signer, payer, u, sig, amount, NonceOf(u) + 1, LockedOf(u) - amount)

\* lock.rs with `locked_amount = amount`: the earlier locks are forgotten.
LockForgetsOthers(signer, payer, u, sig, amount) ==
    LockWith(signer, payer, u, sig, amount, NonceOf(u) + 1, amount)

SettleWith(signer, payer, u, n, amount, unlocked, closed, rent) ==
    /\ SignedByBot(signer)
    /\ Registered(u)
    /\ lockAccount[u][n] # NoLock
    /\ amount <= lockAccount[u][n]
    /\ unlocked <= LockedOf(u)
    /\ amount <= vault[u]
    /\ WriteAccount(u, NonceOf(u), LockedOf(u) - unlocked)
    /\ lockAccount' = [lockAccount EXCEPT ![u][n] = closed]
    /\ vault' = Debit(vault, u, amount)
    /\ wallet' = Credit(Credit(wallet, global.treasury, amount), payer, rent)
    /\ UNCHANGED <<global, signed, now>>
    /\ RentChecked

\* settle.rs unlocking only what it transfers.
SettleUnlocksTransfer(signer, payer, u, n, amount) ==
    SettleWith(signer, payer, u, n, amount, amount, NoLock, LockRent)

\* settle.rs closing the lock account without paying its rent out.
SettleKeepsRent(signer, payer, u, n, amount) ==
    SettleWith(signer, payer, u, n, amount, lockAccount[u][n], NoLock, 0)

PayWith(signer, u, sig, amount, verified, spendable, nonce) ==
    /\ SignedByBot(signer)
    /\ Registered(u)
    /\ verified
    /\ amount <= spendable
    /\ vault' = Debit(vault, u, amount)
    /\ wallet' = Credit(wallet, global.treasury, amount)
    /\ WriteAccount(u, nonce, LockedOf(u))
    /\ UNCHANGED <<global, lockAccount, signed, now>>
    /\ RentChecked

\* pay.rs comparing with the whole vault instead of its unlocked part.
PayIgnoresLocks(signer, u, sig, amount) ==
    /\ NonceOf(u) + 1 \in Nonces
    /\ PayWith(signer, u, sig, amount, Verify(u, sig), vault[u], NonceOf(u) + 1)

\* pay.rs built without overflow checks: the nonce wraps around.
PayWrapsNonce(signer, u, sig, amount) ==
    PayWith(signer, u, sig, amount, Verify(u, sig), Available(u),
            (NonceOf(u) + 1) % (MaxNonce + 1))

\* pay.rs accepting a signature after its deadline.
PayIgnoresDeadline(signer, u, sig, amount) ==
    /\ NonceOf(u) + 1 \in Nonces
    /\ PayWith(signer, u, sig, amount, SignedBy(u, sig, NonceOf(u)),
               Available(u), NonceOf(u) + 1)
-----------------------------------------------------------------------------
\* Administration.

Initialize(authority, bot, treasury, payer) ==
    /\ global = NoGlobal
    /\ GlobalRent <= wallet[payer]
    /\ global' = [authority |-> authority, bot |-> bot, treasury |-> treasury]
    /\ wallet' = Debit(wallet, payer, GlobalRent)
    /\ UNCHANGED <<userAccount, lockAccount, vault, signed, now>>
    /\ RentChecked

SetBot(signer, bot) ==
    /\ SignedByAuthority(signer)
    /\ global' = [global EXCEPT !.bot = bot]
    /\ UNCHANGED <<userAccount, lockAccount, vault, wallet, signed, now>>

SetTreasury(signer, treasury) ==
    /\ SignedByAuthority(signer)
    /\ global' = [global EXCEPT !.treasury = treasury]
    /\ UNCHANGED <<userAccount, lockAccount, vault, wallet, signed, now>>
-----------------------------------------------------------------------------
\* Instructions the user signs.

Register(u, payer) ==
    /\ ~Registered(u)
    /\ UserRent <= wallet[payer]
    /\ WriteAccount(u, 0, 0)
    /\ wallet' = Debit(wallet, payer, UserRent)
    /\ UNCHANGED <<global, lockAccount, vault, signed, now>>
    /\ RentChecked

Deposit(u, amount) ==
    /\ Registered(u)
    /\ amount <= wallet[u]
    /\ wallet' = Debit(wallet, u, amount)
    /\ vault' = Credit(vault, u, amount)
    /\ UNCHANGED <<global, userAccount, lockAccount, signed, now>>
    /\ RentChecked

Withdraw(u, amount) ==
    /\ Registered(u)
    /\ CanSpend(u, amount)
    /\ vault' = Debit(vault, u, amount)
    /\ wallet' = Credit(wallet, u, amount)
    /\ UNCHANGED <<global, userAccount, lockAccount, signed, now>>
    /\ RentChecked
-----------------------------------------------------------------------------
\* Instructions the bot signs, on the strength of a user's signature.

Lock(signer, payer, u, sig, amount) ==
    /\ SignedByBot(signer)
    /\ Registered(u)
    /\ lockAccount[u][NonceOf(u)] = NoLock
    /\ LockRent <= wallet[payer]
    /\ Verify(u, sig)
    /\ CanSpend(u, amount)
    /\ NonceOf(u) + 1 \in Nonces
    /\ WriteAccount(u, NonceOf(u) + 1, LockedOf(u) + amount)
    /\ lockAccount' = [lockAccount EXCEPT ![u][NonceOf(u)] = amount]
    /\ wallet' = Debit(wallet, payer, LockRent)
    /\ UNCHANGED <<global, vault, signed, now>>
    /\ RentChecked

Settle(signer, payer, u, n, amount) ==
    /\ SignedByBot(signer)
    /\ Registered(u)
    /\ lockAccount[u][n] # NoLock
    /\ amount <= lockAccount[u][n]
    /\ lockAccount[u][n] <= LockedOf(u)
    /\ amount <= vault[u]
    /\ WriteAccount(u, NonceOf(u), LockedOf(u) - lockAccount[u][n])
    /\ lockAccount' = [lockAccount EXCEPT ![u][n] = NoLock]
    /\ vault' = Debit(vault, u, amount)
    /\ wallet' = Credit(Credit(wallet, global.treasury, amount), payer, LockRent)
    /\ UNCHANGED <<global, signed, now>>
    /\ RentChecked

Pay(signer, u, sig, amount) ==
    /\ SignedByBot(signer)
    /\ Registered(u)
    /\ Verify(u, sig)
    /\ CanSpend(u, amount)
    /\ NonceOf(u) + 1 \in Nonces
    /\ vault' = Debit(vault, u, amount)
    /\ wallet' = Credit(wallet, global.treasury, amount)
    /\ WriteAccount(u, NonceOf(u) + 1, LockedOf(u))
    /\ UNCHANGED <<global, lockAccount, signed, now>>
    /\ RentChecked
-----------------------------------------------------------------------------
\* The world around the program.

\* The user's application fetches the account's nonce and signs it together
\* with a deadline of its choice.
Sign(u, deadline) ==
    /\ Registered(u)
    /\ signed' = signed \cup {[user |-> u, nonce |-> NonceOf(u), deadline |-> deadline]}
    /\ UNCHANGED <<global, userAccount, lockAccount, vault, wallet, now>>

\* Anybody may send lamports to a vault with the system program, before its
\* owner registers too.
FundVault(k, u, amount) ==
    /\ amount <= wallet[k]
    /\ wallet' = Debit(wallet, k, amount)
    /\ vault' = Credit(vault, u, amount)
    /\ UNCHANGED <<global, userAccount, lockAccount, signed, now>>
    /\ RentChecked

Tick ==
    /\ now < MaxTime
    /\ now' = now + 1
    /\ UNCHANGED <<global, userAccount, lockAccount, vault, wallet, signed>>
-----------------------------------------------------------------------------
Administration ==
    \/ \E authority, bot, treasury, payer \in Keys :
           Initialize(authority, bot, treasury, payer)
    \/ \E signer, key \in Keys : SetBot(signer, key) \/ SetTreasury(signer, key)

UserInstruction(u) ==
    \/ \E payer \in Keys : Register(u, payer)
    \/ \E amount \in Lamports : Deposit(u, amount) \/ Withdraw(u, amount)

BotInstruction(u) ==
    \E signer \in Keys, amount \in Lamports :
        \/ \E payer \in Keys :
               \/ \E sig \in signed : Lock(signer, payer, u, sig, amount)
               \/ \E n \in Nonces : Settle(signer, payer, u, n, amount)
        \/ \E sig \in signed : Pay(signer, u, sig, amount)

Environment ==
    \/ \E u \in Users, deadline \in Times : deadline >= now /\ Sign(u, deadline)
    \/ \E k \in Keys, u \in Users, amount \in Lamports : FundVault(k, u, amount)
    \/ Tick

Next ==
    \/ Administration
    \/ \E u \in Users : UserInstruction(u) \/ BotInstruction(u)
    \/ Environment

Spec == Init /\ [][Next]_vars
-----------------------------------------------------------------------------
TypeOK ==
    /\ global \in [authority : Keys, bot : Keys, treasury : Keys] \cup {NoGlobal}
    /\ userAccount \in [Users -> [nonce : Nonces, locked_amount : Nat] \cup {NoAccount}]
    /\ lockAccount \in [Users -> [Nonces -> Lamports \cup {NoLock}]]
    /\ vault \in [Users -> Nat]
    /\ wallet \in [Keys -> Nat]
    /\ signed \subseteq Signatures
    /\ now \in Times

\* The lamports held by a user's open locks, one element for each lamport.
LockedLamports(u) == Units(lockAccount[u])

\* locked_amount is the sum of the amounts of the open locks: lock.rs and
\* settle.rs keep the two accounts in step.
LockedIsBacked ==
    \A u \in Users : LockedOf(u) = Cardinality(LockedLamports(u))

\* Whatever withdraw, pay and direct transfers do, a vault holds at least what
\* its open locks have promised to the treasury, so the subtraction of
\* locked_amount in withdraw.rs, lock.rs and pay.rs never underflows.
Solvent == \A u \in Users : LockedOf(u) <= vault[u]

\* No lock is stuck: whatever else happens to the vault, the bot can settle every
\* open lock, whoever pays the fee, and none of the checks of settle.rs and of
\* the runtime refuses it.  It is charged in full or, when that would leave the
\* vault less than the rent-exempt minimum, all but an amount below that
\* minimum.  (A treasury that holds nothing may be too poor to be paid.)
CanSettle(payer, u, n, amount) ==
    /\ Registered(u)
    /\ amount <= lockAccount[u][n]
    /\ lockAccount[u][n] <= LockedOf(u)
    /\ amount <= vault[u]
    /\ AllRentExempt(Credit(Credit(wallet, global.treasury, amount), payer, LockRent),
                     Debit(vault, u, amount))
LeavesDust(u, amount) == ~RentExempt(vault[u] - amount)
EveryLockSettleable ==
    \A u \in Users : \A n \in OpenLocks(u) :
        global # NoGlobal /\ wallet[global.treasury] > 0 =>
            \E amount \in 0..lockAccount[u][n] :
                /\ \/ amount = lockAccount[u][n]
                   \/ /\ LeavesDust(u, lockAccount[u][n])
                      /\ lockAccount[u][n] - amount < RentMin
                /\ \A payer \in Keys : wallet[payer] > 0 => CanSettle(payer, u, n, amount)

\* The address of the next lock is free, so that the `init` of lock.rs never
\* meets an account left over from an earlier nonce.
FreshLockAddress == \A u \in Users : \A n \in OpenLocks(u) : n < NonceOf(u)

\* Rent included, no instruction creates or destroys a lamport: the rent of a
\* lock comes out of the payer of lock.rs and goes to the payer of settle.rs.
RentPaid ==
    (IF global = NoGlobal THEN 0 ELSE GlobalRent)
    + UserRent * Cardinality({u \in Users : Registered(u)})
    + LockRent * SumOver([u \in Users |-> Cardinality(OpenLocks(u))], Users)

LamportsConserved ==
    SumOver(wallet, Keys) + SumOver(vault, Users) + RentPaid
      = InitialWallet * Cardinality(Keys)

\* A lock opens only at the current nonce and uses it up, and no step takes a
\* nonce back: one signature never opens two locks.  That a payment uses its
\* nonce up too is part of ChargesAreAuthorised.
NonceStep(u) ==
    /\ NonceOf(u)' \in {NonceOf(u), NonceOf(u) + 1}
    /\ \A n \in OpenLocks(u)' \ OpenLocks(u) :
           n = NonceOf(u) /\ NonceOf(u)' = n + 1
NonceSteps == \A u \in Users : NonceStep(u)
NonceUsedOnce == [][NonceSteps]_vars

\* Lamports leave a vault in three ways only: back to the owner's wallet,
\* out of one lock that closes and no more than it held, or against a live
\* signature over the nonce that is used up, and then not out of locked ones.
Spent(u) == vault[u] - vault'[u]
Withdrawn(u) == wallet'[u] - wallet[u] = Spent(u)
SettledFrom(u, n) ==
    /\ OpenLocks(u)' = OpenLocks(u) \ {n}
    /\ Spent(u) <= lockAccount[u][n]
    /\ NonceOf(u)' = NonceOf(u)
PaidWith(u, sig) ==
    /\ sig.user = u
    /\ sig.nonce = NonceOf(u)
    /\ now <= sig.deadline
    /\ NonceOf(u)' = NonceOf(u) + 1
    /\ Spent(u) <= Available(u)
SpendingStep(u) ==
    Spent(u) > 0 => \/ Withdrawn(u)
                    \/ \E n \in OpenLocks(u) : SettledFrom(u, n)
                    \/ \E sig \in signed : PaidWith(u, sig)
SpendingSteps == \A u \in Users : SpendingStep(u)
ChargesAreAuthorised == [][SpendingSteps]_vars

\* The program implements the abstract escrow: what is available is the vault
\* less the locked amount, what is held is in the lock accounts.
Granted(u) == {sig.nonce : sig \in {s \in signed : s.user = u}}

escrow == INSTANCE Escrow WITH
    available <- [u \in Users |-> Available(u)],
    held      <- lockAccount,
    next      <- [u \in Users |-> NonceOf(u)],
    granted   <- [u \in Users |-> Granted(u)]

ImplementsEscrow == escrow!EscrowSpec
=============================================================================
