------------------------------ MODULE Accounts ------------------------------
(***************************************************************************)
(* The accounts the balance-payment program reads and writes, the wallets  *)
(* it moves lamports between, and the rules of the Solana runtime and of   *)
(* the Anchor framework its instructions rely on.                          *)
(*                                                                         *)
(* The instructions themselves are in BalancePayment.                      *)
(***************************************************************************)
EXTENDS Integers, FiniteSets, Sums

CONSTANTS
    Users,          \* keys that own a vault
    Operators,      \* keys that are only authority, bot, treasury or payer
    MaxNonce,       \* the largest u64 a nonce can hold
    MaxLamports,    \* the largest amount an instruction can name
    MaxTime,        \* bound: the clock stops here
    InitialWallet,  \* lamports in every wallet at the start
    RentMin,        \* rent-exempt minimum of an account without data
    GlobalRent, UserRent, LockRent,   \* rent of the three account types
    NoGlobal, NoAccount, NoLock       \* "this account does not exist"

Keys == Users \cup Operators
Nonces == 0..MaxNonce
Lamports == 0..MaxLamports
Times == 0..MaxTime

\* The lamports in the lock accounts of one user, lock[n] under nonce n: one
\* element of the set for each lamport.
Units(lock) == UNION {{n} \X (1..lock[n]) : n \in {m \in Nonces : lock[m] # NoLock}}

ASSUME BoundsAssumption ==
    /\ MaxNonce \in Nat
    /\ MaxLamports \in Nat
    /\ MaxTime \in Nat

ASSUME RentAssumption ==
    /\ {InitialWallet, RentMin, GlobalRent, UserRent, LockRent} \subseteq Nat
    /\ InitialWallet = 0 \/ InitialWallet >= RentMin

\* There are finitely many keys: theirs are 32 bytes long.
ASSUME KeysAssumption == IsFiniteSet(Users) /\ IsFiniteSet(Operators)

\* An account that does not exist is told apart from every account that does.
ASSUME NoneAssumption ==
    /\ NoLock \notin Nat
    /\ NoAccount \notin [nonce : Nat, locked_amount : Nat]
    /\ NoGlobal \notin [authority : Keys, bot : Keys, treasury : Keys]

VARIABLES
    global,         \* GlobalAccount: the three keys that govern the program
    userAccount,    \* UserAccount of each user: next nonce, locked lamports
    lockAccount,    \* LockAccount of each user and nonce: its amount
    vault,          \* lamports of each user's vault
    wallet,         \* lamports of each key's own account
    signed,         \* the signatures users have given out
    now             \* the cluster's clock (unix_timestamp)

vars == <<global, userAccount, lockAccount, vault, wallet, signed, now>>
-----------------------------------------------------------------------------
\* The accounts of a user as the program sees them.

Registered(u) == userAccount[u] # NoAccount
NonceOf(u)  == IF Registered(u) THEN userAccount[u].nonce ELSE 0
LockedOf(u) == IF Registered(u) THEN userAccount[u].locked_amount ELSE 0
OpenLocks(u) == {n \in Nonces : lockAccount[u][n] # NoLock}

\* A signature commits to a payload the program does not interpret, to a
\* nonce and to a deadline; it does not commit to an amount.
Signatures == [user : Users, nonce : Nonces, deadline : Times]

\* verify_signature over the digest built from this nonce: the signature checks
\* against a key and a digest when that key has signed that digest.
SignedBy(u, sig, nonce) == sig.user = u /\ sig.nonce = nonce

\* ED25519RecoverInfo.verify: signed by this user, over the nonce the account
\* now holds, and not past its deadline.
Verify(u, sig) ==
    /\ SignedBy(u, sig, NonceOf(u))
    /\ now <= sig.deadline

\* Lamports of the vault that no lock holds.  Subtraction is checked in the
\* program (overflow-checks), so it also fails when the vault is short.
Available(u) == vault[u] - LockedOf(u)
CanSpend(u, amount) == LockedOf(u) <= vault[u] /\ amount <= Available(u)

\* Writing back the user account at the end of an instruction.
WriteAccount(u, nonce, locked) ==
    userAccount' = [userAccount EXCEPT ![u] = [nonce |-> nonce, locked_amount |-> locked]]

\* has_one = bot and the signature of that key.
SignedByBot(signer) == global # NoGlobal /\ signer = global.bot
SignedByAuthority(signer) == global # NoGlobal /\ signer = global.authority
-----------------------------------------------------------------------------
\* Moving lamports.

Credit(balance, k, amount) == [balance EXCEPT ![k] = @ + amount]
Debit(balance, k, amount) == [balance EXCEPT ![k] = @ - amount]

\* The runtime refuses a transaction that leaves an account without data
\* holding something but less than the rent-exempt minimum.
RentExempt(lamports) == lamports = 0 \/ lamports >= RentMin
AllRentExempt(wallets, vaults) ==
    /\ \A k \in Keys : RentExempt(wallets[k])
    /\ \A u \in Users : RentExempt(vaults[u])
RentChecked == AllRentExempt(wallet', vault')
=============================================================================
