------------------------------- MODULE Escrow -------------------------------
(***************************************************************************)
(* What the balance-payment program promises to the owner of a vault,      *)
(* without signatures, deadlines, rent, roles or lamport accounts.         *)
(*                                                                         *)
(* Every user has an available balance and a row of numbered               *)
(* authorisations.  The user grants authorisations one at a time; the      *)
(* operator uses each of them at most once, in order, either to charge the *)
(* available balance at once (pay) or to hold a part of it (lock).  A held *)
(* amount is released exactly once (settle): what is not charged comes     *)
(* back to the available balance and nothing else does.                    *)
(***************************************************************************)
EXTENDS Naturals

CONSTANTS
    Users,          \* owners of vaults
    Nonces,         \* the numbers of the authorisations, an initial part of Nat
    Lamports,       \* the amounts that can be named in one operation
    NoLock          \* "nothing is held under this authorisation"

ASSUME EscrowAssumption ==
    /\ 0 \in Nonces /\ Nonces \subseteq Nat
    /\ Lamports \subseteq Nat
    /\ NoLock \notin Nat

VARIABLES
    available,      \* [Users -> Nat], what the user may still withdraw
    held,           \* [Users -> [Nonces -> Nat \cup {NoLock}]]
    next,           \* [Users -> Nonces], the authorisation to be used next
    granted         \* [Users -> SUBSET Nonces], the authorisations given

escrowVars == <<available, held, next, granted>>

EscrowInit ==
    /\ available = [u \in Users |-> 0]
    /\ held = [u \in Users |-> [n \in Nonces |-> NoLock]]
    /\ next = [u \in Users |-> 0]
    /\ granted = [u \in Users |-> {}]

Fund(u, amount) ==
    /\ available' = [available EXCEPT ![u] = @ + amount]
    /\ UNCHANGED <<held, next, granted>>

Reclaim(u, amount) ==
    /\ amount <= available[u]
    /\ available' = [available EXCEPT ![u] = @ - amount]
    /\ UNCHANGED <<held, next, granted>>

Grant(u) ==
    /\ granted' = [granted EXCEPT ![u] = @ \cup {next[u]}]
    /\ UNCHANGED <<available, held, next>>

\* Both uses of an authorisation need it granted, take the amount out of the
\* available balance and move on to the next authorisation.
UseNext(u, amount) ==
    /\ next[u] \in granted[u]
    /\ next[u] + 1 \in Nonces
    /\ amount <= available[u]
    /\ available' = [available EXCEPT ![u] = @ - amount]
    /\ next' = [next EXCEPT ![u] = @ + 1]
    /\ UNCHANGED granted

Charge(u, amount) ==
    /\ UseNext(u, amount)
    /\ UNCHANGED held

Hold(u, amount) ==
    /\ UseNext(u, amount)
    /\ held[u][next[u]] = NoLock
    /\ held' = [held EXCEPT ![u][next[u]] = amount]

Release(u, n, charged) ==
    /\ held[u][n] # NoLock
    /\ charged <= held[u][n]
    /\ available' = [available EXCEPT ![u] = @ + (held[u][n] - charged)]
    /\ held' = [held EXCEPT ![u][n] = NoLock]
    /\ UNCHANGED <<next, granted>>

EscrowNext ==
    \E u \in Users :
        \/ Grant(u)
        \/ \E amount \in Lamports :
               \/ Fund(u, amount)
               \/ Reclaim(u, amount)
               \/ Charge(u, amount)
               \/ Hold(u, amount)
        \/ \E n \in Nonces, charged \in Lamports : Release(u, n, charged)

EscrowSpec == EscrowInit /\ [][EscrowNext]_escrowVars
=============================================================================
