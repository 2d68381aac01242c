----------------------- MODULE BalancePayment_proofs -----------------------
(***************************************************************************)
(* Theorems about BalancePayment for any number of users, nonces, lamports *)
(* and ticks of the clock.                                                 *)
(***************************************************************************)
EXTENDS BalancePayment, Sums_proofs, TLAPS

-----------------------------------------------------------------------------
(***************************************************************************)
(* Counting locked lamports.  The amounts of the open locks are summed by  *)
(* the cardinality of a set with one element per lamport, so a sum that    *)
(* gains or loses a term is a union or a difference of disjoint sets.      *)
(***************************************************************************)

LockMap == [Nonces -> Lamports \cup {NoLock}]

\* One lock of a lamports contributes a elements.
LEMMA OneLock ==
    ASSUME NEW n, NEW a \in Nat
    PROVE  IsFiniteSet({n} \X (1..a)) /\ Cardinality({n} \X (1..a)) = a
<1>1. IsFiniteSet({n}) /\ Cardinality({n}) = 1
  BY FS_Singleton
<1>2. IsFiniteSet(1..a) /\ Cardinality(1..a) = a
  BY FS_Interval
<1>3. /\ IsFiniteSet({n} \X (1..a))
      /\ Cardinality({n} \X (1..a)) = Cardinality({n}) * Cardinality(1..a)
  BY <1>1, <1>2, FS_Product, Zenon
<1>4. QED
  BY <1>1, <1>2, <1>3

\* Opening a lock of a lamports at a free nonce adds a to the total.
LEMMA OpenAdds ==
    ASSUME NEW f \in LockMap, NEW n \in Nonces, NEW a \in Lamports,
           f[n] = NoLock, IsFiniteSet(Units(f))
    PROVE  LET g == [f EXCEPT ![n] = a]
           IN  /\ IsFiniteSet(Units(g))
               /\ Cardinality(Units(g)) = Cardinality(Units(f)) + a
<1> DEFINE g == [f EXCEPT ![n] = a]
           new == {n} \X (1..a)
<1>1. a \in Nat /\ a # NoLock
  BY BoundsAssumption, NoneAssumption DEF Lamports
<1>2. Units(g) = Units(f) \cup new
  <2>1. \A m \in Nonces : m # n => g[m] = f[m]
    BY DEF LockMap
  <2>2. g[n] = a
    BY DEF LockMap
  <2>3. {m \in Nonces : g[m] # NoLock} = {m \in Nonces : f[m] # NoLock} \cup {n}
    BY <1>1, <2>1, <2>2
  <2>4. Units(g) = (UNION {{m} \X (1..g[m]) : m \in {k \in Nonces : f[k] # NoLock}})
                      \cup ({n} \X (1..g[n]))
    BY <2>3, Zenon DEF Units
  <2>5. \A m \in {k \in Nonces : f[k] # NoLock} : g[m] = f[m]
    BY <2>1
  <2>6. QED
    BY <2>2, <2>4, <2>5 DEF Units
<1>3. Units(f) \cap new = {}
  BY DEF Units
<1>4. IsFiniteSet(new) /\ Cardinality(new) = a
  BY <1>1, OneLock
<1>5. /\ IsFiniteSet(Units(f) \cup new)
      /\ Cardinality(Units(f) \cup new)
           = Cardinality(Units(f)) + Cardinality(new) - Cardinality(Units(f) \cap new)
  <2> HIDE DEF new
  <2>1. QED
    BY <1>4, FS_Union
<1>6. Cardinality(Units(f) \cap new) = 0
  BY <1>3, FS_EmptySet
<1>7. Cardinality(Units(f)) \in Nat
  BY FS_CardinalityType
<1>8. IsFiniteSet(Units(g)) /\ Cardinality(Units(g)) = Cardinality(Units(f)) + a
  <2> HIDE DEF g, new
  <2>1. QED
    BY <1>1, <1>2, <1>4, <1>5, <1>6, <1>7
<1>9. QED
  BY <1>8

\* Closing a lock takes its amount out of the total, which held it.
LEMMA CloseRemoves ==
    ASSUME NEW f \in LockMap, NEW n \in Nonces,
           f[n] # NoLock, IsFiniteSet(Units(f))
    PROVE  LET g == [f EXCEPT ![n] = NoLock]
           IN  /\ IsFiniteSet(Units(g))
               /\ Cardinality(Units(f)) = Cardinality(Units(g)) + f[n]
<1> DEFINE g == [f EXCEPT ![n] = NoLock]
<1>1. g \in LockMap /\ g[n] = NoLock /\ f[n] \in Lamports
  BY DEF LockMap
<1>2. f = [g EXCEPT ![n] = f[n]]
  BY DEF LockMap
<1>3. Units(g) \subseteq Units(f)
  <2>1. \A m \in Nonces : g[m] # NoLock => f[m] # NoLock /\ g[m] = f[m]
    BY DEF LockMap
  <2>2. QED
    BY <2>1, Zenon DEF Units
<1>4. IsFiniteSet(Units(g))
  BY <1>3, FS_Subset
<1> HIDE DEF g
<1>5. Cardinality(Units([g EXCEPT ![n] = f[n]])) = Cardinality(Units(g)) + f[n]
  BY <1>1, <1>4, OpenAdds
<1>6. QED
  BY <1>2, <1>4, <1>5 DEF g

\* No open lock holds more than the total.
LEMMA OneOfTotal ==
    ASSUME NEW f \in LockMap, NEW n \in Nonces,
           f[n] # NoLock, IsFiniteSet(Units(f))
    PROVE  f[n] <= Cardinality(Units(f))
<1> DEFINE g == [f EXCEPT ![n] = NoLock]
<1>1. IsFiniteSet(Units(g)) /\ Cardinality(Units(f)) = Cardinality(Units(g)) + f[n]
  BY CloseRemoves
<1>2. Cardinality(Units(g)) \in Nat
  BY <1>1, FS_CardinalityType
<1>3. f[n] \in Nat
  BY BoundsAssumption DEF LockMap, Lamports
<1>4. QED
  BY <1>1, <1>2, <1>3
-----------------------------------------------------------------------------
(***************************************************************************)
(* The inductive invariant.  LockedIsBacked says what locked_amount is;    *)
(* Solvent alone would not survive a settle, which subtracts a whole lock  *)
(* from it.  FreshLockAddress is why lock.rs adds a term to that sum and   *)
(* never overwrites one.  RentInv is what a settle needs of the balances   *)
(* it starts from, for the runtime to accept those it ends with.           *)
(***************************************************************************)

LocksFinite == \A u \in Users : IsFiniteSet(LockedLamports(u))
RentInv == AllRentExempt(wallet, vault)

IndInv ==
    /\ TypeOK
    /\ FreshLockAddress
    /\ LocksFinite
    /\ LockedIsBacked
    /\ Solvent
    /\ RentInv

\* Every variable keeps its type: in particular no nonce passes the largest
\* u64 and no balance, locked amount or wallet goes below zero.
LEMMA TypeStep == TypeOK /\ Solvent /\ [Next]_vars => TypeOK'
<1> SUFFICES ASSUME TypeOK, Solvent, [Next]_vars PROVE TypeOK'
  OBVIOUS
<1> USE DEF TypeOK
<1>0. /\ 0 \in Nonces
      /\ Nonces \subseteq Nat
      /\ Lamports \subseteq Nat
      /\ {GlobalRent, UserRent, LockRent} \subseteq Nat
  BY BoundsAssumption, RentAssumption DEF Nonces, Lamports
<1>1. ASSUME NEW authority \in Keys, NEW bot \in Keys, NEW treasury \in Keys,
             NEW payer \in Keys, Initialize(authority, bot, treasury, payer)
      PROVE  TypeOK'
  BY <1>0, <1>1 DEF Initialize, Debit
<1>2. ASSUME NEW signer \in Keys, NEW key \in Keys,
             SetBot(signer, key) \/ SetTreasury(signer, key)
      PROVE  TypeOK'
  BY <1>2 DEF SetBot, SetTreasury, SignedByAuthority
<1>3. ASSUME NEW u \in Users, NEW payer \in Keys, Register(u, payer)
      PROVE  TypeOK'
  BY <1>0, <1>3 DEF Register, Debit, WriteAccount
<1>4. ASSUME NEW u \in Users, NEW amount \in Lamports, Deposit(u, amount)
      PROVE  TypeOK'
  BY <1>0, <1>4 DEF Deposit, Debit, Credit, Keys
<1>5. ASSUME NEW u \in Users, NEW amount \in Lamports, Withdraw(u, amount)
      PROVE  TypeOK'
  <2>1. LockedOf(u) \in Nat
    BY <1>0 DEF LockedOf, Registered
  <2>2. amount <= vault[u]
    BY <1>0, <1>5, <2>1 DEF Withdraw, CanSpend, Available
  <2>3. QED
    BY <1>0, <1>5, <2>2 DEF Withdraw, Debit, Credit, Keys
<1>6. ASSUME NEW u \in Users, NEW signer \in Keys, NEW payer \in Keys,
             NEW sig \in signed, NEW amount \in Lamports,
             Lock(signer, payer, u, sig, amount)
      PROVE  TypeOK'
  <2>1. NonceOf(u) \in Nonces /\ LockedOf(u) + amount \in Nat
    BY <1>0 DEF NonceOf, LockedOf, Registered
  <2>2. userAccount' \in [Users -> [nonce : Nonces, locked_amount : Nat] \cup {NoAccount}]
    BY <1>6, <2>1 DEF Lock, WriteAccount
  <2>3. lockAccount' \in [Users -> [Nonces -> Lamports \cup {NoLock}]]
    BY <1>6, <2>1 DEF Lock, WriteAccount
  <2>4. wallet' \in [Keys -> Nat]
    BY <1>0, <1>6 DEF Lock, Debit
  <2>5. QED
    BY <1>6, <2>2, <2>3, <2>4 DEF Lock
<1>7. ASSUME NEW u \in Users, NEW signer \in Keys, NEW payer \in Keys,
             NEW n \in Nonces, NEW amount \in Lamports,
             Settle(signer, payer, u, n, amount)
      PROVE  TypeOK'
  <2>1. lockAccount[u][n] \in Nat /\ userAccount[u] \in [nonce : Nonces, locked_amount : Nat]
    BY <1>0, <1>7 DEF Settle, Registered
  <2>2. userAccount[u].locked_amount - lockAccount[u][n] \in Nat
    BY <1>7, <2>1 DEF Settle, LockedOf, Registered
  <2>3. userAccount' \in [Users -> [nonce : Nonces, locked_amount : Nat] \cup {NoAccount}]
    BY <1>7, <2>1, <2>2 DEF Settle, WriteAccount, NonceOf, LockedOf, Registered
  <2>4. lockAccount' \in [Users -> [Nonces -> Lamports \cup {NoLock}]]
    BY <1>7 DEF Settle
  <2>5. vault' \in [Users -> Nat]
    BY <1>0, <1>7 DEF Settle, Debit
  <2>6. global.treasury \in Keys
    BY <1>7 DEF Settle, SignedByBot
  <2>7. wallet' \in [Keys -> Nat]
    BY <1>0, <1>7, <2>6 DEF Settle, Credit
  <2>8. QED
    BY <1>7, <2>3, <2>4, <2>5, <2>7 DEF Settle
<1>8. ASSUME NEW u \in Users, NEW signer \in Keys, NEW sig \in signed,
             NEW amount \in Lamports, Pay(signer, u, sig, amount)
      PROVE  TypeOK'
  <2>1. userAccount[u] \in [nonce : Nonces, locked_amount : Nat]
    BY <1>8 DEF Pay, Registered
  <2>2. userAccount[u].nonce + 1 \in Nonces /\ amount <= vault[u]
    BY <1>0, <1>8, <2>1 DEF Pay, CanSpend, Available, LockedOf, NonceOf, Registered
  <2>3. userAccount' \in [Users -> [nonce : Nonces, locked_amount : Nat] \cup {NoAccount}]
    BY <1>8, <2>1, <2>2 DEF Pay, WriteAccount, NonceOf, LockedOf, Registered
  <2>4. vault' \in [Users -> Nat]
    BY <1>0, <1>8, <2>2 DEF Pay, Debit
  <2>5. global.treasury \in Keys
    BY <1>8 DEF Pay, SignedByBot
  <2>6. wallet' \in [Keys -> Nat]
    BY <1>0, <1>8, <2>5 DEF Pay, Credit
  <2>7. QED
    BY <1>8, <2>3, <2>4, <2>6 DEF Pay
<1>9. ASSUME NEW u \in Users, NEW deadline \in Times, Sign(u, deadline)
      PROVE  TypeOK'
  <2>1. NonceOf(u) \in Nonces
    BY <1>0 DEF NonceOf, Registered
  <2>2. signed' \subseteq Signatures
    BY <1>9, <2>1 DEF Sign, Signatures
  <2>3. QED
    BY <1>9, <2>2 DEF Sign
<1>10. ASSUME NEW k \in Keys, NEW u \in Users, NEW amount \in Lamports,
              FundVault(k, u, amount)
       PROVE  TypeOK'
  BY <1>0, <1>10 DEF FundVault, Debit, Credit
<1>11. CASE Tick
  BY <1>11, BoundsAssumption DEF Tick, Times
<1>12. CASE UNCHANGED vars
  BY <1>12 DEF vars
<1>13. QED
  BY <1>1, <1>2, <1>3, <1>4, <1>5, <1>6, <1>7, <1>8, <1>9, <1>10, <1>11, <1>12
  DEF Next, Administration, UserInstruction, BotInstruction, Environment

\* Register, lock, settle and pay are the only instructions that write the
\* accounts the program keeps for a user.
LEMMA AccountWriters ==
    ASSUME [Next]_vars
    PROVE  \/ UNCHANGED <<userAccount, lockAccount>>
           \/ \E u \in Users, payer \in Keys : Register(u, payer)
           \/ \E u \in Users, signer, payer \in Keys, sig \in signed, amount \in Lamports :
                  Lock(signer, payer, u, sig, amount)
           \/ \E u \in Users, signer, payer \in Keys, n \in Nonces, amount \in Lamports :
                  Settle(signer, payer, u, n, amount)
           \/ \E u \in Users, signer \in Keys, sig \in signed, amount \in Lamports :
                  Pay(signer, u, sig, amount)
BY DEF Next, Administration, UserInstruction, BotInstruction, Environment, vars,
       Initialize, SetBot, SetTreasury, Deposit, Withdraw, Sign, FundVault, Tick

\* What an instruction does to the nonces and locked amounts of all users.
Effect(u, nonce, locked) ==
    /\ NonceOf(u)' = nonce
    /\ LockedOf(u)' = locked
    /\ \A w \in Users \ {u} : NonceOf(w)' = NonceOf(w) /\ LockedOf(w)' = LockedOf(w)

\* A user account that holds a record of two naturals exists.
LEMMA WriteEffect ==
    ASSUME TypeOK, NEW u \in Users, NEW nonce \in Nat, NEW locked \in Nat,
           WriteAccount(u, nonce, locked)
    PROVE  Effect(u, nonce, locked)
<1>1. userAccount'[u] = [nonce |-> nonce, locked_amount |-> locked]
  BY DEF TypeOK, WriteAccount
<1>2. userAccount'[u] # NoAccount
  BY <1>1, NoneAssumption
<1>3. \A w \in Users \ {u} : userAccount'[w] = userAccount[w]
  BY DEF TypeOK, WriteAccount
<1>4. QED
  BY <1>1, <1>2, <1>3 DEF Effect, NonceOf, LockedOf, Registered

\* What the program reads of a user account are naturals.
LEMMA ReadTypes ==
    ASSUME TypeOK
    PROVE  \A u \in Users :
               /\ NonceOf(u) \in Nat /\ NonceOf(u) \in Nonces
               /\ LockedOf(u) \in Nat
               /\ \A n \in Nonces : lockAccount[u][n] # NoLock => lockAccount[u][n] \in Nat
BY BoundsAssumption DEF TypeOK, NonceOf, LockedOf, Registered, Nonces, Lamports

LEMMA RegisterEffect ==
    ASSUME TypeOK, NEW u \in Users, NEW payer \in Keys, Register(u, payer)
    PROVE  Effect(u, NonceOf(u), LockedOf(u))
<1>1. Effect(u, 0, 0)
  BY WriteEffect DEF Register
<1>2. NonceOf(u) = 0 /\ LockedOf(u) = 0
  BY DEF Register, NonceOf, LockedOf
<1>3. QED
  BY <1>1, <1>2 DEF Effect

LEMMA LockEffect ==
    ASSUME TypeOK, NEW u \in Users, NEW signer \in Keys, NEW payer \in Keys,
           NEW sig \in signed, NEW amount \in Lamports,
           Lock(signer, payer, u, sig, amount)
    PROVE  Effect(u, NonceOf(u) + 1, LockedOf(u) + amount)
<1>1. NonceOf(u) + 1 \in Nat /\ LockedOf(u) + amount \in Nat
  BY ReadTypes, BoundsAssumption DEF Lamports
<1>2. WriteAccount(u, NonceOf(u) + 1, LockedOf(u) + amount)
  BY DEF Lock
<1>3. QED
  BY <1>1, <1>2, WriteEffect

LEMMA SettleEffect ==
    ASSUME TypeOK, NEW u \in Users, NEW signer \in Keys, NEW payer \in Keys,
           NEW n \in Nonces, NEW amount \in Lamports,
           Settle(signer, payer, u, n, amount)
    PROVE  Effect(u, NonceOf(u), LockedOf(u) - lockAccount[u][n])
<1>1. NonceOf(u) \in Nat /\ LockedOf(u) - lockAccount[u][n] \in Nat
  BY ReadTypes DEF Settle
<1>2. WriteAccount(u, NonceOf(u), LockedOf(u) - lockAccount[u][n])
  BY DEF Settle
<1>3. QED
  BY <1>1, <1>2, WriteEffect

LEMMA PayEffect ==
    ASSUME TypeOK, NEW u \in Users, NEW signer \in Keys, NEW sig \in signed,
           NEW amount \in Lamports, Pay(signer, u, sig, amount)
    PROVE  Effect(u, NonceOf(u) + 1, LockedOf(u))
<1>1. NonceOf(u) + 1 \in Nat /\ LockedOf(u) \in Nat
  BY ReadTypes
<1>2. WriteAccount(u, NonceOf(u) + 1, LockedOf(u))
  BY DEF Pay
<1>3. QED
  BY <1>1, <1>2, WriteEffect

\* An instruction for one user leaves the accounts of every other one alone.
LEMMA FreshStep ==
    TypeOK /\ FreshLockAddress /\ [Next]_vars => FreshLockAddress'
<1> SUFFICES ASSUME TypeOK, FreshLockAddress, [Next]_vars,
                    NEW w \in Users, NEW m \in Nonces, lockAccount'[w][m] # NoLock
             PROVE  m < NonceOf(w)'
  BY DEF FreshLockAddress, OpenLocks
<1>0. /\ m \in Nat /\ NonceOf(w) \in Nat
      /\ lockAccount[w][m] # NoLock => m < NonceOf(w)
      /\ lockAccount \in [Users -> [Nonces -> Lamports \cup {NoLock}]]
  BY ReadTypes, BoundsAssumption DEF FreshLockAddress, OpenLocks, TypeOK, Nonces
<1>1. CASE UNCHANGED <<userAccount, lockAccount>>
  BY <1>0, <1>1 DEF NonceOf, Registered
<1>2. ASSUME NEW u \in Users, NEW payer \in Keys, Register(u, payer)
      PROVE  m < NonceOf(w)'
  <2>1. NonceOf(w)' = NonceOf(w) /\ lockAccount' = lockAccount
    BY <1>2, RegisterEffect DEF Effect, Register
  <2>2. QED
    BY <1>0, <2>1
<1>3. ASSUME NEW u \in Users, NEW signer \in Keys, NEW payer \in Keys,
             NEW sig \in signed, NEW amount \in Lamports,
             Lock(signer, payer, u, sig, amount)
      PROVE  m < NonceOf(w)'
  <2>1. lockAccount' = [lockAccount EXCEPT ![u][NonceOf(u)] = amount]
    BY <1>3 DEF Lock
  <2>2. CASE w # u
    <3>1. NonceOf(w)' = NonceOf(w)
      BY <1>3, <2>2, LockEffect DEF Effect
    <3>2. QED
      BY <1>0, <2>1, <2>2, <3>1
  <2>3. CASE w = u
    <3>1. NonceOf(w)' = NonceOf(w) + 1
      BY <1>3, <2>3, LockEffect DEF Effect
    <3>2. m = NonceOf(w) \/ lockAccount[w][m] # NoLock
      BY <1>0, <2>1, <2>3
    <3>3. QED
      BY <1>0, <3>1, <3>2
  <2>4. QED
    BY <2>2, <2>3
<1>4. ASSUME NEW u \in Users, NEW signer \in Keys, NEW payer \in Keys,
             NEW n \in Nonces, NEW amount \in Lamports,
             Settle(signer, payer, u, n, amount)
      PROVE  m < NonceOf(w)'
  <2>1. lockAccount[w][m] # NoLock
    BY <1>0, <1>4 DEF Settle
  <2>2. NonceOf(w)' = NonceOf(w)
    BY <1>4, SettleEffect DEF Effect
  <2>3. QED
    BY <1>0, <2>1, <2>2
<1>5. ASSUME NEW u \in Users, NEW signer \in Keys, NEW sig \in signed,
             NEW amount \in Lamports, Pay(signer, u, sig, amount)
      PROVE  m < NonceOf(w)'
  <2>1. lockAccount[w][m] # NoLock
    BY <1>5 DEF Pay
  <2>2. NonceOf(w)' \in {NonceOf(w), NonceOf(w) + 1}
    BY <1>5, PayEffect DEF Effect
  <2>3. QED
    BY <1>0, <2>1, <2>2
<1>6. QED
  BY <1>1, <1>2, <1>3, <1>4, <1>5, AccountWriters

\* Each instruction changes locked_amount and the sum of the open locks by
\* the same number of lamports.
LEMMA BackedStep ==
    /\ TypeOK /\ FreshLockAddress /\ LocksFinite /\ LockedIsBacked
    /\ [Next]_vars
    => LocksFinite' /\ LockedIsBacked'
<1> SUFFICES ASSUME TypeOK, FreshLockAddress, LocksFinite, LockedIsBacked,
                    [Next]_vars, NEW w \in Users
             PROVE  /\ IsFiniteSet(LockedLamports(w)')
                    /\ LockedOf(w)' = Cardinality(LockedLamports(w)')
  BY DEF LocksFinite, LockedIsBacked
<1> USE DEF TypeOK, LockedLamports
<1>a. /\ lockAccount[w] \in LockMap
      /\ IsFiniteSet(Units(lockAccount[w]))
      /\ LockedOf(w) = Cardinality(Units(lockAccount[w]))
  BY DEF LocksFinite, LockedIsBacked, LockMap
<1>1. CASE UNCHANGED <<userAccount, lockAccount>>
  BY <1>1, <1>a DEF LockedOf, Registered
<1>2. ASSUME NEW u \in Users, NEW payer \in Keys, Register(u, payer)
      PROVE  /\ IsFiniteSet(LockedLamports(w)')
             /\ LockedOf(w)' = Cardinality(LockedLamports(w)')
  <2>1. LockedOf(w)' = LockedOf(w) /\ UNCHANGED lockAccount
    BY <1>2, RegisterEffect DEF Effect, Register
  <2>2. QED
    BY <1>a, <2>1
<1>3. ASSUME NEW u \in Users, NEW signer \in Keys, NEW payer \in Keys,
             NEW sig \in signed, NEW amount \in Lamports,
             Lock(signer, payer, u, sig, amount)
      PROVE  /\ IsFiniteSet(LockedLamports(w)')
             /\ LockedOf(w)' = Cardinality(LockedLamports(w)')
  <2>1. CASE w # u
    <3>1. LockedOf(w)' = LockedOf(w) /\ lockAccount'[w] = lockAccount[w]
      BY <1>3, <2>1, LockEffect DEF Effect, Lock
    <3>2. QED
      BY <1>a, <3>1
  <2>2. CASE w = u
    <3>1. NonceOf(w) \in Nonces /\ lockAccount[w][NonceOf(w)] = NoLock
      BY <1>3, <2>2, ReadTypes DEF Lock
    <3>2. LockedOf(w)' = LockedOf(w) + amount
      BY <1>3, <2>2, LockEffect DEF Effect
    <3>3. lockAccount'[w] = [lockAccount[w] EXCEPT ![NonceOf(w)] = amount]
      BY <1>3, <2>2 DEF Lock
    <3>4. /\ IsFiniteSet(Units(lockAccount'[w]))
          /\ Cardinality(Units(lockAccount'[w])) = Cardinality(Units(lockAccount[w])) + amount
      BY <1>a, <3>1, <3>3, OpenAdds
    <3>5. QED
      BY <1>a, <3>2, <3>4
  <2>3. QED
    BY <2>1, <2>2
<1>4. ASSUME NEW u \in Users, NEW signer \in Keys, NEW payer \in Keys,
             NEW n \in Nonces, NEW amount \in Lamports,
             Settle(signer, payer, u, n, amount)
      PROVE  /\ IsFiniteSet(LockedLamports(w)')
             /\ LockedOf(w)' = Cardinality(LockedLamports(w)')
  <2>1. CASE w # u
    <3>1. LockedOf(w)' = LockedOf(w) /\ lockAccount'[w] = lockAccount[w]
      BY <1>4, <2>1, SettleEffect DEF Effect, Settle
    <3>2. QED
      BY <1>a, <3>1
  <2>2. CASE w = u
    <3>1. lockAccount[w][n] # NoLock
      BY <1>4, <2>2 DEF Settle
    <3>2. LockedOf(w)' = LockedOf(w) - lockAccount[w][n]
      BY <1>4, <2>2, SettleEffect DEF Effect
    <3>3. lockAccount'[w] = [lockAccount[w] EXCEPT ![n] = NoLock]
      BY <1>4, <2>2 DEF Settle
    <3>4. /\ IsFiniteSet(Units(lockAccount'[w]))
          /\ Cardinality(Units(lockAccount[w]))
               = Cardinality(Units(lockAccount'[w])) + lockAccount[w][n]
      BY <1>a, <3>1, <3>3, CloseRemoves
    <3>5. Cardinality(Units(lockAccount'[w])) \in Nat /\ lockAccount[w][n] \in Nat
      BY <3>1, <3>4, FS_CardinalityType, BoundsAssumption DEF Lamports
    <3>6. QED
      BY <1>a, <3>2, <3>4, <3>5
  <2>3. QED
    BY <2>1, <2>2
<1>5. ASSUME NEW u \in Users, NEW signer \in Keys, NEW sig \in signed,
             NEW amount \in Lamports, Pay(signer, u, sig, amount)
      PROVE  /\ IsFiniteSet(LockedLamports(w)')
             /\ LockedOf(w)' = Cardinality(LockedLamports(w)')
  <2>1. LockedOf(w)' = LockedOf(w) /\ UNCHANGED lockAccount
    BY <1>5, PayEffect DEF Effect, Pay
  <2>2. QED
    BY <1>a, <2>1
<1>6. QED
  BY <1>1, <1>2, <1>3, <1>4, <1>5, AccountWriters

\* No instruction takes unlocked lamports it should leave, nor locked ones: a
\* withdrawal or payment stays within what is available, and a settlement
\* unlocks at least what it takes.
LEMMA SolventStep == TypeOK /\ Solvent /\ [Next]_vars => Solvent'
<1> SUFFICES ASSUME TypeOK, Solvent, [Next]_vars, NEW w \in Users
             PROVE  LockedOf(w)' <= vault'[w]
  BY DEF Solvent
<1>0. /\ LockedOf(w) \in Nat /\ vault[w] \in Nat /\ LockedOf(w) <= vault[w]
      /\ vault \in [Users -> Nat] /\ Lamports \subseteq Nat
  BY ReadTypes, BoundsAssumption DEF Solvent, TypeOK, Lamports
<1>1. CASE UNCHANGED <<userAccount, vault>>
  BY <1>0, <1>1 DEF LockedOf, Registered
<1>2. ASSUME NEW u \in Users, NEW payer \in Keys, Register(u, payer)
      PROVE  LockedOf(w)' <= vault'[w]
  <2>1. LockedOf(w)' = LockedOf(w) /\ vault' = vault
    BY <1>2, RegisterEffect DEF Effect, Register
  <2>2. QED
    BY <1>0, <2>1
<1>3. ASSUME NEW u \in Users, NEW amount \in Lamports,
             UNCHANGED userAccount, vault' = Credit(vault, u, amount)
      PROVE  LockedOf(w)' <= vault'[w]
  <2>1. LockedOf(w)' = LockedOf(w)
    BY <1>3 DEF LockedOf, Registered
  <2>2. QED
    BY <1>0, <1>3, <2>1 DEF Credit
<1>4. ASSUME NEW u \in Users, NEW amount \in Lamports, Withdraw(u, amount)
      PROVE  LockedOf(w)' <= vault'[w]
  <2>1. LockedOf(w)' = LockedOf(w)
    BY <1>4 DEF Withdraw, LockedOf, Registered
  <2>2. QED
    BY <1>0, <1>4, <2>1 DEF Withdraw, Debit, CanSpend, Available
<1>5. ASSUME NEW u \in Users, NEW signer \in Keys, NEW payer \in Keys,
             NEW sig \in signed, NEW amount \in Lamports,
             Lock(signer, payer, u, sig, amount)
      PROVE  LockedOf(w)' <= vault'[w]
  <2>1. /\ vault' = vault
        /\ amount <= vault[u] - LockedOf(u)
    BY <1>5 DEF Lock, CanSpend, Available
  <2>2. IF w = u THEN LockedOf(w)' = LockedOf(w) + amount ELSE LockedOf(w)' = LockedOf(w)
    BY <1>5, LockEffect DEF Effect
  <2>3. QED
    BY <1>0, <2>1, <2>2
<1>6. ASSUME NEW u \in Users, NEW signer \in Keys, NEW payer \in Keys,
             NEW n \in Nonces, NEW amount \in Lamports,
             Settle(signer, payer, u, n, amount)
      PROVE  LockedOf(w)' <= vault'[w]
  <2>1. /\ vault' = Debit(vault, u, amount)
        /\ amount <= lockAccount[u][n]
        /\ lockAccount[u][n] \in Nat
    BY <1>6, ReadTypes DEF Settle
  <2>2. IF w = u THEN LockedOf(w)' = LockedOf(w) - lockAccount[u][n]
                 ELSE LockedOf(w)' = LockedOf(w)
    BY <1>6, SettleEffect DEF Effect
  <2>3. QED
    BY <1>0, <2>1, <2>2 DEF Debit
<1>7. ASSUME NEW u \in Users, NEW signer \in Keys, NEW sig \in signed,
             NEW amount \in Lamports, Pay(signer, u, sig, amount)
      PROVE  LockedOf(w)' <= vault'[w]
  <2>1. /\ vault' = Debit(vault, u, amount)
        /\ amount <= vault[u] - LockedOf(u)
    BY <1>7 DEF Pay, CanSpend, Available
  <2>2. LockedOf(w)' = LockedOf(w)
    BY <1>7, PayEffect DEF Effect
  <2>3. QED
    BY <1>0, <2>1, <2>2 DEF Debit
<1>8. QED
  BY <1>1, <1>2, <1>3, <1>4, <1>5, <1>6, <1>7
  DEF Next, Administration, UserInstruction, BotInstruction, Environment, vars,
      Initialize, SetBot, SetTreasury, Deposit, Sign, FundVault, Tick

\* The runtime refuses what would leave a balance below the minimum, and no
\* instruction that moves lamports escapes it.
LEMMA RentStep == RentInv /\ [Next]_vars => RentInv'
<1>1. RentChecked => RentInv'
  BY DEF RentChecked, RentInv, AllRentExempt
<1>2. RentInv /\ UNCHANGED <<wallet, vault>> => RentInv'
  BY DEF RentInv
<1>3. [Next]_vars => RentChecked \/ UNCHANGED <<wallet, vault>>
  BY DEF Next, Administration, UserInstruction, BotInstruction, Environment, vars,
         Initialize, SetBot, SetTreasury, Register, Deposit, Withdraw, Lock, Settle, Pay,
         Sign, FundVault, Tick
<1>4. QED
  BY <1>1, <1>2, <1>3

\* The inductive invariant holds at the start and every step keeps it.
LEMMA InitIndInv == Init => IndInv
<1> SUFFICES ASSUME Init PROVE IndInv
  OBVIOUS
<1>1. /\ \A u \in Users : NonceOf(u) = 0 /\ LockedOf(u) = 0 /\ vault[u] = 0
      /\ \A u \in Users : Units(lockAccount[u]) = {}
  BY DEF Init, NonceOf, LockedOf, Registered, Units
<1>2. TypeOK
  BY BoundsAssumption, RentAssumption DEF Init, TypeOK, Times
<1>3. FreshLockAddress
  BY DEF Init, FreshLockAddress, OpenLocks
<1>4. LocksFinite /\ LockedIsBacked
  BY <1>1, FS_EmptySet DEF LocksFinite, LockedIsBacked, LockedLamports
<1>5. Solvent
  BY <1>1 DEF Solvent
<1>6. RentInv
  BY RentAssumption DEF Init, RentInv, AllRentExempt, RentExempt
<1>7. QED
  BY <1>2, <1>3, <1>4, <1>5, <1>6 DEF IndInv

LEMMA StepIndInv == IndInv /\ [Next]_vars => IndInv'
BY TypeStep, FreshStep, BackedStep, SolventStep, RentStep DEF IndInv

\* No instruction breaks the invariants of the program together.
THEOREM Inductive == Spec => []IndInv
BY InitIndInv, StepIndInv, PTL DEF Spec

-----------------------------------------------------------------------------
\* Type correctness: amounts stay natural numbers and nonces within u64.
THEOREM TypeCorrect == Spec => []TypeOK
<1>1. IndInv => TypeOK
  BY DEF IndInv
<1>2. QED
  BY <1>1, Inductive, PTL

\* locked_amount is the sum of the amounts of the open locks, always.
THEOREM BackedLocks == Spec => []LockedIsBacked
<1>1. IndInv => LockedIsBacked
  BY DEF IndInv
<1>2. QED
  BY <1>1, Inductive, PTL

\* A vault never holds less than its user's locks have promised.
THEOREM Solvency == Spec => []Solvent
<1>1. IndInv => Solvent
  BY DEF IndInv
<1>2. QED
  BY <1>1, Inductive, PTL

\* Taking a lock's lamports out of a vault leaves it empty or rent-exempt; if
\* not, taking all but the minimum does, and spares less than the minimum.
LEMMA DustStaysBehind ==
    ASSUME NEW balance \in Nat, NEW locked \in Nat, locked <= balance, RentExempt(balance)
    PROVE  \E amount \in 0..locked :
               /\ \/ amount = locked
                  \/ ~RentExempt(balance - locked) /\ locked - amount < RentMin
               /\ RentExempt(balance - amount)
<1>0. RentMin \in Nat
  BY RentAssumption
<1>1. CASE RentExempt(balance - locked)
  <2>1. locked \in 0..locked
    OBVIOUS
  <2>2. QED
    BY <1>1, <2>1
<1>2. CASE ~RentExempt(balance - locked)
  <2>1. balance - locked > 0 /\ balance - locked < RentMin /\ balance >= RentMin
    BY <1>0, <1>2 DEF RentExempt
  <2>2. /\ balance - RentMin \in 0..locked
        /\ locked - (balance - RentMin) < RentMin
        /\ balance - (balance - RentMin) = RentMin
    BY <1>0, <2>1
  <2>3. RentExempt(balance - (balance - RentMin))
    BY <1>0, <2>2 DEF RentExempt
  <2>4. QED
    BY <1>2, <2>2, <2>3
<1>3. QED
  BY <1>1, <1>2

\* Paying into wallets that hold something leaves them above the minimum.
LEMMA CreditsStayExempt ==
    ASSUME wallet \in [Keys -> Nat], \A k \in Keys : RentExempt(wallet[k]),
           NEW treasury \in Keys, wallet[treasury] > 0,
           NEW payer \in Keys, wallet[payer] > 0, NEW amount \in Nat
    PROVE  \A k \in Keys : RentExempt(Credit(Credit(wallet, treasury, amount), payer, LockRent)[k])
<1>1. LockRent \in Nat /\ RentMin \in Nat
  BY RentAssumption
<1>2. SUFFICES ASSUME NEW k \in Keys
               PROVE  RentExempt(Credit(Credit(wallet, treasury, amount), payer, LockRent)[k])
  OBVIOUS
<1> DEFINE mid == Credit(wallet, treasury, amount)
           end == Credit(mid, payer, LockRent)
<1>3. /\ mid \in [Keys -> Nat]
      /\ mid[k] = IF k = treasury THEN wallet[k] + amount ELSE wallet[k]
  BY DEF Credit
<1>4. end[k] = IF k = payer THEN mid[k] + LockRent ELSE mid[k]
  <2> HIDE DEF mid
  <2>1. QED
    BY <1>1, <1>3 DEF Credit
<1>5. \/ end[k] = wallet[k]
      \/ end[k] >= wallet[k] /\ wallet[k] > 0 /\ end[k] \in Nat
  <2> HIDE DEF mid, end
  <2>1. wallet[k] \in Nat /\ mid[k] \in Nat
    BY <1>3
  <2>2. QED
    BY <1>1, <1>3, <1>4, <2>1
<1>6. RentExempt(end[k])
  <2> HIDE DEF mid, end
  <2>1. wallet[k] \in Nat /\ RentExempt(wallet[k])
    OBVIOUS
  <2>2. QED
    BY <1>1, <1>5, <2>1 DEF RentExempt
<1>7. QED
  BY <1>6

LEMMA IndSettleable == IndInv => EveryLockSettleable
<1> SUFFICES ASSUME IndInv, NEW u \in Users, NEW n \in OpenLocks(u),
                    global # NoGlobal, wallet[global.treasury] > 0
             PROVE  \E amount \in 0..lockAccount[u][n] :
                        /\ \/ amount = lockAccount[u][n]
                           \/ /\ LeavesDust(u, lockAccount[u][n])
                              /\ lockAccount[u][n] - amount < RentMin
                        /\ \A payer \in Keys :
                               wallet[payer] > 0 => CanSettle(payer, u, n, amount)
  BY DEF EveryLockSettleable
<1>1. lockAccount[u] \in LockMap /\ n \in Nonces /\ lockAccount[u][n] # NoLock
  BY DEF IndInv, TypeOK, LockMap, OpenLocks
<1>2. lockAccount[u][n] <= LockedOf(u)
  BY <1>1, OneOfTotal DEF IndInv, LocksFinite, LockedIsBacked, LockedLamports
<1>3. LockedOf(u) <= vault[u] /\ LockedOf(u) \in Nat /\ vault[u] \in Nat
      /\ lockAccount[u][n] \in Nat
  BY <1>1, ReadTypes DEF IndInv, Solvent, TypeOK
<1>4. Registered(u)
  <2>1. n < NonceOf(u) /\ n \in Nat
    BY <1>1, BoundsAssumption DEF IndInv, FreshLockAddress, Nonces
  <2>2. QED
    BY <2>1 DEF NonceOf
<1>5. lockAccount[u][n] <= vault[u]
  BY <1>2, <1>3
<1>6. /\ wallet \in [Keys -> Nat]
      /\ \A k \in Keys : RentExempt(wallet[k])
      /\ \A v \in Users : RentExempt(vault[v])
      /\ global.treasury \in Keys
      /\ vault \in [Users -> Nat]
  BY DEF IndInv, TypeOK, RentInv, AllRentExempt
<1>7. PICK amount \in 0..lockAccount[u][n] :
          /\ \/ amount = lockAccount[u][n]
             \/ ~RentExempt(vault[u] - lockAccount[u][n]) /\ lockAccount[u][n] - amount < RentMin
          /\ RentExempt(vault[u] - amount)
  BY <1>3, <1>5, <1>6, DustStaysBehind
<1>8. amount \in Nat /\ amount <= lockAccount[u][n] /\ amount <= vault[u]
  BY <1>3, <1>5
<1>9. ASSUME NEW payer \in Keys, wallet[payer] > 0
      PROVE  CanSettle(payer, u, n, amount)
  <2>1. \A k \in Keys :
            RentExempt(Credit(Credit(wallet, global.treasury, amount), payer, LockRent)[k])
    BY <1>6, <1>8, <1>9, CreditsStayExempt
  <2>2. \A v \in Users : RentExempt(Debit(vault, u, amount)[v])
    BY <1>6, <1>7 DEF Debit
  <2>3. QED
    BY <1>2, <1>4, <1>8, <2>1, <2>2 DEF CanSettle, AllRentExempt
<1>10. QED
  BY <1>7, <1>9 DEF LeavesDust

\* No lock the program has opened and not closed is stuck: the bot can settle it
\* in full or, when the rest of the vault would be dust, all but less than the
\* rent-exempt minimum; neither settle.rs nor the runtime refuses.
THEOREM Settleable == Spec => []EveryLockSettleable
BY IndSettleable, Inductive, PTL

\* The account lock.rs creates never exists already.
THEOREM FreshLocks == Spec => []FreshLockAddress
<1>1. IndInv => FreshLockAddress
  BY DEF IndInv
<1>2. QED
  BY <1>1, Inductive, PTL

-----------------------------------------------------------------------------
LEMMA NoncesStep == TypeOK /\ [Next]_vars => NonceSteps
<1> SUFFICES ASSUME TypeOK, [Next]_vars, NEW w \in Users
             PROVE  NonceStep(w)
  BY DEF NonceSteps
<1>0. lockAccount \in [Users -> [Nonces -> Lamports \cup {NoLock}]]
  BY DEF TypeOK
<1>1. ASSUME NonceOf(w)' \in {NonceOf(w), NonceOf(w) + 1},
             lockAccount'[w] = lockAccount[w]
      PROVE  NonceStep(w)
  BY <1>1 DEF NonceStep, OpenLocks
<1>2. CASE UNCHANGED <<userAccount, lockAccount>>
  BY <1>1, <1>2 DEF NonceOf, Registered
<1>3. ASSUME NEW u \in Users, NEW payer \in Keys, Register(u, payer)
      PROVE  NonceStep(w)
  BY <1>1, <1>3, RegisterEffect DEF Effect, Register
<1>4. ASSUME NEW u \in Users, NEW signer \in Keys, NEW payer \in Keys,
             NEW sig \in signed, NEW amount \in Lamports,
             Lock(signer, payer, u, sig, amount)
      PROVE  NonceStep(w)
  <2>1. Effect(u, NonceOf(u) + 1, LockedOf(u) + amount)
    BY <1>4, LockEffect
  <2>2. lockAccount' = [lockAccount EXCEPT ![u][NonceOf(u)] = amount]
    BY <1>4 DEF Lock
  <2>3. CASE w # u
    BY <1>0, <1>1, <2>1, <2>2, <2>3 DEF Effect
  <2>4. CASE w = u
    <3>1. \A n \in OpenLocks(w)' \ OpenLocks(w) : n = NonceOf(w)
      BY <1>0, <2>2, <2>4 DEF OpenLocks
    <3>2. QED
      BY <2>1, <2>4, <3>1 DEF Effect, NonceStep
  <2>5. QED
    BY <2>3, <2>4
<1>5. ASSUME NEW u \in Users, NEW signer \in Keys, NEW payer \in Keys,
             NEW n \in Nonces, NEW amount \in Lamports,
             Settle(signer, payer, u, n, amount)
      PROVE  NonceStep(w)
  <2>1. OpenLocks(w)' \subseteq OpenLocks(w)
    BY <1>0, <1>5 DEF Settle, OpenLocks
  <2>2. NonceOf(w)' = NonceOf(w)
    BY <1>5, SettleEffect DEF Effect
  <2>3. QED
    BY <2>1, <2>2 DEF NonceStep
<1>6. ASSUME NEW u \in Users, NEW signer \in Keys, NEW sig \in signed,
             NEW amount \in Lamports, Pay(signer, u, sig, amount)
      PROVE  NonceStep(w)
  BY <1>1, <1>6, PayEffect DEF Effect, Pay
<1>7. QED
  BY <1>2, <1>3, <1>4, <1>5, <1>6, AccountWriters

\* A lock opens only at the current nonce, which that step uses up, and no
\* step moves a nonce back or by more than one.
THEOREM NoncesUsedOnce == Spec => NonceUsedOnce
BY NoncesStep, TypeCorrect, PTL DEF Spec, NonceUsedOnce

\* What a vault loses goes to its owner, out of a lock that closes, or against
\* a live signature.
LEMMA SpendingAuthorised == TypeOK /\ [Next]_vars => SpendingSteps
<1> SUFFICES ASSUME TypeOK, [Next]_vars, NEW w \in Users, Spent(w) > 0
             PROVE  \/ Withdrawn(w)
                    \/ \E n \in OpenLocks(w) : SettledFrom(w, n)
                    \/ \E sig \in signed : PaidWith(w, sig)
  BY DEF SpendingSteps, SpendingStep
<1>0. vault \in [Users -> Nat] /\ wallet \in [Keys -> Nat] /\ Lamports \subseteq Nat
      /\ lockAccount \in [Users -> [Nonces -> Lamports \cup {NoLock}]]
  BY BoundsAssumption DEF TypeOK, Lamports
<1>1. CASE UNCHANGED vault
  BY <1>0, <1>1 DEF Spent
<1>2. ASSUME NEW u \in Users, NEW amount \in Lamports, vault' = Credit(vault, u, amount)
      PROVE  FALSE
  BY <1>0, <1>2 DEF Spent, Credit
<1>3. ASSUME NEW u \in Users, NEW amount \in Lamports, Withdraw(u, amount)
      PROVE  Withdrawn(w)
  BY <1>0, <1>3 DEF Withdraw, Withdrawn, Spent, Debit, Credit, Keys
<1>4. ASSUME NEW u \in Users, NEW signer \in Keys, NEW payer \in Keys,
             NEW n \in Nonces, NEW amount \in Lamports,
             Settle(signer, payer, u, n, amount)
      PROVE  n \in OpenLocks(w) /\ SettledFrom(w, n)
  <2>1. w = u /\ Spent(w) = amount
    BY <1>0, <1>4 DEF Settle, Spent, Debit
  <2>2. lockAccount'[w] = [lockAccount[w] EXCEPT ![n] = NoLock]
    BY <1>0, <1>4, <2>1 DEF Settle
  <2>3. OpenLocks(w)' = OpenLocks(w) \ {n}
    BY <1>0, <2>2 DEF OpenLocks
  <2>4. NonceOf(w)' = NonceOf(w)
    BY <1>4, <2>1, SettleEffect DEF Effect
  <2>5. QED
    BY <1>4, <2>1, <2>3, <2>4 DEF Settle, SettledFrom, OpenLocks
<1>5. ASSUME NEW u \in Users, NEW signer \in Keys, NEW sig \in signed,
             NEW amount \in Lamports, Pay(signer, u, sig, amount)
      PROVE  PaidWith(w, sig)
  <2>1. w = u /\ Spent(w) = amount
    BY <1>0, <1>5 DEF Pay, Spent, Debit
  <2>2. NonceOf(w)' = NonceOf(w) + 1
    BY <1>5, <2>1, PayEffect DEF Effect
  <2>3. QED
    BY <1>5, <2>1, <2>2 DEF Pay, PaidWith, Verify, SignedBy, CanSpend
<1>6. QED
  BY <1>1, <1>2, <1>3, <1>4, <1>5
  DEF Next, Administration, UserInstruction, BotInstruction, Environment, vars,
      Initialize, SetBot, SetTreasury, Register, Deposit, Lock, Sign, FundVault, Tick

\* No lamport leaves a vault except to its owner, out of a lock that closes,
\* or against a live signature over the nonce that step uses up.
THEOREM OnlyAuthorisedCharges == Spec => ChargesAreAuthorised
BY SpendingAuthorised, TypeCorrect, PTL DEF Spec, ChargesAreAuthorised

-----------------------------------------------------------------------------
(***************************************************************************)
(* Lamports are conserved: the total is a sum over wallets and vaults and  *)
(* three counts of accounts, and each instruction changes them by amounts  *)
(* that cancel.                                                            *)
(***************************************************************************)

Created == Cardinality({u \in Users : Registered(u)})
Opened == SumOver([u \in Users |-> Cardinality(OpenLocks(u))], Users)
GlobalPaid == IF global = NoGlobal THEN 0 ELSE GlobalRent

\* A balance that is credited or debited changes the sum by the amount.
LEMMA MovedSum ==
    ASSUME NEW S, IsFiniteSet(S), NEW b \in [S -> Int], NEW k \in S, NEW a \in Int
    PROVE  /\ Credit(b, k, a) \in [S -> Int]
           /\ SumOver(Credit(b, k, a), S) = SumOver(b, S) + a
           /\ SumOver(Debit(b, k, a), S) = SumOver(b, S) - a
<1>1. SumOver(b, S) \in Int
  BY SumType
<1>2. ASSUME NEW d \in Int, NEW c, c = [b EXCEPT ![k] = @ + d]
      PROVE  SumOver(c, S) = SumOver(b, S) + d
  <2>1. /\ \A x \in S : b[x] \in Int /\ c[x] \in Int
        /\ \A x \in S : x # k => c[x] = b[x]
        /\ c[k] - b[k] = d
    BY <1>2
  <2>2. SumOver(c, S) = SumOver(b, S) + (c[k] - b[k])
    BY <2>1, SumChanges
  <2>3. QED
    BY <2>1, <2>2
<1>3. Debit(b, k, a) = [b EXCEPT ![k] = @ + (-a)]
  BY DEF Debit
<1>4. SumOver(Debit(b, k, a), S) = SumOver(b, S) + (-a)
  <2>1. -a \in Int
    OBVIOUS
  <2>2. QED
    BY <1>2, <1>3, <2>1, Zenon
<1>5. SumOver(Credit(b, k, a), S) = SumOver(b, S) + a
  BY <1>2 DEF Credit
<1>6. QED
  BY <1>1, <1>4, <1>5 DEF Credit

LEMMA KeysFinite == IsFiniteSet(Users) /\ IsFiniteSet(Keys)
BY KeysAssumption, FS_Union DEF Keys

\* Whatever the lock accounts hold, a user has finitely many of them.
LEMMA OpenLocksFinite ==
    /\ \A u \in Users : IsFiniteSet(OpenLocks(u)) /\ Cardinality(OpenLocks(u)) \in Nat
    /\ \A u \in Users : Cardinality(OpenLocks(u)') \in Nat
<1>1. IsFiniteSet(Nonces)
  BY FS_Interval, BoundsAssumption DEF Nonces
<1>2. \A u \in Users : IsFiniteSet(OpenLocks(u)) /\ IsFiniteSet(OpenLocks(u)')
  BY <1>1, FS_Subset DEF OpenLocks
<1>3. QED
  BY <1>2, FS_CardinalityType

\* The counts are natural numbers.
LEMMA CountTypes ==
    ASSUME TypeOK
    PROVE  /\ Created \in Nat /\ Opened \in Nat /\ GlobalPaid \in Nat
           /\ SumOver(wallet, Keys) \in Int /\ SumOver(vault, Users) \in Int
<1>1. Opened \in Nat
  BY OpenLocksFinite, KeysFinite, SumNat DEF Opened
<1>2. IsFiniteSet({u \in Users : Registered(u)})
  BY KeysFinite, FS_Subset
<1>3. Created \in Nat
  BY <1>2, FS_CardinalityType DEF Created
<1>4. SumOver(wallet, Keys) \in Int /\ SumOver(vault, Users) \in Int
  BY KeysFinite, SumType DEF TypeOK
<1>5. QED
  BY <1>1, <1>3, <1>4, RentAssumption DEF GlobalPaid

LEMMA RegisterCreates ==
    ASSUME TypeOK, NEW u \in Users, NEW payer \in Keys, Register(u, payer)
    PROVE  Created' = Created + 1
<1>1. userAccount'[u] # NoAccount
  <2>1. userAccount'[u] = [nonce |-> 0, locked_amount |-> 0]
    BY DEF Register, WriteAccount, TypeOK
  <2>2. QED
    BY <2>1, NoneAssumption
<1>2. \A w \in Users : Registered(w)' <=> w = u \/ Registered(w)
  BY <1>1 DEF Register, WriteAccount, TypeOK, Registered
<1>3. {w \in Users : Registered(w)'} = {w \in Users : Registered(w)} \cup {u}
  BY <1>2
<1>4. u \notin {w \in Users : Registered(w)}
  BY DEF Register
<1>5. IsFiniteSet({w \in Users : Registered(w)})
  BY KeysFinite, FS_Subset
<1> DEFINE R == {w \in Users : Registered(w)}
<1>6. Cardinality(R \cup {u}) = Cardinality(R) + 1
  <2> HIDE DEF R
  <2>1. QED
    BY <1>4, <1>5, FS_AddElement DEF R
<1>7. QED
  BY <1>3, <1>6 DEF Created

\* Writing an account that exists creates none.
LEMMA WriteCreatesNone ==
    ASSUME TypeOK, NEW u \in Users, NEW nonce \in Nat, NEW locked \in Nat,
           Registered(u), WriteAccount(u, nonce, locked)
    PROVE  Created' = Created
<1>1. userAccount'[u] # NoAccount
  <2>1. userAccount'[u] = [nonce |-> nonce, locked_amount |-> locked]
    BY DEF WriteAccount, TypeOK
  <2>2. QED
    BY <2>1, NoneAssumption
<1>2. \A w \in Users : Registered(w)' <=> Registered(w)
  BY <1>1 DEF WriteAccount, TypeOK, Registered
<1>3. {w \in Users : Registered(w)'} = {w \in Users : Registered(w)}
  BY <1>2
<1>4. QED
  BY <1>3 DEF Created

\* When the open locks of one user change, their number changes by as many.
LEMMA OpenedChanges ==
    ASSUME TypeOK, NEW u \in Users,
           \A w \in Users \ {u} : lockAccount'[w] = lockAccount[w]
    PROVE  Opened' = Opened + (Cardinality(OpenLocks(u)') - Cardinality(OpenLocks(u)))
<1> DEFINE f == [w \in Users |-> Cardinality(OpenLocks(w))]
           g == [w \in Users |-> Cardinality(OpenLocks(w)')]
<1>1. \A w \in Users : f[w] \in Int /\ g[w] \in Int
  BY OpenLocksFinite
<1>2. \A w \in Users : w # u => g[w] = f[w]
  BY DEF OpenLocks
<1>3. SumOver(g, Users) = SumOver(f, Users) + (g[u] - f[u])
  <2> HIDE DEF f, g
  <2>1. QED
    BY <1>1, <1>2, KeysFinite, SumChanges
<1>4. Opened = SumOver(f, Users) /\ Opened' = SumOver(g, Users)
  BY DEF Opened
<1>5. QED
  BY <1>3, <1>4

LEMMA LockOpens ==
    ASSUME TypeOK, NEW u \in Users, NEW signer \in Keys, NEW payer \in Keys,
           NEW sig \in signed, NEW amount \in Lamports,
           Lock(signer, payer, u, sig, amount)
    PROVE  Opened' = Opened + 1
<1>1. /\ lockAccount' = [lockAccount EXCEPT ![u][NonceOf(u)] = amount]
      /\ lockAccount[u][NonceOf(u)] = NoLock
      /\ NonceOf(u) \in Nonces /\ amount # NoLock
  BY ReadTypes, BoundsAssumption, NoneAssumption DEF Lock, Lamports
<1>2. /\ OpenLocks(u)' = OpenLocks(u) \cup {NonceOf(u)}
      /\ NonceOf(u) \notin OpenLocks(u)
      /\ \A w \in Users \ {u} : lockAccount'[w] = lockAccount[w]
  BY <1>1 DEF OpenLocks, TypeOK
<1>3. Cardinality(OpenLocks(u)') = Cardinality(OpenLocks(u)) + 1
  BY <1>2, OpenLocksFinite, FS_AddElement
<1>4. QED
  <2>1. Opened' = Opened + (Cardinality(OpenLocks(u)') - Cardinality(OpenLocks(u)))
    BY <1>2, OpenedChanges
  <2>2. QED
    BY <1>3, <2>1, CountTypes, OpenLocksFinite

LEMMA SettleCloses ==
    ASSUME TypeOK, NEW u \in Users, NEW signer \in Keys, NEW payer \in Keys,
           NEW n \in Nonces, NEW amount \in Lamports,
           Settle(signer, payer, u, n, amount)
    PROVE  Opened' = Opened - 1
<1>1. /\ lockAccount' = [lockAccount EXCEPT ![u][n] = NoLock]
      /\ lockAccount[u][n] # NoLock
  BY DEF Settle
<1>2. /\ OpenLocks(u)' = OpenLocks(u) \ {n}
      /\ n \in OpenLocks(u)
      /\ \A w \in Users \ {u} : lockAccount'[w] = lockAccount[w]
  BY <1>1 DEF OpenLocks, TypeOK
<1>3. Cardinality(OpenLocks(u)') = Cardinality(OpenLocks(u)) - 1
  BY <1>2, OpenLocksFinite, FS_RemoveElement
<1>4. QED
  <2>1. Opened' = Opened + (Cardinality(OpenLocks(u)') - Cardinality(OpenLocks(u)))
    BY <1>2, OpenedChanges
  <2>2. QED
    BY <1>3, <2>1, CountTypes, OpenLocksFinite

\* What a step changes in the parts of the total; the total stays when the
\* changes cancel.
LEMMA ChangesCancel ==
    ASSUME TypeOK, NEW w \in Int, NEW v \in Int, NEW g \in Int, NEW r \in Int, NEW o \in Int,
           SumOver(wallet, Keys)' = SumOver(wallet, Keys) + w,
           SumOver(vault, Users)' = SumOver(vault, Users) + v,
           GlobalPaid' = GlobalPaid + g,
           Created' = Created + r,
           Opened' = Opened + o,
           w + v + g + UserRent * r + LockRent * o = 0,
           LamportsConserved
    PROVE  LamportsConserved'
<1>1. /\ RentPaid = GlobalPaid + UserRent * Created + LockRent * Opened
      /\ RentPaid' = GlobalPaid' + UserRent * Created' + LockRent * Opened'
  BY DEF RentPaid, GlobalPaid, Created, Opened
<1>2. /\ Created \in Nat /\ Opened \in Nat /\ GlobalPaid \in Nat
      /\ SumOver(wallet, Keys) \in Int /\ SumOver(vault, Users) \in Int
      /\ UserRent \in Nat /\ LockRent \in Nat
  BY CountTypes, RentAssumption
<1>3. /\ UserRent * (Created + r) = UserRent * Created + UserRent * r
      /\ LockRent * (Opened + o) = LockRent * Opened + LockRent * o
      /\ {UserRent * Created, UserRent * r, LockRent * Opened, LockRent * o} \subseteq Int
  BY <1>2
<1>4. SumOver(wallet, Keys)' + SumOver(vault, Users)' + RentPaid'
        = SumOver(wallet, Keys) + SumOver(vault, Users) + RentPaid
  BY <1>1, <1>2, <1>3
<1>5. QED
  BY <1>4 DEF LamportsConserved

\* A step that leaves lock accounts alone opens and closes none, and so on.
LEMMA CountsStay ==
    /\ UNCHANGED lockAccount => Opened' = Opened
    /\ UNCHANGED userAccount => Created' = Created
    /\ UNCHANGED global => GlobalPaid' = GlobalPaid
BY DEF Opened, OpenLocks, Created, Registered, GlobalPaid

LEMMA ConservedStep ==
    TypeOK /\ LamportsConserved /\ [Next]_vars => LamportsConserved'
<1> SUFFICES ASSUME TypeOK, LamportsConserved, [Next]_vars PROVE LamportsConserved'
  OBVIOUS
<1> DEFINE W == SumOver(wallet, Keys)
           V == SumOver(vault, Users)
<1>0. /\ wallet \in [Keys -> Int] /\ vault \in [Users -> Int]
      /\ Users \subseteq Keys /\ Lamports \subseteq Int
      /\ {GlobalRent, UserRent, LockRent} \subseteq Int
      /\ W \in Int /\ V \in Int
      /\ Created \in Int /\ Opened \in Int /\ GlobalPaid \in Int
  BY CountTypes, BoundsAssumption, RentAssumption DEF TypeOK, Keys, Lamports
<1>w. ASSUME NEW k \in Keys, NEW a \in Int
      PROVE  /\ Credit(wallet, k, a) \in [Keys -> Int]
             /\ SumOver(Credit(wallet, k, a), Keys) = W + a
             /\ SumOver(Debit(wallet, k, a), Keys) = W + (-a)
  BY <1>0, MovedSum, KeysFinite
<1>v. ASSUME NEW u \in Users, NEW a \in Int
      PROVE  /\ SumOver(Credit(vault, u, a), Users) = V + a
             /\ SumOver(Debit(vault, u, a), Users) = V + (-a)
  <2>1. IsFiniteSet(Users) /\ vault \in [Users -> Int]
    BY <1>0, KeysFinite
  <2>2. SumOver(Credit(vault, u, a), Users) = V + a
    BY <2>1, MovedSum
  <2>3. SumOver(Debit(vault, u, a), Users) = V - a
    BY <2>1, MovedSum
  <2>4. QED
    BY <1>0, <2>2, <2>3
<1> HIDE DEF W, V
<1>1. ASSUME NEW authority \in Keys, NEW bot \in Keys, NEW treasury \in Keys,
             NEW payer \in Keys, Initialize(authority, bot, treasury, payer)
      PROVE  LamportsConserved'
  <2>1. global = NoGlobal /\ global' # NoGlobal
    BY <1>1, NoneAssumption DEF Initialize
  <2>2. GlobalPaid' = GlobalPaid + GlobalRent
    BY <1>0, <2>1 DEF GlobalPaid
  <2>3. W' = W + (-GlobalRent)
    BY <1>0, <1>1, <1>w DEF Initialize, W
  <2>4. V' = V + 0 /\ Created' = Created + 0 /\ Opened' = Opened + 0
    BY <1>0, <1>1, CountsStay DEF Initialize, V
  <2>5. /\ GlobalRent \in Int /\ -GlobalRent \in Int
        /\ (-GlobalRent) + 0 + GlobalRent + UserRent * 0 + LockRent * 0 = 0
    BY <1>0
  <2>6. QED
    BY <2>2, <2>3, <2>4, <2>5, ChangesCancel DEF W, V
<1>2. ASSUME NEW signer \in Keys, NEW key \in Keys,
             SetBot(signer, key) \/ SetTreasury(signer, key)
      PROVE  LamportsConserved'
  <2>1. /\ global \in [authority : Keys, bot : Keys, treasury : Keys]
        /\ global' \in [authority : Keys, bot : Keys, treasury : Keys]
    BY <1>2 DEF SetBot, SetTreasury, SignedByAuthority, TypeOK
  <2>2. global # NoGlobal /\ global' # NoGlobal
    BY <2>1, NoneAssumption
  <2>3. GlobalPaid' = GlobalPaid + 0
    BY <1>0, <2>2 DEF GlobalPaid
  <2>4. W' = W + 0 /\ V' = V + 0 /\ Created' = Created + 0 /\ Opened' = Opened + 0
    BY <1>0, <1>2, CountsStay DEF SetBot, SetTreasury, W, V
  <2>5. QED
    BY <1>0, <2>3, <2>4, ChangesCancel DEF W, V
<1>3. ASSUME NEW u \in Users, NEW payer \in Keys, Register(u, payer)
      PROVE  LamportsConserved'
  <2>1. Created' = Created + 1
    BY <1>3, RegisterCreates
  <2>2. W' = W + (-UserRent)
    BY <1>0, <1>3, <1>w DEF Register, W
  <2>3. V' = V + 0 /\ GlobalPaid' = GlobalPaid + 0 /\ Opened' = Opened + 0
    BY <1>0, <1>3, CountsStay DEF Register, V
  <2>4. /\ -UserRent \in Int
        /\ (-UserRent) + 0 + 0 + UserRent * 1 + LockRent * 0 = 0
    BY <1>0
  <2>5. QED
    BY <2>1, <2>2, <2>3, <2>4, ChangesCancel DEF W, V
<1>4. ASSUME NEW k \in Keys, NEW u \in Users, NEW amount \in Lamports,
             UNCHANGED <<global, userAccount, lockAccount>>,
             \/ wallet' = Debit(wallet, k, amount) /\ vault' = Credit(vault, u, amount)
             \/ wallet' = Credit(wallet, k, amount) /\ vault' = Debit(vault, u, amount)
      PROVE  LamportsConserved'
  <2>0. /\ amount \in Int /\ -amount \in Int
        /\ (-amount) + amount + 0 + UserRent * 0 + LockRent * 0 = 0
        /\ amount + (-amount) + 0 + UserRent * 0 + LockRent * 0 = 0
    BY <1>0
  <2>1. GlobalPaid' = GlobalPaid + 0 /\ Created' = Created + 0 /\ Opened' = Opened + 0
    BY <1>0, <1>4, CountsStay
  <2>2. CASE wallet' = Debit(wallet, k, amount) /\ vault' = Credit(vault, u, amount)
    <3>1. W' = W + (-amount) /\ V' = V + amount
      BY <2>0, <2>2, <1>w, <1>v DEF W, V
    <3>2. QED
      BY <2>0, <2>1, <3>1, ChangesCancel DEF W, V
  <2>3. CASE wallet' = Credit(wallet, k, amount) /\ vault' = Debit(vault, u, amount)
    <3>1. W' = W + amount /\ V' = V + (-amount)
      BY <2>0, <2>3, <1>w, <1>v DEF W, V
    <3>2. QED
      BY <2>0, <2>1, <3>1, ChangesCancel DEF W, V
  <2>4. QED
    BY <1>4, <2>2, <2>3
<1>5. ASSUME NEW u \in Users, NEW signer \in Keys, NEW payer \in Keys,
             NEW sig \in signed, NEW amount \in Lamports,
             Lock(signer, payer, u, sig, amount)
      PROVE  LamportsConserved'
  <2>1. Opened' = Opened + 1
    BY <1>5, LockOpens
  <2>2. W' = W + (-LockRent)
    BY <1>0, <1>5, <1>w DEF Lock, W
  <2>3. V' = V + 0 /\ GlobalPaid' = GlobalPaid + 0
    BY <1>0, <1>5, CountsStay DEF Lock, V
  <2>4. Created' = Created + 0
    <3>1. NonceOf(u) + 1 \in Nat /\ LockedOf(u) + amount \in Nat
      BY ReadTypes, BoundsAssumption DEF Lamports
    <3>2. QED
      BY <1>0, <1>5, <3>1, WriteCreatesNone DEF Lock
  <2>5. QED
    <3>1. /\ -LockRent \in Int
          /\ (-LockRent) + 0 + 0 + UserRent * 0 + LockRent * 1 = 0
      BY <1>0
    <3>2. QED
      BY <2>1, <2>2, <2>3, <2>4, <3>1, ChangesCancel DEF W, V
<1>6. ASSUME NEW u \in Users, NEW signer \in Keys, NEW payer \in Keys,
             NEW n \in Nonces, NEW amount \in Lamports,
             Settle(signer, payer, u, n, amount)
      PROVE  LamportsConserved'
  <2>0. amount \in Int /\ global.treasury \in Keys
    BY <1>0, <1>6 DEF Settle, SignedByBot, TypeOK
  <2>1. Opened' = Opened + (-1)
    BY <1>0, <1>6, SettleCloses
  <2>2. W' = W + (amount + LockRent)
    <3> DEFINE mid == Credit(wallet, global.treasury, amount)
    <3>1. mid \in [Keys -> Int] /\ SumOver(mid, Keys) = W + amount
      BY <2>0, <1>w
    <3>2. wallet' = Credit(mid, payer, LockRent)
      BY <1>6 DEF Settle
    <3> HIDE DEF mid
    <3>3. SumOver(wallet', Keys) = SumOver(mid, Keys) + LockRent
      BY <1>0, <3>1, <3>2, MovedSum, KeysFinite
    <3>4. QED
      BY <1>0, <2>0, <3>1, <3>3 DEF W
  <2>3. V' = V + (-amount) /\ GlobalPaid' = GlobalPaid + 0
    BY <1>0, <1>6, <2>0, <1>v, CountsStay DEF Settle, V
  <2>4. Created' = Created + 0
    <3>1. NonceOf(u) \in Nat /\ LockedOf(u) - lockAccount[u][n] \in Nat
      BY <1>6, ReadTypes DEF Settle
    <3>2. QED
      BY <1>0, <1>6, <3>1, WriteCreatesNone DEF Settle
  <2>5. QED
    <3>1. /\ amount + LockRent \in Int /\ -amount \in Int
          /\ (amount + LockRent) + (-amount) + 0 + UserRent * 0 + LockRent * (-1) = 0
      BY <1>0, <2>0
    <3>2. QED
      BY <2>1, <2>2, <2>3, <2>4, <3>1, ChangesCancel DEF W, V
<1>7. ASSUME NEW u \in Users, NEW signer \in Keys, NEW sig \in signed,
             NEW amount \in Lamports, Pay(signer, u, sig, amount)
      PROVE  LamportsConserved'
  <2>0. amount \in Int /\ global.treasury \in Keys
    BY <1>0, <1>7 DEF Pay, SignedByBot, TypeOK
  <2>1. W' = W + amount /\ V' = V + (-amount)
    BY <1>7, <2>0, <1>w, <1>v DEF Pay, W, V
  <2>2. GlobalPaid' = GlobalPaid + 0 /\ Opened' = Opened + 0
    BY <1>0, <1>7, CountsStay DEF Pay
  <2>3. Created' = Created + 0
    <3>1. NonceOf(u) + 1 \in Nat /\ LockedOf(u) \in Nat
      BY ReadTypes
    <3>2. QED
      BY <1>0, <1>7, <3>1, WriteCreatesNone DEF Pay
  <2>4. /\ -amount \in Int
        /\ amount + (-amount) + 0 + UserRent * 0 + LockRent * 0 = 0
    BY <1>0, <2>0
  <2>5. QED
    BY <2>0, <2>1, <2>2, <2>3, <2>4, ChangesCancel DEF W, V
<1>8. CASE UNCHANGED <<global, userAccount, lockAccount, vault, wallet>>
  <2>1. /\ W' = W + 0 /\ V' = V + 0 /\ GlobalPaid' = GlobalPaid + 0
        /\ Created' = Created + 0 /\ Opened' = Opened + 0
    BY <1>0, <1>8, CountsStay DEF W, V
  <2>2. QED
    BY <1>0, <2>1, ChangesCancel DEF W, V
<1>9. ASSUME NEW u \in Users, NEW amount \in Lamports,
             \/ Deposit(u, amount) \/ Withdraw(u, amount)
             \/ \E k \in Keys : FundVault(k, u, amount)
      PROVE  LamportsConserved'
  BY <1>0, <1>4, <1>9 DEF Deposit, Withdraw, FundVault
<1>10. QED
  BY <1>1, <1>2, <1>3, <1>5, <1>6, <1>7, <1>8, <1>9
  DEF Next, Administration, UserInstruction, BotInstruction, Environment, vars, Sign, Tick

\* Rent included, no instruction creates or destroys a lamport.
THEOREM Conservation == Spec => []LamportsConserved
<1>1. Init => LamportsConserved
  <2> SUFFICES ASSUME Init PROVE LamportsConserved
    OBVIOUS
  <2>1. SumOver(wallet, Keys) = InitialWallet * Cardinality(Keys)
    BY KeysFinite, RentAssumption, SumConstant DEF Init
  <2>2. SumOver(vault, Users) = 0
    <3>1. SumOver(vault, Users) = 0 * Cardinality(Users)
      BY KeysFinite, SumConstant DEF Init
    <3>2. QED
      BY <3>1, KeysFinite, FS_CardinalityType
  <2>3. Opened = 0
    <3>1. \A u \in Users : OpenLocks(u) = {}
      BY DEF Init, OpenLocks
    <3>2. Opened = 0 * Cardinality(Users)
      BY <3>1, KeysFinite, SumConstant, FS_EmptySet DEF Opened
    <3>3. QED
      BY <3>2, KeysFinite, FS_CardinalityType
  <2>4. Created = 0 /\ GlobalPaid = 0
    <3>1. {u \in Users : Registered(u)} = {}
      BY DEF Init, Registered
    <3>2. QED
      BY <3>1, FS_EmptySet DEF Init, Created, GlobalPaid
  <2>5. RentPaid = GlobalPaid + UserRent * Created + LockRent * Opened
    BY DEF RentPaid, GlobalPaid, Created, Opened
  <2>6. RentPaid = 0
    BY <2>3, <2>4, <2>5, RentAssumption
  <2>7. InitialWallet * Cardinality(Keys) \in Int
    BY KeysFinite, FS_CardinalityType, RentAssumption
  <2>8. QED
    BY <2>1, <2>2, <2>6, <2>7 DEF LamportsConserved
<1>2. QED
  BY <1>1, ConservedStep, TypeCorrect, PTL DEF Spec

-----------------------------------------------------------------------------
(***************************************************************************)
(* The program implements the abstract escrow: each instruction is one of  *)
(* its operations on the mapped state, or leaves that state as it is.      *)
(***************************************************************************)

\* A step that keeps locked amounts and changes one vault by a credit.
LEMMA FundMapped ==
    ASSUME TypeOK, NEW u \in Users, NEW amount \in Lamports,
           UNCHANGED <<userAccount, lockAccount, signed>>,
           vault' = Credit(vault, u, amount)
    PROVE  escrow!Fund(u, amount)
<1>1. \A w \in Users : /\ LockedOf(w)' = LockedOf(w)
                       /\ NonceOf(w)' = NonceOf(w)
                       /\ Granted(w)' = Granted(w)
  BY DEF LockedOf, NonceOf, Registered, Granted
<1>2. \A w \in Users : vault'[w] = IF w = u THEN vault[w] + amount ELSE vault[w]
  BY DEF TypeOK, Credit
<1>3. \A w \in Users : Available(w)' = IF w = u THEN Available(w) + amount ELSE Available(w)
  BY <1>1, <1>2, ReadTypes, BoundsAssumption DEF Available, TypeOK, Lamports
<1>4. QED
  BY <1>1, <1>3 DEF escrow!Fund

LEMMA WithdrawMapped ==
    ASSUME TypeOK, NEW u \in Users, NEW amount \in Lamports, Withdraw(u, amount)
    PROVE  escrow!Reclaim(u, amount)
<1>1. \A w \in Users : /\ LockedOf(w)' = LockedOf(w)
                       /\ NonceOf(w)' = NonceOf(w)
                       /\ Granted(w)' = Granted(w)
  BY DEF Withdraw, LockedOf, NonceOf, Registered, Granted
<1>2. \A w \in Users : vault'[w] = IF w = u THEN vault[w] - amount ELSE vault[w]
  BY DEF Withdraw, TypeOK, Debit
<1>3. \A w \in Users : Available(w)' = IF w = u THEN Available(w) - amount ELSE Available(w)
  BY <1>1, <1>2, ReadTypes, BoundsAssumption DEF Available, TypeOK, Lamports
<1>4. amount <= Available(u)
  BY DEF Withdraw, CanSpend
<1>5. QED
  BY <1>1, <1>3, <1>4 DEF escrow!Reclaim, Withdraw

LEMMA SignMapped ==
    ASSUME TypeOK, NEW u \in Users, NEW deadline \in Times, Sign(u, deadline)
    PROVE  escrow!Grant(u)
<1>1. \A w \in Users : Available(w)' = Available(w) /\ NonceOf(w)' = NonceOf(w)
  BY DEF Sign, Available, LockedOf, NonceOf, Registered
<1>2. \A w \in Users : Granted(w)' = IF w = u THEN Granted(w) \cup {NonceOf(w)} ELSE Granted(w)
  <2> DEFINE new == [user |-> u, nonce |-> NonceOf(u), deadline |-> deadline]
  <2>1. signed' = signed \cup {new} /\ new.user = u /\ new.nonce = NonceOf(u)
    BY DEF Sign
  <2> HIDE DEF new
  <2>2. \A w \in Users : {s \in signed' : s.user = w}
          = {s \in signed : s.user = w} \cup (IF w = u THEN {new} ELSE {})
    BY <2>1
  <2>3. QED
    BY <2>1, <2>2 DEF Granted
<1>3. QED
  BY <1>1, <1>2 DEF escrow!Grant, Sign

\* A verified signature is a granted authorisation, and spending within what
\* is available takes the amount out of the mapped balance.
LEMMA UseNextMapped ==
    ASSUME TypeOK, NEW u \in Users, NEW amount \in Lamports, NEW sig \in signed,
           Verify(u, sig), CanSpend(u, amount), NonceOf(u) + 1 \in Nonces,
           UNCHANGED signed,
           \A w \in Users : /\ NonceOf(w)' = IF w = u THEN NonceOf(w) + 1 ELSE NonceOf(w)
                            /\ Available(w)' = IF w = u THEN Available(w) - amount
                                                        ELSE Available(w)
    PROVE  escrow!UseNext(u, amount)
<1>1. NonceOf(u) \in Granted(u)
  BY DEF Verify, SignedBy, Granted
<1>2. \A w \in Users : Granted(w)' = Granted(w)
  BY DEF Granted
<1>3. amount <= Available(u)
  BY DEF CanSpend
<1>4. QED
  BY <1>1, <1>2, <1>3 DEF escrow!UseNext

LEMMA LockMapped ==
    ASSUME TypeOK, NEW u \in Users, NEW signer \in Keys, NEW payer \in Keys,
           NEW sig \in signed, NEW amount \in Lamports,
           Lock(signer, payer, u, sig, amount)
    PROVE  escrow!Hold(u, amount)
<1>1. Effect(u, NonceOf(u) + 1, LockedOf(u) + amount) /\ UNCHANGED vault
  BY LockEffect DEF Lock
<1>2. \A w \in Users : /\ NonceOf(w)' = IF w = u THEN NonceOf(w) + 1 ELSE NonceOf(w)
                       /\ Available(w)' = IF w = u THEN Available(w) - amount ELSE Available(w)
  BY <1>1, ReadTypes, BoundsAssumption DEF Effect, Available, TypeOK, Lamports
<1>3. escrow!UseNext(u, amount)
  BY <1>2, UseNextMapped DEF Lock
<1>4. QED
  BY <1>3 DEF escrow!Hold, Lock

LEMMA PayMapped ==
    ASSUME TypeOK, NEW u \in Users, NEW signer \in Keys, NEW sig \in signed,
           NEW amount \in Lamports, Pay(signer, u, sig, amount)
    PROVE  escrow!Charge(u, amount)
<1>1. Effect(u, NonceOf(u) + 1, LockedOf(u)) /\ vault' = Debit(vault, u, amount)
  BY PayEffect DEF Pay
<1>2. \A w \in Users : /\ NonceOf(w)' = IF w = u THEN NonceOf(w) + 1 ELSE NonceOf(w)
                       /\ Available(w)' = IF w = u THEN Available(w) - amount ELSE Available(w)
  BY <1>1, ReadTypes, BoundsAssumption DEF Effect, Available, TypeOK, Lamports, Debit
<1>3. escrow!UseNext(u, amount)
  BY <1>2, UseNextMapped DEF Pay
<1>4. QED
  BY <1>3 DEF escrow!Charge, Pay

LEMMA SettleMapped ==
    ASSUME TypeOK, NEW u \in Users, NEW signer \in Keys, NEW payer \in Keys,
           NEW n \in Nonces, NEW amount \in Lamports,
           Settle(signer, payer, u, n, amount)
    PROVE  escrow!Release(u, n, amount)
<1>1. /\ Effect(u, NonceOf(u), LockedOf(u) - lockAccount[u][n])
      /\ vault' = Debit(vault, u, amount)
      /\ lockAccount[u][n] # NoLock /\ amount <= lockAccount[u][n]
      /\ lockAccount' = [lockAccount EXCEPT ![u][n] = NoLock]
  BY SettleEffect DEF Settle
<1>2. \A w \in Users : /\ NonceOf(w)' = NonceOf(w)
                       /\ Granted(w)' = Granted(w)
  BY <1>1 DEF Effect, Granted, Settle
<1>3. \A w \in Users : Available(w)' = IF w = u THEN Available(w) + (lockAccount[u][n] - amount)
                                                ELSE Available(w)
  BY <1>1, ReadTypes, BoundsAssumption DEF Effect, Available, TypeOK, Lamports, Debit
<1>4. QED
  BY <1>1, <1>2, <1>3 DEF escrow!Release

\* Register and the instructions of the authority do not touch what a user
\* has, holds, may spend or has granted.
LEMMA Stutter ==
    ASSUME UNCHANGED <<lockAccount, vault, signed>>,
           \A w \in Users : NonceOf(w)' = NonceOf(w) /\ LockedOf(w)' = LockedOf(w)
    PROVE  UNCHANGED escrow!escrowVars
BY DEF escrow!escrowVars, Available, Granted

\* Whatever the instructions do, an escrow could have done: funds are granted,
\* held, released and charged by its operations only.
THEOREM Refinement == Spec => ImplementsEscrow
<1>1. Init => escrow!EscrowInit
  <2> SUFFICES ASSUME Init PROVE escrow!EscrowInit
    OBVIOUS
  <2>1. \A u \in Users : Available(u) = 0 /\ NonceOf(u) = 0 /\ Granted(u) = {}
    BY DEF Init, Available, LockedOf, NonceOf, Registered, Granted
  <2>2. QED
    BY <2>1 DEF Init, escrow!EscrowInit
<1>2. TypeOK /\ [Next]_vars => [escrow!EscrowNext]_(escrow!escrowVars)
  <2> SUFFICES ASSUME TypeOK, [Next]_vars
               PROVE  escrow!EscrowNext \/ UNCHANGED escrow!escrowVars
    OBVIOUS
  <2>1. CASE UNCHANGED <<userAccount, lockAccount, vault, signed>>
    BY <2>1, Stutter DEF NonceOf, LockedOf, Registered
  <2>2. ASSUME NEW u \in Users, NEW payer \in Keys, Register(u, payer)
        PROVE  UNCHANGED escrow!escrowVars
    BY <2>2, RegisterEffect, Stutter DEF Register, Effect
  <2>3. ASSUME NEW u \in Users, NEW amount \in Lamports,
               \/ Deposit(u, amount)
               \/ \E k \in Keys : FundVault(k, u, amount)
        PROVE  escrow!EscrowNext
    BY <2>3, FundMapped DEF Deposit, FundVault, escrow!EscrowNext
  <2>4. ASSUME NEW u \in Users, NEW amount \in Lamports, Withdraw(u, amount)
        PROVE  escrow!EscrowNext
    BY <2>4, WithdrawMapped DEF escrow!EscrowNext
  <2>5. ASSUME NEW u \in Users, NEW signer \in Keys, NEW payer \in Keys,
               NEW sig \in signed, NEW amount \in Lamports,
               Lock(signer, payer, u, sig, amount)
        PROVE  escrow!EscrowNext
    BY <2>5, LockMapped DEF escrow!EscrowNext
  <2>6. ASSUME NEW u \in Users, NEW signer \in Keys, NEW payer \in Keys,
               NEW n \in Nonces, NEW amount \in Lamports,
               Settle(signer, payer, u, n, amount)
        PROVE  escrow!EscrowNext
    BY <2>6, SettleMapped DEF escrow!EscrowNext
  <2>7. ASSUME NEW u \in Users, NEW signer \in Keys, NEW sig \in signed,
               NEW amount \in Lamports, Pay(signer, u, sig, amount)
        PROVE  escrow!EscrowNext
    BY <2>7, PayMapped DEF escrow!EscrowNext
  <2>8. ASSUME NEW u \in Users, NEW deadline \in Times, Sign(u, deadline)
        PROVE  escrow!EscrowNext
    BY <2>8, SignMapped DEF escrow!EscrowNext
  <2>9. QED
    BY <2>1, <2>2, <2>3, <2>4, <2>5, <2>6, <2>7, <2>8
    DEF Next, Administration, UserInstruction, BotInstruction, Environment, vars,
        Initialize, SetBot, SetTreasury, Tick
<1>3. QED
  BY <1>1, <1>2, TypeCorrect, PTL DEF Spec, ImplementsEscrow, escrow!EscrowSpec
=============================================================================
