---------------------------- MODULE Client_proofs ----------------------------
(***************************************************************************)
(* Theorems about Client for any number of users and calls of the SDK,     *)
(* given up on or not, and for transactions that land at any time.         *)
(***************************************************************************)
EXTENDS Client, BalancePayment_proofs

-----------------------------------------------------------------------------
(***************************************************************************)
(* What the client puts into an instruction is what the program takes out, *)
(* if both list the same accounts and arguments, each once.                *)
(***************************************************************************)

Sent(name, accounts, key, args, value) ==
    Instruction(name, accounts, key, args, value, <<>>)

List(list) == \E n \in Nat : DOMAIN list = 1..n
\* At place p, and only there, stands this account or argument.
AccountAt(accounts, field, p) ==
    /\ p \in DOMAIN accounts
    /\ accounts[p] \in {Reads(field), Writes(field), Signs(field), SignsAndWrites(field)}
    /\ \A q \in DOMAIN accounts : accounts[q].account = field => q = p
ArgumentAt(args, field, p) ==
    /\ p \in DOMAIN args
    /\ \A q \in DOMAIN args : args[q] = field <=> q = p

LEMMA AccountArrives ==
    ASSUME NEW name, NEW accounts, NEW key, NEW args, NEW value, NEW field, NEW p,
           List(accounts), AccountAt(accounts, field, p)
    PROVE  Bound(Context(accounts, args), Sent(name, accounts, key, args, value), field)
               = key[field]
<1> DEFINE sent == [q \in DOMAIN accounts |-> [accounts[q] EXCEPT !.account = key[@]]]
           ix == Sent(name, accounts, key, args, value)
<1>1. accounts[p].account = field /\ Position(accounts, field) = p
  BY DEF Position, AccountAt, Meta, Reads, Writes, Signs, SignsAndWrites
<1>2. sent \o <<>> = sent
  <2>1. PICK n \in Nat : DOMAIN accounts = 1..n
    BY DEF List
  <2> DEFINE S == {sent[q] : q \in 1..n}
  <2>2. sent \in [1..n -> S]
    BY <2>1
  <2> HIDE DEF sent
  <2>3. QED
    BY <2>2
<1>3. ix.accounts = sent
  BY <1>2 DEF Sent, Instruction
<1>4. sent[p].account = key[field]
  BY <1>1 DEF AccountAt, Meta, Reads, Writes, Signs, SignsAndWrites
<1>5. QED
  BY <1>1, <1>3, <1>4 DEF Bound, Context

LEMMA ArgumentArrives ==
    ASSUME NEW name, NEW accounts, NEW key, NEW args, NEW value, NEW field, NEW p,
           List(args), ArgumentAt(args, field, p)
    PROVE  Received(Context(accounts, args), Sent(name, accounts, key, args, value), field)
               = value[field]
<1> DEFINE sent == [q \in DOMAIN args |-> value[args[q]]]
           ix == Sent(name, accounts, key, args, value)
<1>1. (CHOOSE q \in DOMAIN args : args[q] = field) = p /\ args[p] = field
  BY DEF ArgumentAt
<1>2. (<<name>> \o sent)[1 + p] = sent[p]
  <2>1. PICK n \in Nat : DOMAIN args = 1..n
    BY DEF List
  <2> DEFINE S == {sent[q] : q \in 1..n} \cup {name}
  <2>2. sent \in [1..n -> S] /\ sent \in Seq(S) /\ <<name>> \in Seq(S)
    BY <2>1
  <2>3. Len(sent) = n /\ Len(<<name>>) = 1 /\ p \in 1..n
    BY <2>1, <2>2 DEF ArgumentAt
  <2> HIDE DEF sent
  <2>4. QED
    BY <2>2, <2>3
<1>3. ix.data = <<name>> \o sent
  BY DEF Sent, Instruction
<1>4. sent[p] = value[field]
  BY <1>1 DEF ArgumentAt
<1>5. QED
  BY <1>1, <1>2, <1>3, <1>4 DEF Received, Context

LEMMA NameArrives ==
    ASSUME NEW name, NEW accounts, NEW key, NEW args, NEW value, List(args)
    PROVE  Sent(name, accounts, key, args, value).data[1] = name
<1> DEFINE sent == [q \in DOMAIN args |-> value[args[q]]]
<1>1. PICK n \in Nat : DOMAIN args = 1..n
  BY DEF List
<1> DEFINE S == {sent[q] : q \in 1..n} \cup {name}
<1>2. sent \in [1..n -> S] /\ sent \in Seq(S) /\ <<name>> \in Seq(S)
  BY <1>1
<1>3. Len(<<name>>) = 1 /\ <<name>>[1] = name
  OBVIOUS
<1> HIDE DEF sent
<1>4. (<<name>> \o sent)[1] = name
  BY <1>2, <1>3
<1>5. QED
  BY <1>4 DEF Sent, Instruction, sent

LEMMA LockArrives ==
    ASSUME NEW request
    PROVE  LET ix == LockInstruction(request)
           IN  /\ ix.data[1] = "lock"
               /\ Bound(LockContext, ix, "user") = request.user
               /\ Bound(LockContext, ix, "bot") = Bot
               /\ Bound(LockContext, ix, "payer") = Bot
               /\ Received(LockContext, ix, "recover_info") = request.sig
               /\ Received(LockContext, ix, "amount") = request.amount
<1>1. /\ List(LockAccounts)
      /\ AccountAt(LockAccounts, "user", 3)
      /\ AccountAt(LockAccounts, "bot", 6)
      /\ AccountAt(LockAccounts, "payer", 7)
  <2>1. DOMAIN LockAccounts = 1..8
    BY DEF LockAccounts
  <2>2. /\ LockAccounts[3] = Writes("user")
        /\ LockAccounts[6] = Signs("bot")
        /\ LockAccounts[7] = SignsAndWrites("payer")
    BY DEF LockAccounts
  <2>3. \A q \in 1..8 : /\ LockAccounts[q].account = "user" => q = 3
                        /\ LockAccounts[q].account = "bot" => q = 6
                        /\ LockAccounts[q].account = "payer" => q = 7
    BY DEF LockAccounts, Meta, Reads, Writes, Signs, SignsAndWrites
  <2>4. QED
    BY <2>1, <2>2, <2>3 DEF List, AccountAt
<1>2. /\ List(LockArgs)
      /\ ArgumentAt(LockArgs, "recover_info", 1)
      /\ ArgumentAt(LockArgs, "amount", 2)
  <2>1. DOMAIN LockArgs = 1..2
    BY DEF LockArgs
  <2>2. List(LockArgs)
    BY <2>1 DEF List
  <2>3. QED
    BY <2>2 DEF LockArgs, ArgumentAt
<1>3. LockContext = Context(LockAccounts, LockArgs)
  BY DEF LockContext, LockAccounts, LockArgs
<1> DEFINE key == [global_account |-> GlobalAddress, user_account |-> UserAddress(request.user),
                   user |-> request.user,
                   lock_account |-> LockAddress(request.user, request.seen.nonce),
                   vault |-> VaultAddress(request.user),
                   bot |-> Bot, payer |-> Bot, system_program |-> SystemProgram]
           value == [recover_info |-> request.sig, amount |-> request.amount]
           ix == LockInstruction(request)
<1>4. ix = Sent("lock", LockAccounts, key, LockArgs, value)
  BY DEF LockInstruction, Sent
<1>5. /\ key["user"] = request.user /\ key["bot"] = Bot /\ key["payer"] = Bot
      /\ value["recover_info"] = request.sig /\ value["amount"] = request.amount
  OBVIOUS
<1> HIDE DEF key, value
<1>6. Sent("lock", LockAccounts, key, LockArgs, value).data[1] = "lock"
  BY <1>2, NameArrives
<1> HIDE DEF ix
<1>7. ASSUME NEW field, NEW p, AccountAt(LockAccounts, field, p)
      PROVE  Bound(LockContext, ix, field) = key[field]
  <2>1. Bound(LockContext, Sent("lock", LockAccounts, key, LockArgs, value), field)
            = key[field]
    BY <1>1, <1>3, <1>7, AccountArrives
  <2>2. QED
    BY <1>4, <2>1
<1>8. ASSUME NEW field, NEW p, ArgumentAt(LockArgs, field, p)
      PROVE  Received(LockContext, ix, field) = value[field]
  <2>1. Received(LockContext, Sent("lock", LockAccounts, key, LockArgs, value), field)
            = value[field]
    BY <1>2, <1>3, <1>8, ArgumentArrives
  <2>2. QED
    BY <1>4, <2>1
<1>9. /\ Bound(LockContext, ix, "user") = key["user"]
      /\ Bound(LockContext, ix, "bot") = key["bot"]
      /\ Bound(LockContext, ix, "payer") = key["payer"]
  BY <1>1, <1>7
<1>10. /\ Received(LockContext, ix, "recover_info") = value["recover_info"]
       /\ Received(LockContext, ix, "amount") = value["amount"]
  BY <1>2, <1>8
<1>11. QED
  BY <1>4, <1>5, <1>6, <1>9, <1>10 DEF ix

LEMMA SettleArrives ==
    ASSUME NEW request
    PROVE  LET ix == SettleInstruction(request)
           IN  /\ ix.data[1] = "settle"
               /\ Bound(SettleContext, ix, "user") = request.user
               /\ Bound(SettleContext, ix, "bot") = Bot
               /\ Bound(SettleContext, ix, "payer") = Bot
               /\ Received(SettleContext, ix, "nonce") = request.nonce
               /\ Received(SettleContext, ix, "amount_to_transfer") = request.amount
<1>1. /\ List(SettleAccounts)
      /\ AccountAt(SettleAccounts, "user", 3)
      /\ AccountAt(SettleAccounts, "bot", 7)
      /\ AccountAt(SettleAccounts, "payer", 8)
  <2>1. DOMAIN SettleAccounts = 1..9
    BY DEF SettleAccounts
  <2>2. /\ SettleAccounts[3] = Writes("user")
        /\ SettleAccounts[7] = Signs("bot")
        /\ SettleAccounts[8] = SignsAndWrites("payer")
    BY DEF SettleAccounts
  <2>3. \A q \in 1..9 : /\ SettleAccounts[q].account = "user" => q = 3
                        /\ SettleAccounts[q].account = "bot" => q = 7
                        /\ SettleAccounts[q].account = "payer" => q = 8
    BY DEF SettleAccounts, Meta, Reads, Writes, Signs, SignsAndWrites
  <2>4. QED
    BY <2>1, <2>2, <2>3 DEF List, AccountAt
<1>2. /\ List(SettleArgs)
      /\ ArgumentAt(SettleArgs, "nonce", 1)
      /\ ArgumentAt(SettleArgs, "amount_to_transfer", 2)
  <2>1. DOMAIN SettleArgs = 1..2
    BY DEF SettleArgs
  <2>2. List(SettleArgs)
    BY <2>1 DEF List
  <2>3. QED
    BY <2>2 DEF SettleArgs, ArgumentAt
<1>3. SettleContext = Context(SettleAccounts, SettleArgs)
  BY DEF SettleContext, SettleAccounts, SettleArgs
<1> DEFINE key == [global_account |-> GlobalAddress, user_account |-> UserAddress(request.user),
                   user |-> request.user,
                   treasury |-> request.seen.treasury,
                   lock_account |-> LockAddress(request.user, request.nonce),
                   vault |-> VaultAddress(request.user),
                   bot |-> Bot, payer |-> Bot, system_program |-> SystemProgram]
           value == [nonce |-> request.nonce, amount_to_transfer |-> request.amount]
           ix == SettleInstruction(request)
<1>4. ix = Sent("settle", SettleAccounts, key, SettleArgs, value)
  BY DEF SettleInstruction, Sent
<1>5. /\ key["user"] = request.user /\ key["bot"] = Bot /\ key["payer"] = Bot
      /\ value["nonce"] = request.nonce /\ value["amount_to_transfer"] = request.amount
  OBVIOUS
<1> HIDE DEF key, value
<1>6. Sent("settle", SettleAccounts, key, SettleArgs, value).data[1] = "settle"
  BY <1>2, NameArrives
<1> HIDE DEF ix
<1>7. ASSUME NEW field, NEW p, AccountAt(SettleAccounts, field, p)
      PROVE  Bound(SettleContext, ix, field) = key[field]
  <2>1. Bound(SettleContext, Sent("settle", SettleAccounts, key, SettleArgs, value), field)
            = key[field]
    BY <1>1, <1>3, <1>7, AccountArrives
  <2>2. QED
    BY <1>4, <2>1
<1>8. ASSUME NEW field, NEW p, ArgumentAt(SettleArgs, field, p)
      PROVE  Received(SettleContext, ix, field) = value[field]
  <2>1. Received(SettleContext, Sent("settle", SettleAccounts, key, SettleArgs, value), field)
            = value[field]
    BY <1>2, <1>3, <1>8, ArgumentArrives
  <2>2. QED
    BY <1>4, <2>1
<1>9. /\ Bound(SettleContext, ix, "user") = key["user"]
      /\ Bound(SettleContext, ix, "bot") = key["bot"]
      /\ Bound(SettleContext, ix, "payer") = key["payer"]
  BY <1>1, <1>7
<1>10. /\ Received(SettleContext, ix, "nonce") = value["nonce"]
       /\ Received(SettleContext, ix, "amount_to_transfer") = value["amount_to_transfer"]
  BY <1>2, <1>8
<1>11. QED
  BY <1>4, <1>5, <1>6, <1>9, <1>10 DEF ix

LEMMA PayArrives ==
    ASSUME NEW request
    PROVE  LET ix == PayInstruction(request)
           IN  /\ ix.data[1] = "pay"
               /\ Bound(PayContext, ix, "user") = request.user
               /\ Bound(PayContext, ix, "bot") = Bot
               /\ Received(PayContext, ix, "recover_info") = request.sig
               /\ Received(PayContext, ix, "amount_to_transfer") = request.amount
<1>1. /\ List(PayAccounts)
      /\ AccountAt(PayAccounts, "user", 3)
      /\ AccountAt(PayAccounts, "bot", 6)
  <2>1. DOMAIN PayAccounts = 1..8
    BY DEF PayAccounts
  <2>2. PayAccounts[3] = Writes("user") /\ PayAccounts[6] = Signs("bot")
    BY DEF PayAccounts
  <2>3. \A q \in 1..8 : /\ PayAccounts[q].account = "user" => q = 3
                        /\ PayAccounts[q].account = "bot" => q = 6
    BY DEF PayAccounts, Meta, Reads, Writes, Signs, SignsAndWrites
  <2>4. QED
    BY <2>1, <2>2, <2>3 DEF List, AccountAt
<1>2. /\ List(PayArgs)
      /\ ArgumentAt(PayArgs, "recover_info", 1)
      /\ ArgumentAt(PayArgs, "amount_to_transfer", 2)
  <2>1. DOMAIN PayArgs = 1..2
    BY DEF PayArgs
  <2>2. List(PayArgs)
    BY <2>1 DEF List
  <2>3. QED
    BY <2>2 DEF PayArgs, ArgumentAt
<1>3. PayContext = Context(PayAccounts, PayArgs)
  BY DEF PayContext, PayAccounts, PayArgs
<1> DEFINE key == [global_account |-> GlobalAddress, user_account |-> UserAddress(request.user),
                   user |-> request.user,
                   vault |-> VaultAddress(request.user),
                   treasury |-> request.seen.treasury,
                   bot |-> Bot, payer |-> Bot, system_program |-> SystemProgram]
           value == [recover_info |-> request.sig, amount_to_transfer |-> request.amount]
           ix == PayInstruction(request)
<1>4. ix = Sent("pay", PayAccounts, key, PayArgs, value)
  BY DEF PayInstruction, Sent
<1>5. /\ key["user"] = request.user /\ key["bot"] = Bot
      /\ value["recover_info"] = request.sig /\ value["amount_to_transfer"] = request.amount
  OBVIOUS
<1> HIDE DEF key, value
<1>6. Sent("pay", PayAccounts, key, PayArgs, value).data[1] = "pay"
  BY <1>2, NameArrives
<1> HIDE DEF ix
<1>7. ASSUME NEW field, NEW p, AccountAt(PayAccounts, field, p)
      PROVE  Bound(PayContext, ix, field) = key[field]
  <2>1. Bound(PayContext, Sent("pay", PayAccounts, key, PayArgs, value), field)
            = key[field]
    BY <1>1, <1>3, <1>7, AccountArrives
  <2>2. QED
    BY <1>4, <2>1
<1>8. ASSUME NEW field, NEW p, ArgumentAt(PayArgs, field, p)
      PROVE  Received(PayContext, ix, field) = value[field]
  <2>1. Received(PayContext, Sent("pay", PayAccounts, key, PayArgs, value), field)
            = value[field]
    BY <1>2, <1>3, <1>8, ArgumentArrives
  <2>2. QED
    BY <1>4, <2>1
<1>9. /\ Bound(PayContext, ix, "user") = key["user"]
      /\ Bound(PayContext, ix, "bot") = key["bot"]
  BY <1>1, <1>7
<1>10. /\ Received(PayContext, ix, "recover_info") = value["recover_info"]
       /\ Received(PayContext, ix, "amount_to_transfer") = value["amount_to_transfer"]
  BY <1>2, <1>8
<1>11. QED
  BY <1>4, <1>5, <1>6, <1>9, <1>10 DEF ix
-----------------------------------------------------------------------------
(***************************************************************************)
(* The inductive invariant.  BalancePayment's IndInv holds because each    *)
(* step is one of the program or its world.  CallInv: a call names users   *)
(* and signatures there are, and asks for the vault only after the account *)
(* had its nonce.  TransactionInv: a transaction is the instruction of its *)
(* call as it stands.  LandedInv: the account has left behind the nonce of *)
(* every instruction that has landed, which is why none lands twice.       *)
(***************************************************************************)

UserRecords == [nonce : Nonces, locked_amount : Nat]

Request(r) ==
    /\ r = [fn |-> r.fn, user |-> r.user, nonce |-> r.nonce, amount |-> r.amount,
            sig |-> r.sig, step |-> r.step, seen |-> r.seen]
    /\ r.user \in Users
    /\ r.nonce \in Nonces
    /\ r.amount \in Amounts
    /\ r.sig \in GivenSignatures
    /\ r.step \in {"account", "vault", "read", "send", "confirm"} \cup Answers
    /\ r.step = "vault" => r.seen \in UserRecords /\ r.seen.nonce = r.nonce

CallInv ==
    /\ IndInv
    /\ global # NoGlobal
    /\ call = [c \in Calls |-> call[c]]
    /\ \A c \in Calls : call[c] = Unused \/ Request(call[c])

Carries(tx, r) ==
    /\ \E state \in {"flying", "landed"} :
           tx = [state |-> state, instruction |-> InstructionOf(r)]
    /\ r.fn \in {"lock", "settle", "pay"}
    /\ r.step \in {"confirm", "ok", "error"}

TransactionInv ==
    /\ transaction = [c \in Calls |-> transaction[c]]
    /\ \A c \in Calls : \/ /\ transaction[c] = NoTransaction
                           /\ call[c].step \notin {"confirm", "ok"}
                        \/ Request(call[c]) /\ Carries(transaction[c], call[c])

UsesNonce(c) ==
    /\ call[c].sig.nonce \in Nonces
    /\ call[c].sig.nonce < NonceOf(call[c].user)
ClosesLock(c) ==
    /\ call[c].nonce < NonceOf(call[c].user)
    /\ lockAccount[call[c].user][call[c].nonce] = NoLock

LandedInv ==
    /\ \A c \in Landed : /\ call[c].fn \in {"lock", "pay"} => UsesNonce(c)
                         /\ call[c].fn = "settle" => ClosesLock(c)
    /\ LandsOnce
    /\ LocksAreFound

ClientInv == CallInv /\ TransactionInv /\ LandedInv

\* An unused call is not a request, and a transaction is told from none.
LEMMA Told ==
    /\ \A r : Request(r) => r # Unused
    /\ \A tx, r : Carries(tx, r) => tx # NoTransaction
<1>1. ASSUME NEW r, Request(r), r = Unused PROVE FALSE
  BY <1>1 DEF Request, Unused, Answers
<1>2. ASSUME NEW tx, NEW r, Carries(tx, r), tx = NoTransaction PROVE FALSE
  BY <1>2 DEF Carries, NoTransaction
<1>3. QED
  BY <1>1, <1>2

\* The client reads the record that the program wrote.
LEMMA ReadsRecord ==
    ASSUME TypeOK, NEW u \in Users, Registered(u)
    PROVE  UserAccountRead(u) = userAccount[u] /\ userAccount[u] \in UserRecords
<1>1. userAccount[u] \in UserRecords
  BY DEF TypeOK, Registered, UserRecords
<1>2. UserAccountRead(u) = [f \in {"nonce", "locked_amount"} |-> userAccount[u][f]]
  <2>1. DOMAIN UserAccountData = 1..2 /\ UserAccountData[1] = "nonce"
        /\ UserAccountData[2] = "locked_amount" /\ UserAccountState = UserAccountData
    BY DEF UserAccountData, UserAccountState
  <2>2. {UserAccountData[p] : p \in DOMAIN UserAccountData} = {"nonce", "locked_amount"}
    BY <2>1
  <2>3. \A f \in {"nonce", "locked_amount"} :
            UserAccountData[CHOOSE p \in DOMAIN UserAccountData : UserAccountData[p] = f] = f
    BY <2>1
  <2>4. QED
    BY <2>1, <2>2, <2>3 DEF UserAccountRead, FromBytes
<1>3. QED
  BY <1>1, <1>2 DEF UserRecords
-----------------------------------------------------------------------------
\* Calls that are under way.

Moves(c, step, seen) ==
    call' = [d \in Calls |->
        IF d = c THEN [fn |-> call[c].fn, user |-> call[c].user, nonce |-> call[c].nonce,
                       amount |-> call[c].amount, sig |-> call[c].sig, step |-> step,
                       seen |-> seen]
                 ELSE call[d]]

\* A request with a transaction stays the same request.
SameRequests ==
    \A c \in Calls : transaction[c] # NoTransaction =>
        /\ call'[c].fn = call[c].fn
        /\ call'[c].user = call[c].user
        /\ call'[c].nonce = call[c].nonce
        /\ call'[c].sig = call[c].sig
        /\ call'[c].amount = call[c].amount

\* What an instruction is built from does not include the step of its call.
LEMMA SameInstruction ==
    ASSUME NEW r, NEW s, r.fn \in {"lock", "settle", "pay"},
           s.fn = r.fn, s.user = r.user, s.nonce = r.nonce, s.amount = r.amount,
           s.sig = r.sig, s.seen = r.seen
    PROVE  InstructionOf(s) = InstructionOf(r)
<1>1. /\ LockInstruction(s) = LockInstruction(r)
      /\ SettleInstruction(s) = SettleInstruction(r)
      /\ PayInstruction(s) = PayInstruction(r)
  BY DEF LockInstruction, SettleInstruction, PayInstruction
<1>2. QED
  BY <1>1 DEF InstructionOf

LEMMA MoveKeeps ==
    ASSUME CallInv, TransactionInv, NEW c \in Calls, NEW step, NEW seen,
           call[c] # Unused, Moves(c, step, seen), UNCHANGED <<vars, transaction>>,
           step \in {"account", "vault", "read", "send", "confirm"} \cup Answers,
           step = "vault" => seen \in UserRecords /\ seen.nonce = call[c].nonce,
           transaction[c] # NoTransaction =>
               seen = call[c].seen /\ step \in {"confirm", "ok", "error"},
           transaction[c] = NoTransaction => step \notin {"confirm", "ok"}
    PROVE  CallInv' /\ TransactionInv' /\ SameRequests
<1>1. Request(call[c]) /\ (\A d \in Calls \ {c} : call'[d] = call[d])
  BY DEF CallInv, Moves
<1>2. call'[c] = [fn |-> call[c].fn, user |-> call[c].user, nonce |-> call[c].nonce,
                  amount |-> call[c].amount, sig |-> call[c].sig, step |-> step, seen |-> seen]
  BY DEF Moves
<1>3. Request(call'[c])
  BY <1>1, <1>2 DEF Request
<1>4. call' = [d \in Calls |-> call'[d]]
  BY DEF Moves
<1>5. UNCHANGED <<global, userAccount, lockAccount, vault, wallet, signed, now>>
  BY DEF vars
<1>6. IndInv' /\ global' # NoGlobal
  BY <1>5 DEF CallInv, IndInv, TypeOK, FreshLockAddress, LocksFinite, LockedIsBacked, Solvent,
       RentInv, AllRentExempt, OpenLocks, NonceOf, LockedOf, Registered, LockedLamports
<1>7. \A d \in Calls : Request(call[d]) => (Request(call[d]))'
  <2>1. GivenSignatures' = GivenSignatures
    BY <1>5 DEF GivenSignatures
  <2>2. SUFFICES ASSUME NEW d \in Calls, Request(call[d]) PROVE (Request(call[d]))'
    OBVIOUS
  <2>3. CASE d = c
    BY <1>3, <2>1, <2>3 DEF Request
  <2>4. CASE d # c
    BY <1>1, <2>1, <2>2, <2>4 DEF Request
  <2>5. QED
    BY <2>3, <2>4
<1>8. CallInv'
  <2>1. \A d \in Calls : call'[d] = Unused \/ (Request(call[d]))'
    BY <1>1, <1>7 DEF CallInv
  <2>2. QED
    BY <1>4, <1>6, <2>1 DEF CallInv, Unused
<1>9. TransactionInv'
  <2>1. ASSUME NEW d \in Calls
        PROVE  \/ transaction'[d] = NoTransaction /\ call'[d].step \notin {"confirm", "ok"}
               \/ (Request(call[d]))' /\ Carries(transaction'[d], call'[d])
    <3>1. CASE d # c
      <4>1. call'[d] = call[d] /\ transaction'[d] = transaction[d]
        BY <1>1, <3>1
      <4>2. QED
        BY <1>7, <4>1 DEF TransactionInv
    <3>2. CASE d = c /\ transaction[c] = NoTransaction
      BY <1>2, <3>2
    <3>3. CASE d = c /\ transaction[c] # NoTransaction
      <4>1. Carries(transaction[c], call[c])
        BY <3>3 DEF TransactionInv
      <4>2. InstructionOf(call'[c]) = InstructionOf(call[c])
        BY <1>2, <3>3, <4>1, SameInstruction DEF Carries
      <4>3. Carries(transaction'[c], call'[c])
        BY <1>2, <3>3, <4>1, <4>2 DEF Carries
      <4>4. QED
        BY <1>1, <1>7, <3>3, <4>3
    <3>4. QED
      BY <3>1, <3>2, <3>3
  <2>2. QED
    BY <2>1 DEF TransactionInv, NoTransaction
<1>10. SameRequests
  BY <1>1, <1>2 DEF SameRequests
<1>11. QED
  BY <1>8, <1>9, <1>10

LEMMA NonceTypes ==
    /\ Nonces \subseteq Nat /\ 0 \in Nonces /\ Amounts \subseteq Lamports
    /\ Lamports \subseteq Nat /\ Users \subseteq Keys /\ Bot \in Keys
    /\ NoTransaction = [state |-> "none"]
BY BoundsAssumption, ClientAssumption DEF Nonces, Lamports, Keys, NoTransaction

\* A call that goes on to its next await, or answers, and has read nothing new.
LEMMA GoesMoves ==
    ASSUME CallInv, NEW c \in Calls, NEW step, call[c] # Unused, Goes(c, step)
    PROVE  Moves(c, step, call[c].seen) /\ UNCHANGED <<vars, transaction>>
<1>1. Request(call[c]) /\ call = [d \in Calls |-> call[d]]
  BY DEF CallInv
<1>2. call' = [call EXCEPT ![c].step = step]
  BY DEF Goes
<1>3. [call[c] EXCEPT !.step = step]
         = [fn |-> call[c].fn, user |-> call[c].user, nonce |-> call[c].nonce,
            amount |-> call[c].amount, sig |-> call[c].sig, step |-> step, seen |-> call[c].seen]
  BY <1>1 DEF Request
<1>4. call' = [d \in Calls |-> IF d = c THEN [call[c] EXCEPT !.step = step] ELSE call[d]]
  BY <1>1, <1>2
<1>5. QED
  BY <1>3, <1>4 DEF Moves, Goes

\* The same, with what the call has read.
Learns(c, step, seen) ==
    /\ call' = [call EXCEPT ![c].step = step, ![c].seen = seen]
    /\ UNCHANGED <<vars, transaction>>

LEMMA LearnsMoves ==
    ASSUME CallInv, NEW c \in Calls, NEW step, NEW seen, call[c] # Unused,
           Learns(c, step, seen)
    PROVE  Moves(c, step, seen) /\ UNCHANGED <<vars, transaction>>
<1>1. Request(call[c]) /\ call = [d \in Calls |-> call[d]]
  BY DEF CallInv
<1> DEFINE once == [call[c] EXCEPT !.step = step]
           twice == [once EXCEPT !.seen = seen]
<1>2. once = [fn |-> call[c].fn, user |-> call[c].user, nonce |-> call[c].nonce,
              amount |-> call[c].amount, sig |-> call[c].sig, step |-> step,
              seen |-> call[c].seen]
  BY <1>1 DEF Request
<1>3. twice = [fn |-> call[c].fn, user |-> call[c].user, nonce |-> call[c].nonce,
               amount |-> call[c].amount, sig |-> call[c].sig, step |-> step, seen |-> seen]
  <2> HIDE DEF once
  <2>1. QED
    BY <1>2
<1>4. call' = [d \in Calls |-> IF d = c THEN twice ELSE call[d]]
  BY <1>1 DEF Learns
<1> HIDE DEF twice
<1>5. QED
  BY <1>3, <1>4 DEF Moves, Learns

LEMMA CallStepKeeps ==
    ASSUME CallInv, TransactionInv, NEW c \in Calls,
           CheckAccount(c) \/ CheckVault(c) \/ ReadAccount(c) \/ Confirmed(c) \/ GivesUp(c)
    PROVE  CallInv' /\ TransactionInv' /\ SameRequests /\ UNCHANGED <<vars, transaction>>
<1>1. call[c] # Unused
  BY DEF Unused, CheckAccount, CheckVault, ReadAccount, Confirmed, GivesUp, At
<1>2. transaction[c] # NoTransaction => call[c].step \in {"confirm", "ok", "error"}
  BY DEF TransactionInv, Carries
<1>3. ASSUME NEW step, Goes(c, step), step \in {"refused", "eligible", "error", "ok"},
             transaction[c] # NoTransaction => step \in {"ok", "error"},
             step = "ok" => transaction[c] # NoTransaction
      PROVE  CallInv' /\ TransactionInv' /\ SameRequests /\ UNCHANGED <<vars, transaction>>
  <2>1. Moves(c, step, call[c].seen) /\ UNCHANGED <<vars, transaction>>
    BY <1>1, <1>3, GoesMoves
  <2>2. step \in {"account", "vault", "read", "send", "confirm"} \cup Answers
    BY <1>3 DEF Answers
  <2>3. QED
    BY <1>1, <1>3, <2>1, <2>2, MoveKeeps
<1>4. ASSUME NEW step, NEW seen, step \in {"vault", "send"},
             Learns(c, step, seen), call[c].step \in {"account", "read"},
             step = "vault" => seen \in UserRecords /\ seen.nonce = call[c].nonce
      PROVE  CallInv' /\ TransactionInv' /\ SameRequests /\ UNCHANGED <<vars, transaction>>
  <2>1. Moves(c, step, seen) /\ UNCHANGED <<vars, transaction>>
    BY <1>1, <1>4, LearnsMoves
  <2>2. transaction[c] = NoTransaction
    BY <1>2, <1>4
  <2>3. step \in {"account", "vault", "read", "send", "confirm"} \cup Answers
    BY <1>4
  <2>4. QED
    BY <1>1, <1>4, <2>1, <2>2, <2>3, MoveKeeps
<1>5. CASE CheckAccount(c)
  <2>1. call[c].step = "account" /\ transaction[c] = NoTransaction
    BY <1>2, <1>5 DEF CheckAccount, At
  <2>2. CASE Goes(c, "error")
    BY <1>3, <2>1, <2>2
  <2>3. CASE Goes(c, "refused")
    BY <1>3, <2>1, <2>3
  <2>4. CASE /\ Registered(call[c].user)
             /\ PassesAccount(c)
             /\ Learns(c, "vault", UserAccountRead(call[c].user))
    <3>1. call[c].user \in Users /\ TypeOK
      BY <1>1 DEF CallInv, Request, IndInv
    <3>2. UserAccountRead(call[c].user) \in UserRecords
      BY <2>4, <3>1, ReadsRecord
    <3>3. UserAccountRead(call[c].user).nonce = call[c].nonce
      BY <2>4 DEF PassesAccount
    <3>4. QED
      BY <1>4, <2>1, <2>4, <3>2, <3>3
  <2>5. QED
    BY <1>5, <2>2, <2>3, <2>4 DEF CheckAccount, Learns
<1>6. CASE CheckVault(c)
  <2>1. call[c].step = "vault" /\ transaction[c] = NoTransaction
    BY <1>2, <1>6 DEF CheckVault, At
  <2>2. Goes(c, "error") \/ Goes(c, "refused") \/ Goes(c, "eligible")
    BY <1>6 DEF CheckVault
  <2>3. QED
    BY <1>3, <2>1, <2>2
<1>7. CASE ReadAccount(c)
  <2>1. call[c].step = "read" /\ transaction[c] = NoTransaction
    BY <1>2, <1>7 DEF ReadAccount, At
  <2>2. CASE Goes(c, "error")
    BY <1>3, <2>1, <2>2
  <2>3. ASSUME NEW seen, Learns(c, "send", seen)
        PROVE  CallInv' /\ TransactionInv' /\ SameRequests /\ UNCHANGED <<vars, transaction>>
    BY <1>4, <2>1, <2>3
  <2>4. QED
    BY <1>7, <2>2, <2>3 DEF ReadAccount, Learns
<1>8. CASE Confirmed(c)
  <2>1. Goes(c, "ok") /\ transaction[c] # NoTransaction
    BY <1>8 DEF Confirmed, NoTransaction
  <2>2. QED
    BY <1>3, <2>1
<1>9. CASE GivesUp(c)
  <2>1. Goes(c, "error")
    BY <1>9 DEF GivesUp
  <2>2. QED
    BY <1>3, <2>1
<1>10. QED
  BY <1>5, <1>6, <1>7, <1>8, <1>9

\* A call begins as a request that has read nothing and sent nothing.
Starts(c, fn, u, nonce, amount, sig, step) ==
    /\ call[c] = Unused
    /\ call' = [call EXCEPT ![c] = [fn |-> fn, user |-> u, nonce |-> nonce,
           amount |-> amount, sig |-> sig, step |-> step, seen |-> Unused]]
    /\ UNCHANGED <<vars, transaction>>

LEMMA BeginStarts ==
    ASSUME NEW c \in Calls, CallBegins(c)
    PROVE  \E fn \in {"check_eligible", "lock", "settle", "pay"}, u \in Users, nonce \in Nonces,
               amount \in Amounts, sig \in GivenSignatures, step \in {"account", "read"} :
                   Starts(c, fn, u, nonce, amount, sig, step)
<1>1. \A fn, u, nonce, amount, sig :
          /\ CheckEligible(c, u, nonce, amount, sig)
             => Starts(c, "check_eligible", u, nonce, amount, sig, "account")
          /\ Begin(c, fn, u, nonce, amount, sig)
             => Starts(c, fn, u, nonce, amount, sig, "read")
  BY DEF CheckEligible, Begin, Starts
<1>2. 0 \in Nonces /\ Malformed \in GivenSignatures
  BY NonceTypes DEF GivenSignatures
<1>3. PICK u \in Users, amount \in Amounts :
          \/ \E sig \in GivenSignatures :
                 \/ \E nonce \in Nonces : CheckEligible(c, u, nonce, amount, sig)
                 \/ \E fn \in {"lock", "pay"} : Begin(c, fn, u, 0, amount, sig)
          \/ \E nonce \in Nonces : Begin(c, "settle", u, nonce, amount, Malformed)
  BY DEF CallBegins
<1>4. QED
  BY <1>1, <1>2, <1>3

LEMMA BeginKeeps ==
    ASSUME CallInv, TransactionInv, NEW c \in Calls, CallBegins(c)
    PROVE  CallInv' /\ TransactionInv' /\ SameRequests /\ UNCHANGED <<vars, transaction>>
<1>1. PICK fn \in {"check_eligible", "lock", "settle", "pay"}, u \in Users, nonce \in Nonces,
           amount \in Amounts, sig \in GivenSignatures, step \in {"account", "read"} :
               Starts(c, fn, u, nonce, amount, sig, step)
  BY BeginStarts
<1> DEFINE begun == [fn |-> fn, user |-> u, nonce |-> nonce, amount |-> amount,
                     sig |-> sig, step |-> step, seen |-> Unused]
<1>2. /\ call' = [d \in Calls |-> IF d = c THEN begun ELSE call[d]]
      /\ call' = [d \in Calls |-> call'[d]]
      /\ call'[c] = begun
      /\ \A d \in Calls \ {c} : call'[d] = call[d]
  BY <1>1 DEF CallInv, Starts
<1>3. UNCHANGED <<global, userAccount, lockAccount, vault, wallet, signed, now, transaction>>
  BY <1>1 DEF vars, Starts
<1>4. IndInv' /\ global' # NoGlobal /\ GivenSignatures' = GivenSignatures
  BY <1>3 DEF CallInv, IndInv, TypeOK, FreshLockAddress, LocksFinite, LockedIsBacked, Solvent,
       RentInv, AllRentExempt, OpenLocks, NonceOf, LockedOf, Registered, LockedLamports, GivenSignatures
<1>5. (Request(call[c]))'
  <2>1. (Request(begun))'
    BY <1>1, <1>4 DEF Request
  <2> HIDE DEF begun
  <2>2. QED
    BY <1>2, <2>1 DEF Request
<1>6. \A d \in Calls \ {c} : Request(call[d]) => (Request(call[d]))'
  BY <1>2, <1>4 DEF Request
<1>7. CallInv'
  <2>1. \A d \in Calls : call'[d] = Unused \/ (Request(call[d]))'
    BY <1>2, <1>5, <1>6 DEF CallInv
  <2>2. QED
    BY <1>2, <1>4, <2>1 DEF CallInv, Unused
<1>8. transaction[c] = NoTransaction
  BY <1>1, Told DEF TransactionInv, Starts
<1>9. TransactionInv'
  <2>1. call'[c].step \notin {"confirm", "ok"}
    BY <1>1, <1>2
  <2>2. ASSUME NEW d \in Calls \ {c}
        PROVE  \/ transaction'[d] = NoTransaction /\ call'[d].step \notin {"confirm", "ok"}
               \/ (Request(call[d]))' /\ Carries(transaction'[d], call'[d])
    BY <1>2, <1>3, <1>6 DEF TransactionInv
  <2>3. QED
    BY <1>3, <1>8, <2>1, <2>2 DEF TransactionInv, NoTransaction
<1>10. SameRequests
  BY <1>2, <1>8 DEF SameRequests
<1>11. QED
  BY <1>1, <1>7, <1>9, <1>10 DEF Starts

\* A transaction that is sent is the instruction of its call and flies.
LEMMA SendKeeps ==
    ASSUME CallInv, TransactionInv, NEW c \in Calls, Send(c)
    PROVE  /\ CallInv' /\ TransactionInv' /\ SameRequests /\ UNCHANGED vars
           /\ Landed' = Landed
<1>1. call[c].fn \in {"lock", "settle", "pay"} /\ call[c].step = "send" /\ call[c] # Unused
  BY DEF Send, At, Unused
<1>2. Request(call[c]) /\ transaction[c] = NoTransaction
  BY <1>1 DEF CallInv, TransactionInv, Carries
<1>3. Moves(c, "confirm", call[c].seen)
  <2>1. call' = [call EXCEPT ![c].step = "confirm"]
    BY DEF Send
  <2>2. [call[c] EXCEPT !.step = "confirm"]
         = [fn |-> call[c].fn, user |-> call[c].user, nonce |-> call[c].nonce,
            amount |-> call[c].amount, sig |-> call[c].sig, step |-> "confirm",
            seen |-> call[c].seen]
    BY <1>2 DEF Request
  <2>3. call' = [d \in Calls |-> IF d = c THEN [call[c] EXCEPT !.step = "confirm"] ELSE call[d]]
    BY <2>1 DEF CallInv
  <2>4. QED
    BY <2>2, <2>3 DEF Moves
<1>4. /\ call' = [d \in Calls |-> call'[d]]
      /\ call'[c] = [fn |-> call[c].fn, user |-> call[c].user, nonce |-> call[c].nonce,
                     amount |-> call[c].amount, sig |-> call[c].sig, step |-> "confirm",
                     seen |-> call[c].seen]
      /\ \A d \in Calls \ {c} : call'[d] = call[d]
  BY <1>3 DEF Moves
<1> DEFINE sent == [state |-> "flying", instruction |-> InstructionOf(call[c])]
<1>5. /\ transaction' = [d \in Calls |-> IF d = c THEN sent ELSE transaction[d]]
      /\ transaction' = [d \in Calls |-> transaction'[d]]
      /\ transaction'[c] = sent
      /\ \A d \in Calls \ {c} : transaction'[d] = transaction[d]
  BY DEF Send, TransactionInv
<1>6. UNCHANGED <<global, userAccount, lockAccount, vault, wallet, signed, now>>
  BY DEF Send, vars
<1>7. IndInv' /\ global' # NoGlobal /\ GivenSignatures' = GivenSignatures
  BY <1>6 DEF CallInv, IndInv, TypeOK, FreshLockAddress, LocksFinite, LockedIsBacked, Solvent,
       RentInv, AllRentExempt, OpenLocks, NonceOf, LockedOf, Registered, LockedLamports, GivenSignatures
<1>8. (Request(call[c]))'
  BY <1>2, <1>4, <1>7 DEF Request
<1>9. \A d \in Calls \ {c} : Request(call[d]) => (Request(call[d]))'
  BY <1>4, <1>7 DEF Request
<1>10. CallInv'
  <2>1. \A d \in Calls : call'[d] = Unused \/ (Request(call[d]))'
    BY <1>4, <1>8, <1>9 DEF CallInv
  <2>2. QED
    BY <1>4, <1>7, <2>1 DEF CallInv, Unused
<1>11. Carries(transaction'[c], call'[c])
  <2>1. InstructionOf(call'[c]) = InstructionOf(call[c])
    BY <1>1, <1>4, SameInstruction
  <2>2. QED
    BY <1>1, <1>4, <1>5, <2>1 DEF Carries
<1>12. TransactionInv'
  <2>1. ASSUME NEW d \in Calls \ {c}
        PROVE  \/ transaction'[d] = NoTransaction /\ call'[d].step \notin {"confirm", "ok"}
               \/ (Request(call[d]))' /\ Carries(transaction'[d], call'[d])
    BY <1>4, <1>5, <1>9 DEF TransactionInv
  <2>2. QED
    BY <1>5, <1>8, <1>11, <2>1 DEF TransactionInv, NoTransaction
<1>13. SameRequests
  BY <1>4, <1>2 DEF SameRequests
<1>14. Landed' = Landed
  BY <1>2, <1>5 DEF Landed, NoTransaction
<1>15. QED
  BY <1>10, <1>12, <1>13, <1>14 DEF Send
-----------------------------------------------------------------------------
\* Transactions that land.

\* The program runs what the call has asked for, on the signature it was given.
Runs(c) ==
    LET u == call[c].user
        sig == call[c].sig
        amount == call[c].amount
    IN  \/ call[c].fn = "lock" /\ sig \in signed /\ Lock(Bot, Bot, u, sig, amount)
        \/ call[c].fn = "settle" /\ Settle(Bot, Bot, u, call[c].nonce, amount)
        \/ call[c].fn = "pay" /\ sig \in signed /\ Pay(Bot, u, sig, amount)

LEMMA LandRuns ==
    ASSUME CallInv, TransactionInv, NEW c \in Calls, Land(c)
    PROVE  Runs(c) /\ Request(call[c]) /\ transaction[c].state = "flying"
<1> DEFINE ix == InstructionOf(call[c])
<1>1. /\ Request(call[c]) /\ transaction[c].state = "flying"
      /\ transaction[c].instruction = ix
      /\ call[c].fn \in {"lock", "settle", "pay"}
  BY DEF Land, TransactionInv, NoTransaction, Carries
<1>2. \A u \in Users, sig \in GivenSignatures : Verify(u, sig) => sig \in signed
  BY NonceTypes, ClientAssumption DEF Verify, SignedBy, GivenSignatures, Malformed
<1>3. \/ ix.data[1] = "lock" /\ RunLock(ix)
      \/ ix.data[1] = "settle" /\ RunSettle(ix)
      \/ ix.data[1] = "pay" /\ RunPay(ix)
  BY <1>1 DEF Land
<1>4. CASE call[c].fn = "lock"
  <2>1. ix = LockInstruction(call[c])
    BY <1>4, Zenon DEF InstructionOf
  <2> HIDE DEF ix
  <2>2. /\ ix.data[1] = "lock"
        /\ Bound(LockContext, ix, "user") = call[c].user
        /\ Bound(LockContext, ix, "bot") = Bot
        /\ Bound(LockContext, ix, "payer") = Bot
        /\ Received(LockContext, ix, "recover_info") = call[c].sig
        /\ Received(LockContext, ix, "amount") = call[c].amount
    BY <2>1, LockArrives
  <2>3. Lock(Bot, Bot, call[c].user, call[c].sig, call[c].amount)
    BY <1>3, <2>2 DEF RunLock
  <2>4. call[c].sig \in signed
    BY <1>1, <1>2, <2>3 DEF Lock, Request
  <2>5. QED
    BY <1>1, <1>4, <2>3, <2>4 DEF Runs
<1>5. CASE call[c].fn = "settle"
  <2>1. ix = SettleInstruction(call[c])
    BY <1>5, Zenon DEF InstructionOf
  <2> HIDE DEF ix
  <2>2. /\ ix.data[1] = "settle"
        /\ Bound(SettleContext, ix, "user") = call[c].user
        /\ Bound(SettleContext, ix, "bot") = Bot
        /\ Bound(SettleContext, ix, "payer") = Bot
        /\ Received(SettleContext, ix, "nonce") = call[c].nonce
        /\ Received(SettleContext, ix, "amount_to_transfer") = call[c].amount
    BY <2>1, SettleArrives
  <2>3. Settle(Bot, Bot, call[c].user, call[c].nonce, call[c].amount)
    BY <1>3, <2>2 DEF RunSettle
  <2>4. QED
    BY <1>1, <1>5, <2>3 DEF Runs
<1>6. CASE call[c].fn = "pay"
  <2>1. ix = PayInstruction(call[c])
    BY <1>6, Zenon DEF InstructionOf
  <2> HIDE DEF ix
  <2>2. /\ ix.data[1] = "pay"
        /\ Bound(PayContext, ix, "user") = call[c].user
        /\ Bound(PayContext, ix, "bot") = Bot
        /\ Received(PayContext, ix, "recover_info") = call[c].sig
        /\ Received(PayContext, ix, "amount_to_transfer") = call[c].amount
    BY <2>1, PayArrives
  <2>3. Pay(Bot, call[c].user, call[c].sig, call[c].amount)
    BY <1>3, <2>2 DEF RunPay
  <2>4. call[c].sig \in signed
    BY <1>1, <1>2, <2>3 DEF Pay, Request
  <2>5. QED
    BY <1>1, <1>6, <2>3, <2>4 DEF Runs
<1>7. QED
  BY <1>1, <1>4, <1>5, <1>6

\* What the program runs is one of its instructions.
LEMMA RunsNext ==
    ASSUME NEW c \in Calls, Request(call[c]), Runs(c)
    PROVE  Next
<1>1. /\ Bot \in Keys /\ call[c].user \in Users
      /\ call[c].amount \in Lamports /\ call[c].nonce \in Nonces
  BY NonceTypes DEF Request
<1>2. BotInstruction(call[c].user)
  BY <1>1 DEF Runs, BotInstruction
<1>3. QED
  BY <1>1, <1>2 DEF Next

LEMMA StaysInitialised ==
    ASSUME TypeOK, global # NoGlobal, [Next]_vars
    PROVE  global' # NoGlobal
<1>1. CASE UNCHANGED global
  BY <1>1
<1>2. ASSUME NEW signer \in Keys, NEW key \in Keys,
             SetBot(signer, key) \/ SetTreasury(signer, key)
      PROVE  global' # NoGlobal
  <2>1. global' \in [authority : Keys, bot : Keys, treasury : Keys]
    BY <1>2 DEF SetBot, SetTreasury, TypeOK
  <2>2. QED
    BY <2>1, NoneAssumption
<1>3. QED
  BY <1>1, <1>2 DEF Next, Administration, UserInstruction, BotInstruction, Environment, vars,
       Initialize, Register, Deposit, Withdraw, Lock, Settle, Pay, Sign, FundVault, Tick

\* A step of the program or its world that leaves the calls alone.
LEMMA WorldKeeps ==
    ASSUME CallInv, [Next]_vars, UNCHANGED call, signed \subseteq signed'
    PROVE  CallInv' /\ (\A c \in Calls : Request(call[c]) => (Request(call[c]))')
<1>1. IndInv' /\ global' # NoGlobal
  BY StepIndInv, StaysInitialised DEF CallInv, IndInv
<1>2. \A c \in Calls : Request(call[c]) => (Request(call[c]))'
  <2>1. GivenSignatures \subseteq GivenSignatures'
    BY DEF GivenSignatures
  <2>2. QED
    BY <2>1 DEF Request
<1>3. QED
  BY <1>1, <1>2 DEF CallInv, Unused

LEMMA LandKeeps ==
    ASSUME CallInv, TransactionInv, NEW c \in Calls, Land(c)
    PROVE  /\ CallInv' /\ TransactionInv' /\ Next
           /\ Landed' = Landed \cup {c} /\ c \notin Landed
<1>1. Runs(c) /\ Request(call[c]) /\ transaction[c].state = "flying"
  BY LandRuns
<1>2. Next /\ signed' = signed
  BY <1>1, RunsNext DEF Runs, Lock, Settle, Pay
<1>3. UNCHANGED call
  BY DEF Land
<1>4. CallInv' /\ (\A d \in Calls : Request(call[d]) => (Request(call[d]))')
  BY <1>2, <1>3, WorldKeeps
<1>5. transaction[c] # NoTransaction /\ Carries(transaction[c], call[c])
  BY <1>1 DEF TransactionInv, NoTransaction
<1> DEFINE landed == [state |-> "landed", instruction |-> InstructionOf(call[c])]
<1>6. [transaction[c] EXCEPT !.state = "landed"] = landed
  BY <1>5 DEF Carries
<1>7. /\ transaction' = [d \in Calls |->
             IF d = c THEN [transaction[c] EXCEPT !.state = "landed"] ELSE transaction[d]]
      /\ transaction' = [d \in Calls |-> transaction'[d]]
      /\ \A d \in Calls \ {c} : transaction'[d] = transaction[d]
  BY DEF Land, TransactionInv
<1>8. transaction'[c] = landed
  BY <1>6, <1>7
<1>9. Carries(transaction'[c], call'[c])
  BY <1>3, <1>5, <1>8 DEF Carries
<1>10. TransactionInv'
  <2>1. ASSUME NEW d \in Calls \ {c}
        PROVE  \/ transaction'[d] = NoTransaction /\ call'[d].step \notin {"confirm", "ok"}
               \/ (Request(call[d]))' /\ Carries(transaction'[d], call'[d])
    BY <1>3, <1>4, <1>7 DEF TransactionInv
  <2>2. QED
    BY <1>1, <1>4, <1>7, <1>9, <2>1 DEF TransactionInv, NoTransaction
<1>11. Landed' = Landed \cup {c} /\ c \notin Landed
  BY <1>1, <1>7, <1>8 DEF Landed
<1>12. QED
  BY <1>2, <1>4, <1>10, <1>11
-----------------------------------------------------------------------------
\* What has landed.

LEMMA LandedRequests ==
    ASSUME CallInv, TransactionInv, NEW c \in Landed
    PROVE  /\ c \in Calls /\ Request(call[c]) /\ transaction[c] # NoTransaction
           /\ call[c].fn \in {"lock", "settle", "pay"}
           /\ call[c].user \in Users /\ call[c].nonce \in Nonces
           /\ call[c].sig.nonce \in Nonces
<1>1. c \in Calls /\ transaction[c].state = "landed"
  BY DEF Landed
<1>2. transaction[c] # NoTransaction
  BY <1>1 DEF NoTransaction
<1>3. Request(call[c]) /\ call[c].fn \in {"lock", "settle", "pay"}
  BY <1>1, <1>2 DEF TransactionInv, Carries
<1>4. call[c].sig.nonce \in Nonces
  BY <1>3, NonceTypes DEF Request, GivenSignatures, Malformed, CallInv, IndInv, TypeOK, Signatures
<1>5. QED
  BY <1>1, <1>2, <1>3, <1>4 DEF Request

\* The two ways of naming one authority.
BothUse(c, d) ==
    call[c].fn \in {"lock", "pay"} /\ call[d].fn \in {"lock", "pay"}
      /\ call[c].sig.nonce = call[d].sig.nonce
BothClose(c, d) ==
    call[c].fn = "settle" /\ call[d].fn = "settle" /\ call[c].nonce = call[d].nonce

LEMMA Authority ==
    ASSUME NEW c, NEW d
    PROVE  /\ SameAuthority(c, d) <=>
                  call[c].user = call[d].user /\ (BothUse(c, d) \/ BothClose(c, d))
           /\ SameAuthority(c, d) <=> SameAuthority(d, c)
BY DEF SameAuthority, BothUse, BothClose

\* A step that moves no account and lands nothing.
LEMMA NothingLands ==
    ASSUME CallInv, TransactionInv, LandedInv, SameRequests, Landed' = Landed,
           UNCHANGED <<userAccount, lockAccount>>
    PROVE  LandedInv'
<1>1. \A c \in Landed : /\ call'[c].fn = call[c].fn
                        /\ call'[c].user = call[c].user
                        /\ call'[c].nonce = call[c].nonce
                        /\ call'[c].sig = call[c].sig
                        /\ call'[c].amount = call[c].amount
  BY LandedRequests DEF SameRequests
<1>2. \A u \in Users : NonceOf(u)' = NonceOf(u)
  BY DEF NonceOf, Registered
<1>3. \A c \in Landed : /\ call'[c].fn \in {"lock", "pay"} => UsesNonce(c)'
                        /\ call'[c].fn = "settle" => ClosesLock(c)'
  BY <1>1, <1>2, LandedRequests DEF LandedInv, UsesNonce, ClosesLock
<1>4. LandsOnce'
  <2>1. \A c, d \in Landed : SameAuthority(c, d)' => SameAuthority(c, d)
    <3>1. SUFFICES ASSUME NEW c \in Landed, NEW d \in Landed, SameAuthority(c, d)'
                   PROVE  SameAuthority(c, d)
      OBVIOUS
    <3>2. /\ call'[c].fn = call[c].fn /\ call'[d].fn = call[d].fn
          /\ call'[c].user = call[c].user /\ call'[d].user = call[d].user
          /\ call'[c].nonce = call[c].nonce /\ call'[d].nonce = call[d].nonce
          /\ call'[c].sig = call[c].sig /\ call'[d].sig = call[d].sig
      BY <1>1
    <3>3. QED
      BY <3>1, <3>2 DEF SameAuthority
  <2>2. QED
    BY <2>1 DEF LandedInv, LandsOnce
<1>5. LocksAreFound'
  BY <1>1 DEF LandedInv, LocksAreFound, Settled
<1>6. QED
  BY <1>3, <1>4, <1>5 DEF LandedInv

\* A lock or payment that lands uses the nonce up, which nothing that has
\* landed before names.
LEMMA UseLands ==
    ASSUME CallInv, TransactionInv, LandedInv, NEW c \in Calls, Request(call[c]),
           Landed' = Landed \cup {c}, c \notin Landed, UNCHANGED call,
           call[c].fn \in {"lock", "pay"}, call[c].sig.nonce = NonceOf(call[c].user),
           \A u \in Users : NonceOf(u)' =
               IF u = call[c].user THEN NonceOf(u) + 1 ELSE NonceOf(u),
           \A u \in Users, n \in Nonces : lockAccount'[u][n] =
               IF call[c].fn = "lock" /\ u = call[c].user /\ n = NonceOf(u) THEN call[c].amount
               ELSE lockAccount[u][n]
    PROVE  LandedInv'
<1>1. /\ \A u \in Users : NonceOf(u) \in Nat /\ NonceOf(u) \in Nonces
      /\ Nonces \subseteq Nat /\ call[c].user \in Users
  BY ReadTypes, NonceTypes DEF CallInv, IndInv, Request
<1>2. \A d \in Landed : /\ call[d].fn \in {"lock", "settle", "pay"}
                        /\ call[d].user \in Users /\ call[d].nonce \in Nonces
                        /\ call[d].sig.nonce \in Nonces
  BY LandedRequests
<1>3. \A d \in Landed :
          /\ call[d].fn \in {"lock", "pay"} => call[d].sig.nonce < NonceOf(call[d].user)
          /\ call[d].fn = "settle" => call[d].nonce < NonceOf(call[d].user)
  BY DEF LandedInv, UsesNonce, ClosesLock
<1>4. \A d \in Landed : /\ call[d].fn \in {"lock", "pay"} => UsesNonce(d)'
                        /\ call[d].fn = "settle" => ClosesLock(d)'
  <2>1. SUFFICES ASSUME NEW d \in Landed
                 PROVE  /\ call[d].fn \in {"lock", "pay"} => UsesNonce(d)'
                        /\ call[d].fn = "settle" => ClosesLock(d)'
    OBVIOUS
  <2>2. PICK u \in Users, n \in Nonces, m \in Nonces :
            u = call[d].user /\ n = call[d].nonce /\ m = call[d].sig.nonce
    BY <1>2
  <2>3. NonceOf(u) \in Nat /\ NonceOf(u)' \in Nat /\ NonceOf(u) <= NonceOf(u)'
    BY <1>1
  <2>4. CASE call[d].fn \in {"lock", "pay"}
    <3>1. m < NonceOf(u) /\ m \in Nat
      BY <1>1, <1>3, <2>2, <2>4
    <3>2. m < NonceOf(u)'
      BY <2>3, <3>1
    <3>3. QED
      BY <2>2, <2>4, <3>2 DEF UsesNonce
  <2>5. CASE call[d].fn = "settle"
    <3>1. n < NonceOf(u) /\ n \in Nat /\ lockAccount[u][n] = NoLock
      BY <1>1, <1>3, <2>2, <2>5 DEF LandedInv, ClosesLock
    <3>2. n < NonceOf(u)' /\ n # NonceOf(u)
      BY <2>3, <3>1
    <3>3. lockAccount'[u][n] = NoLock
      BY <3>1, <3>2
    <3>4. QED
      BY <2>2, <2>5, <3>2, <3>3 DEF ClosesLock
  <2>6. QED
    BY <1>2, <2>4, <2>5
<1>5. UsesNonce(c)'
  BY <1>1 DEF UsesNonce
<1>6. LandsOnce'
  <2>1. \A d \in Landed : ~SameAuthority(c, d) /\ ~SameAuthority(d, c)
    <3>1. SUFFICES ASSUME NEW d \in Landed, call[c].user = call[d].user,
                          BothUse(c, d) \/ BothClose(c, d)
                   PROVE  FALSE
      BY Authority
    <3>2. call[d].fn \in {"lock", "pay"} /\ call[d].sig.nonce = NonceOf(call[d].user)
      BY <3>1 DEF BothUse, BothClose
    <3>3. QED
      BY <1>1, <1>2, <1>3, <3>2
  <2>2. ASSUME NEW d \in Landed', NEW e \in Landed', d # e PROVE ~SameAuthority(d, e)
    BY <2>1, <2>2 DEF LandedInv, LandsOnce
  <2>3. \A d, e : SameAuthority(d, e)' <=> SameAuthority(d, e)
    BY DEF SameAuthority
  <2>4. QED
    BY <2>2, <2>3 DEF LandsOnce
<1>7. LocksAreFound'
  <2>1. ASSUME NEW d \in Landed, call[d].fn = "lock"
        PROVE  lockAccount'[call[d].user][call[d].sig.nonce]
                   = IF Settled(d)' THEN NoLock ELSE call[d].amount
    <3>1. Settled(d)' = Settled(d)
      BY DEF Settled
    <3>2. lockAccount'[call[d].user][call[d].sig.nonce]
              = lockAccount[call[d].user][call[d].sig.nonce]
      <4>1. PICK u \in Users, n \in Nonces : u = call[d].user /\ n = call[d].sig.nonce
        BY <1>2
      <4>2. n < NonceOf(u) /\ n \in Nat /\ NonceOf(u) \in Nat
        BY <1>1, <1>3, <2>1, <4>1
      <4>3. lockAccount'[u][n] = lockAccount[u][n]
        BY <4>2
      <4>4. QED
        BY <4>1, <4>3
    <3>3. QED
      BY <2>1, <3>1, <3>2 DEF LandedInv, LocksAreFound
  <2>2. ASSUME call[c].fn = "lock"
        PROVE  lockAccount'[call[c].user][call[c].sig.nonce]
                   = IF Settled(c)' THEN NoLock ELSE call[c].amount
    <3>1. ~Settled(c)'
      BY <1>1, <1>2, <1>3 DEF Settled
    <3>2. QED
      BY <1>1, <2>2, <3>1
  <2>3. QED
    BY <2>1, <2>2 DEF LocksAreFound
<1>8. QED
  BY <1>4, <1>5, <1>6, <1>7 DEF LandedInv

\* A settle that lands closes a lock, which no settle before it has closed.
LEMMA SettleLands ==
    ASSUME CallInv, TransactionInv, LandedInv, NEW c \in Calls, Request(call[c]),
           Landed' = Landed \cup {c}, c \notin Landed, UNCHANGED call,
           call[c].fn = "settle", lockAccount[call[c].user][call[c].nonce] # NoLock,
           \A u \in Users : NonceOf(u)' = NonceOf(u),
           \A u \in Users, n \in Nonces : lockAccount'[u][n] =
               IF u = call[c].user /\ n = call[c].nonce THEN NoLock ELSE lockAccount[u][n]
    PROVE  LandedInv'
<1>1. call[c].user \in Users /\ call[c].nonce \in Nonces
  BY DEF Request
<1>2. call[c].nonce < NonceOf(call[c].user)
  BY <1>1 DEF CallInv, IndInv, FreshLockAddress, OpenLocks
<1>3. \A d \in Landed : /\ call[d].fn \in {"lock", "settle", "pay"}
                        /\ call[d].user \in Users /\ call[d].nonce \in Nonces
                        /\ call[d].sig.nonce \in Nonces
  BY LandedRequests
<1>4. \A d \in Landed : /\ call[d].fn \in {"lock", "pay"} => UsesNonce(d)'
                        /\ call[d].fn = "settle" => ClosesLock(d)'
  BY <1>3 DEF LandedInv, UsesNonce, ClosesLock
<1>5. ClosesLock(c)'
  BY <1>1, <1>2 DEF ClosesLock
<1>6. LandsOnce'
  <2>1. \A d \in Landed : ~SameAuthority(c, d) /\ ~SameAuthority(d, c)
    <3>1. SUFFICES ASSUME NEW d \in Landed, call[c].user = call[d].user,
                          BothUse(c, d) \/ BothClose(c, d)
                   PROVE  FALSE
      BY Authority
    <3>2. call[d].fn = "settle" /\ call[d].nonce = call[c].nonce
      BY <3>1 DEF BothUse, BothClose
    <3>3. QED
      BY <3>1, <3>2 DEF LandedInv, ClosesLock
  <2>2. ASSUME NEW d \in Landed', NEW e \in Landed', d # e PROVE ~SameAuthority(d, e)
    BY <2>1, <2>2 DEF LandedInv, LandsOnce
  <2>3. \A d, e : SameAuthority(d, e)' <=> SameAuthority(d, e)
    BY DEF SameAuthority
  <2>4. QED
    BY <2>2, <2>3 DEF LandsOnce
<1>7. LocksAreFound'
  <2>1. ASSUME NEW d \in Landed, call[d].fn = "lock"
        PROVE  lockAccount'[call[d].user][call[d].sig.nonce]
                   = IF Settled(d)' THEN NoLock ELSE call[d].amount
    <3>1. lockAccount[call[d].user][call[d].sig.nonce]
              = IF Settled(d) THEN NoLock ELSE call[d].amount
      BY <2>1 DEF LandedInv, LocksAreFound
    <3>2. CASE call[d].user = call[c].user /\ call[d].sig.nonce = call[c].nonce
      <4>1. Settled(d)'
        BY <3>2 DEF Settled
      <4>2. QED
        BY <1>1, <3>2, <4>1
    <3>3. CASE ~(call[d].user = call[c].user /\ call[d].sig.nonce = call[c].nonce)
      <4>1. Settled(d)' = Settled(d)
        BY <3>3 DEF Settled
      <4>2. QED
        BY <1>3, <3>1, <3>3, <4>1
    <3>4. QED
      BY <3>2, <3>3
  <2>2. QED
    BY <2>1 DEF LocksAreFound
<1>8. QED
  BY <1>4, <1>5, <1>6, <1>7 DEF LandedInv

LEMMA LandKeepsLanded ==
    ASSUME CallInv, TransactionInv, LandedInv, NEW c \in Calls, Land(c)
    PROVE  LandedInv'
<1>1. Runs(c) /\ Request(call[c])
  BY LandRuns
<1>2. Landed' = Landed \cup {c} /\ c \notin Landed /\ UNCHANGED call
  BY LandKeeps DEF Land
<1>3. PICK u \in Users, n \in Nonces, amount \in Lamports, sig \in GivenSignatures :
          u = call[c].user /\ n = call[c].nonce /\ amount = call[c].amount /\ sig = call[c].sig
  BY <1>1, NonceTypes DEF Request
<1>4. /\ TypeOK /\ Bot \in Keys /\ lockAccount \in [Users -> [Nonces -> Lamports \cup {NoLock}]]
      /\ NonceOf(u) \in Nonces
  BY NonceTypes, ReadTypes DEF CallInv, IndInv, TypeOK
<1>5. CASE call[c].fn = "lock" /\ sig \in signed /\ Lock(Bot, Bot, u, sig, amount)
  <2>1. Effect(u, NonceOf(u) + 1, LockedOf(u) + amount)
    BY <1>4, <1>5, LockEffect
  <2>2. \A w \in Users : NonceOf(w)' = IF w = u THEN NonceOf(w) + 1 ELSE NonceOf(w)
    BY <2>1 DEF Effect
  <2>3. \A w \in Users, k \in Nonces : lockAccount'[w][k] =
            IF w = u /\ k = NonceOf(w) THEN amount ELSE lockAccount[w][k]
    BY <1>4, <1>5 DEF Lock
  <2>4. sig.nonce = NonceOf(u)
    BY <1>5 DEF Lock, Verify, SignedBy
  <2>5. QED
    BY <1>1, <1>2, <1>3, <1>5, <2>2, <2>3, <2>4, UseLands
<1>6. CASE call[c].fn = "settle" /\ Settle(Bot, Bot, u, n, amount)
  <2>1. Effect(u, NonceOf(u), LockedOf(u) - lockAccount[u][n])
    BY <1>4, <1>6, SettleEffect
  <2>2. \A w \in Users : NonceOf(w)' = NonceOf(w)
    BY <2>1 DEF Effect
  <2>3. \A w \in Users, k \in Nonces : lockAccount'[w][k] =
            IF w = u /\ k = n THEN NoLock ELSE lockAccount[w][k]
    BY <1>4, <1>6 DEF Settle
  <2>4. lockAccount[u][n] # NoLock
    BY <1>6 DEF Settle
  <2>5. QED
    BY <1>1, <1>2, <1>3, <1>6, <2>2, <2>3, <2>4, SettleLands
<1>7. CASE call[c].fn = "pay" /\ sig \in signed /\ Pay(Bot, u, sig, amount)
  <2>1. Effect(u, NonceOf(u) + 1, LockedOf(u))
    BY <1>4, <1>7, PayEffect
  <2>2. \A w \in Users : NonceOf(w)' = IF w = u THEN NonceOf(w) + 1 ELSE NonceOf(w)
    BY <2>1 DEF Effect
  <2>3. lockAccount' = lockAccount /\ sig.nonce = NonceOf(u)
    BY <1>7 DEF Pay, Verify, SignedBy
  <2>4. QED
    BY <1>1, <1>2, <1>3, <1>7, <2>2, <2>3, UseLands
<1>8. QED
  BY <1>1, <1>3, <1>5, <1>6, <1>7 DEF Runs
-----------------------------------------------------------------------------
\* Users and the authority act beside the calls.
LEMMA OthersKeep ==
    ASSUME CallInv, Others
    PROVE  /\ Next /\ signed \subseteq signed'
           /\ UNCHANGED <<userAccount, lockAccount, call, transaction>>
<1>1. TypeOK /\ global # NoGlobal
  BY DEF CallInv, IndInv
<1>2. global.authority \in Keys /\ now \in Nat
  BY <1>1, BoundsAssumption DEF TypeOK, Times
<1>3. UNCHANGED <<call, transaction>>
  BY DEF Others, clientVars
<1>4. ASSUME NEW u \in Users, NEW amount \in Amounts, Withdraw(u, amount)
      PROVE  Next /\ signed \subseteq signed' /\ UNCHANGED <<userAccount, lockAccount>>
  BY <1>4, NonceTypes DEF Next, UserInstruction, Withdraw
<1>5. ASSUME NEW u \in Users, NEW deadline \in Times, deadline > now, Sign(u, deadline)
      PROVE  Next /\ signed \subseteq signed' /\ UNCHANGED <<userAccount, lockAccount>>
  <2>1. deadline >= now
    BY <1>2, <1>5, BoundsAssumption DEF Times
  <2>2. QED
    BY <1>5, <2>1 DEF Next, Environment, Sign
<1>6. ASSUME NEW key \in Treasuries, SetTreasury(global.authority, key)
      PROVE  Next /\ signed \subseteq signed' /\ UNCHANGED <<userAccount, lockAccount>>
  <2>1. key \in Keys
    BY ClientAssumption
  <2>2. \E signer, k \in Keys : SetTreasury(signer, k)
    BY <1>2, <1>6, <2>1
  <2>3. QED
    BY <1>6, <2>2 DEF Next, Administration, SetTreasury
<1>7. ASSUME Tick
      PROVE  Next /\ signed \subseteq signed' /\ UNCHANGED <<userAccount, lockAccount>>
  BY <1>7 DEF Next, Environment, Tick
<1>8. QED
  BY <1>3, <1>4, <1>5, <1>6, <1>7 DEF Others

\* A step of a client is a step of the program, of its world, or none of theirs.
LEMMA ClientStepInv ==
    ASSUME ClientInv, [ClientNext]_allVars
    PROVE  ClientInv' /\ [Next]_vars
<1>1. CallInv /\ TransactionInv /\ LandedInv
  BY DEF ClientInv
<1>2. ASSUME NEW c \in Calls,
             \/ CallBegins(c)
             \/ CheckAccount(c) \/ CheckVault(c) \/ ReadAccount(c) \/ Confirmed(c) \/ GivesUp(c)
      PROVE  ClientInv' /\ [Next]_vars
  <2>1. CallInv' /\ TransactionInv' /\ SameRequests /\ UNCHANGED <<vars, transaction>>
    BY <1>1, <1>2, BeginKeeps, CallStepKeeps
  <2>2. Landed' = Landed /\ UNCHANGED <<userAccount, lockAccount>>
    BY <2>1 DEF Landed, vars
  <2>3. QED
    BY <1>1, <2>1, <2>2, NothingLands DEF ClientInv
<1>3. ASSUME NEW c \in Calls, Send(c)
      PROVE  ClientInv' /\ [Next]_vars
  <2>1. /\ CallInv' /\ TransactionInv' /\ SameRequests /\ UNCHANGED vars
        /\ Landed' = Landed
    BY <1>1, <1>3, SendKeeps
  <2>2. UNCHANGED <<userAccount, lockAccount>>
    BY <2>1 DEF vars
  <2>3. QED
    BY <1>1, <2>1, <2>2, NothingLands DEF ClientInv
<1>4. ASSUME NEW c \in Calls, Land(c)
      PROVE  ClientInv' /\ [Next]_vars
  BY <1>1, <1>4, LandKeeps, LandKeepsLanded DEF ClientInv
<1>5. ASSUME Others
      PROVE  ClientInv' /\ [Next]_vars
  <2>1. /\ Next /\ signed \subseteq signed'
        /\ UNCHANGED <<userAccount, lockAccount, call, transaction>>
    BY <1>1, <1>5, OthersKeep
  <2>2. CallInv' /\ (\A c \in Calls : Request(call[c]) => (Request(call[c]))')
    BY <1>1, <2>1, WorldKeeps
  <2>3. TransactionInv'
    BY <1>1, <2>1, <2>2 DEF TransactionInv, NoTransaction
  <2>4. Landed' = Landed /\ SameRequests
    BY <2>1 DEF Landed, SameRequests
  <2>5. QED
    BY <1>1, <2>1, <2>2, <2>3, <2>4, NothingLands DEF ClientInv
<1>6. CASE UNCHANGED allVars
  <2>1. UNCHANGED <<vars, call, transaction>>
    BY <1>6 DEF allVars, clientVars
  <2>2. UNCHANGED <<global, userAccount, lockAccount, vault, wallet, signed, now>>
    BY <2>1 DEF vars
  <2>3. CallInv' /\ (\A c \in Calls : Request(call[c]) => (Request(call[c]))')
    BY <1>1, <2>1, <2>2, WorldKeeps
  <2>4. TransactionInv'
    BY <1>1, <2>1, <2>3 DEF TransactionInv, NoTransaction
  <2>5. Landed' = Landed /\ SameRequests
    BY <2>1 DEF Landed, SameRequests
  <2>6. QED
    BY <1>1, <2>1, <2>2, <2>3, <2>4, <2>5, NothingLands DEF ClientInv
<1>7. QED
  BY <1>2, <1>3, <1>4, <1>5, <1>6 DEF ClientNext, CallStep

LEMMA ClientInitInv == ClientInit => ClientInv
<1> SUFFICES ASSUME ClientInit PROVE ClientInv
  OBVIOUS
<1>1. /\ Nonces \subseteq Nat /\ 0 \in Nonces /\ Users \subseteq Keys /\ Bot \in Keys
      /\ {GlobalRent, UserRent, Deposited, InitialWallet} \subseteq Nat
      /\ GlobalRent + UserRent + Deposited <= InitialWallet
  BY NonceTypes, RentAssumption, ClientAssumption
<1>2. PICK registered \in SUBSET Users :
        /\ userAccount = [u \in Users |->
               IF u \in registered THEN [nonce |-> 0, locked_amount |-> 0] ELSE NoAccount]
        /\ vault = [u \in Users |-> IF u \in registered THEN Deposited ELSE 0]
        /\ wallet = [k \in Keys |-> InitialWallet
               - (IF k = Bot THEN GlobalRent ELSE 0)
               - (IF k \in registered THEN UserRent + Deposited ELSE 0)]
  BY DEF ClientInit
<1>3. wallet \in [Keys -> Nat]
  BY <1>1, <1>2
<1>4. TypeOK
  BY <1>1, <1>2, <1>3, BoundsAssumption DEF ClientInit, TypeOK, Times
<1>5. \A u \in Users : LockedOf(u) = 0 /\ vault[u] \in Nat
  BY <1>1, <1>2 DEF LockedOf, Registered
<1>6. \A u \in Users : Units(lockAccount[u]) = {}
  BY DEF ClientInit, Units
<1>7. LocksFinite /\ LockedIsBacked
  BY <1>5, <1>6, FS_EmptySet DEF LocksFinite, LockedIsBacked, LockedLamports
<1>8. FreshLockAddress /\ Solvent
  BY <1>5 DEF ClientInit, FreshLockAddress, OpenLocks, Solvent
<1>9. global # NoGlobal
  BY <1>1, NoneAssumption DEF ClientInit
<1>15. RentInv
  <2>1. ASSUME NEW k \in Keys PROVE RentExempt(wallet[k])
    <3>1. InitialWallet - 0 = InitialWallet /\ GlobalRent + 0 = GlobalRent
      BY <1>1
    <3>2. \/ wallet[k] = InitialWallet
          \/ wallet[k] = InitialWallet - GlobalRent
          \/ wallet[k] = InitialWallet - (UserRent + Deposited)
          \/ wallet[k] = InitialWallet - (GlobalRent + UserRent + Deposited)
      BY <1>1, <1>2
    <3>3. QED
      BY <3>1, <3>2, BalancesAssumption
  <2>2. \A u \in Users : RentExempt(vault[u])
    BY <1>2, BalancesAssumption DEF RentExempt
  <2>3. QED
    BY <2>1, <2>2 DEF RentInv, AllRentExempt
<1>10. CallInv
  BY <1>4, <1>7, <1>8, <1>9, <1>15 DEF ClientInit, CallInv, IndInv
<1>11. Landed = {}
  BY DEF ClientInit, Landed, NoTransaction
<1>12. TransactionInv
  BY DEF ClientInit, TransactionInv, Unused
<1>13. LandedInv
  BY <1>11 DEF LandedInv, LandsOnce, LocksAreFound
<1>14. QED
  BY <1>10, <1>12, <1>13 DEF ClientInv

\* No step of a client breaks ClientInv, and each is a step of the program or
\* leaves the program's accounts alone.
THEOREM ClientInductive == ClientSpec => []ClientInv /\ [][Next]_vars
BY ClientInitInv, ClientStepInv, PTL DEF ClientSpec

\* Balances keep their types, and a transaction belongs to a call that waits
\* for it or has answered.
THEOREM ClientTypes == ClientSpec => []ClientTypeOK
<1>1. ClientInv => ClientTypeOK
  <2>1. SUFFICES ASSUME ClientInv, NEW c \in Calls
                 PROVE  /\ call[c].step \in {"unused", "account", "vault", "read", "send",
                                            "confirm"} \cup Answers
                        /\ call[c].step \in {"confirm", "ok"} => transaction[c] # NoTransaction
                        /\ transaction[c] # NoTransaction
                              => call[c].step \in {"confirm", "ok", "error"}
    BY DEF ClientTypeOK, ClientInv, CallInv, IndInv
  <2>2. call[c] = Unused \/ Request(call[c])
    BY <2>1 DEF ClientInv, CallInv
  <2>3. \/ transaction[c] = NoTransaction /\ call[c].step \notin {"confirm", "ok"}
        \/ Carries(transaction[c], call[c])
    BY <2>1 DEF ClientInv, TransactionInv
  <2>4. Carries(transaction[c], call[c])
            => transaction[c] # NoTransaction /\ call[c].step \in {"confirm", "ok", "error"}
    BY Told DEF Carries
  <2>5. call[c].step \in {"unused", "account", "vault", "read", "send", "confirm"} \cup Answers
    BY <2>2 DEF Unused, Request
  <2>6. QED
    BY <2>3, <2>4, <2>5
<1>2. QED
  BY <1>1, ClientInductive, PTL

\* For any number of calls with one signature, one lock or payment lands; one
\* settle of each lock.
THEOREM OneLanding == ClientSpec => []LandsOnce
<1>1. ClientInv => LandsOnce
  BY DEF ClientInv, LandedInv
<1>2. QED
  BY <1>1, ClientInductive, PTL

\* A lock stands under the nonce of the signature it was made with, with the
\* amount of its call, until a settle that names this nonce lands.
THEOREM FoundLocks == ClientSpec => []LocksAreFound
<1>1. ClientInv => LocksAreFound
  BY DEF ClientInv, LandedInv
<1>2. QED
  BY <1>1, ClientInductive, PTL
-----------------------------------------------------------------------------
(***************************************************************************)
(* The program's own promises, among calls and transactions.  The steps of *)
(* ClientSpec are steps of the program, but its world is one where users   *)
(* have registered already, so the balance of lamports at the start is     *)
(* taken from that world.                                                  *)
(***************************************************************************)

\* What a registered user has paid is in the vault or is rent.
LEMMA PaidAlready ==
    ASSUME NEW initial \in Int, NEW paid \in Int, NEW deposit \in Int, NEW rent \in Int,
           NEW r \in Int, NEW others \in Int
    PROVE  (initial - (paid + deposit)) * r + initial * others - rent + deposit * r
               + (rent + paid * r) = initial * (r + others)
OBVIOUS

LEMMA ClientInitConserved == ClientInit => LamportsConserved
<1> SUFFICES ASSUME ClientInit PROVE LamportsConserved
  OBVIOUS
<1>1. PICK registered \in SUBSET Users :
        /\ userAccount = [u \in Users |->
               IF u \in registered THEN [nonce |-> 0, locked_amount |-> 0] ELSE NoAccount]
        /\ vault = [u \in Users |-> IF u \in registered THEN Deposited ELSE 0]
        /\ wallet = [k \in Keys |-> InitialWallet
               - (IF k = Bot THEN GlobalRent ELSE 0)
               - (IF k \in registered THEN UserRent + Deposited ELSE 0)]
  BY DEF ClientInit
<1> DEFINE others == Keys \ registered
           r == Cardinality(registered)
           o == Cardinality(others)
           before == [k \in Keys |-> InitialWallet
               - (IF k \in registered THEN UserRent + Deposited ELSE 0)]
<1>2. /\ {GlobalRent, UserRent, Deposited, InitialWallet} \subseteq Int
      /\ Bot \in Keys /\ registered \subseteq Users /\ Users \subseteq Keys
  BY NonceTypes, RentAssumption, ClientAssumption
<1>3. /\ IsFiniteSet(registered) /\ IsFiniteSet(others) /\ IsFiniteSet(Users \ registered)
      /\ registered \cap others = {} /\ registered \cup others = Keys
      /\ registered \cap (Users \ registered) = {}
      /\ registered \cup (Users \ registered) = Users
  BY <1>2, KeysFinite, FS_Subset
<1>4. r \in Int /\ o \in Int /\ Cardinality(Users \ registered) \in Int
      /\ Cardinality(Keys) = r + o
  <2>1. Cardinality(Keys) = r + o - Cardinality(registered \cap others)
    BY <1>3, FS_Union
  <2>2. QED
    BY <1>3, <2>1, FS_EmptySet, FS_CardinalityType
<1>5. SumOver(wallet, Keys) = SumOver(before, Keys) - GlobalRent
  <2>1. /\ \A k \in Keys : before[k] \in Int /\ wallet[k] \in Int
        /\ \A k \in Keys : k # Bot => wallet[k] = before[k]
        /\ wallet[Bot] - before[Bot] = -GlobalRent
    BY <1>1, <1>2
  <2> HIDE DEF before
  <2>2. SumOver(wallet, Keys) = SumOver(before, Keys) + (wallet[Bot] - before[Bot])
    BY <1>2, <2>1, KeysFinite, SumChanges
  <2>3. SumOver(before, Keys) \in Int
    BY <2>1, KeysFinite, SumType
  <2>4. QED
    BY <1>2, <2>1, <2>2, <2>3
<1>6. SumOver(before, Keys) = (InitialWallet - (UserRent + Deposited)) * r + InitialWallet * o
  <2>1. /\ \A k \in registered : before[k] = InitialWallet - (UserRent + Deposited)
        /\ \A k \in others : before[k] = InitialWallet
        /\ InitialWallet - (UserRent + Deposited) \in Int
        /\ \A k \in registered \cup others : before[k] \in Int
    BY <1>2
  <2> HIDE DEF before, others
  <2>2. SumOver(before, registered) = (InitialWallet - (UserRent + Deposited)) * r
    BY <1>3, <2>1, SumConstant
  <2>3. SumOver(before, others) = InitialWallet * o
    BY <1>2, <1>3, <2>1, SumConstant
  <2>4. SumOver(before, registered \cup others)
            = SumOver(before, registered) + SumOver(before, others)
    BY <1>3, <2>1, SumUnion
  <2>5. QED
    BY <1>3, <2>2, <2>3, <2>4
<1>7. SumOver(vault, Users) = Deposited * r
  <2>1. /\ \A u \in registered : vault[u] = Deposited
        /\ \A u \in Users \ registered : vault[u] = 0
        /\ \A u \in registered \cup (Users \ registered) : vault[u] \in Int
    BY <1>1, <1>2
  <2>2. SumOver(vault, registered) = Deposited * r
    BY <1>2, <1>3, <2>1, SumConstant
  <2>3. SumOver(vault, Users \ registered) = 0 * Cardinality(Users \ registered)
    BY <1>3, <2>1, SumConstant
  <2>4. SumOver(vault, registered \cup (Users \ registered))
            = SumOver(vault, registered) + SumOver(vault, Users \ registered)
    BY <1>3, <2>1, SumUnion
  <2>5. Deposited * r \in Int /\ 0 * Cardinality(Users \ registered) = 0
    BY <1>2, <1>4
  <2>6. SumOver(vault, Users) = Deposited * r + 0
    BY <1>3, <2>2, <2>3, <2>4, <2>5, Zenon
  <2>7. QED
    BY <2>5, <2>6
<1>8. Created = r /\ GlobalPaid = GlobalRent
  <2>1. [nonce |-> 0, locked_amount |-> 0] # NoAccount /\ global # NoGlobal
    BY <1>2, NoneAssumption DEF ClientInit
  <2>2. {u \in Users : Registered(u)} = registered
    BY <1>1, <2>1 DEF Registered
  <2>3. QED
    BY <2>1, <2>2 DEF Created, GlobalPaid
<1>9. Opened = 0
  <2> HIDE DEF r, o, others, before
  <2>1. \A u \in Users : OpenLocks(u) = {}
    BY DEF ClientInit, OpenLocks
  <2> DEFINE open == [u \in Users |-> Cardinality(OpenLocks(u))]
  <2>2. Opened = 0 * Cardinality(Users)
    <3>1. \A u \in Users : open[u] = 0
      BY <2>1, FS_EmptySet
    <3>2. Opened = SumOver(open, Users)
      BY DEF Opened
    <3> HIDE DEF open
    <3>3. QED
      BY <3>1, <3>2, KeysFinite, SumConstant
  <2>3. QED
    BY <2>2, KeysFinite, FS_CardinalityType
<1>10. RentPaid = GlobalRent + UserRent * r
  <2>1. RentPaid = GlobalPaid + UserRent * Created + LockRent * Opened
    BY DEF RentPaid, GlobalPaid, Created, Opened
  <2>2. UserRent * r \in Int /\ LockRent * 0 = 0
    BY <1>2, <1>4, RentAssumption
  <2>3. QED
    BY <1>2, <1>8, <1>9, <2>1, <2>2
<1> HIDE DEF before, r, o
<1>11. (InitialWallet - (UserRent + Deposited)) * r + InitialWallet * o - GlobalRent
           + Deposited * r + (GlobalRent + UserRent * r) = InitialWallet * (r + o)
  BY <1>2, <1>4, PaidAlready
<1>12. SumOver(wallet, Keys) + SumOver(vault, Users) + RentPaid
           = InitialWallet * Cardinality(Keys)
  <2>1. SumOver(wallet, Keys)
            = (InitialWallet - (UserRent + Deposited)) * r + InitialWallet * o - GlobalRent
    BY <1>2, <1>4, <1>5, <1>6
  <2>2. Cardinality(Keys) = r + o
    BY <1>4
  <2>3. QED
    BY <1>7, <1>10, <1>11, <2>1, <2>2, Zenon
<1>13. QED
  BY <1>12 DEF LamportsConserved

\* Calls that are retried, given up on or overtaken by others, and transactions
\* that land late, cost no lamport, overdraw no vault, leave no lock stuck (in
\* full, or all but less than the rent-exempt minimum), and spend only what the
\* user has signed for, once.
THEOREM TransactionsAreSafe ==
    ClientSpec => /\ [](LamportsConserved /\ Solvent /\ LockedIsBacked)
                  /\ [](EveryLockSettleable /\ FreshLockAddress)
                  /\ NonceUsedOnce
                  /\ ChargesAreAuthorised
<1>1. ClientInv => TypeOK /\ Solvent /\ LockedIsBacked /\ FreshLockAddress /\ EveryLockSettleable
  BY IndSettleable DEF ClientInv, CallInv, IndInv
<1>2. ClientInv /\ LamportsConserved /\ [Next]_vars => LamportsConserved'
  BY <1>1, ConservedStep
<1>3. ClientInv /\ [Next]_vars => NonceSteps /\ SpendingSteps
  BY <1>1, NoncesStep, SpendingAuthorised
<1>4. QED
  BY <1>1, <1>2, <1>3, ClientInitConserved, ClientInductive, PTL
  DEF NonceUsedOnce, ChargesAreAuthorised, ClientSpec
-----------------------------------------------------------------------------
\* What check_eligible is worth.

\* Nothing but the answer to the reading of the vault says yes.
LEMMA OnlyVaultSaysYes ==
    ASSUME ClientInv, ClientNext, NEW c \in Calls, Says(c, "eligible")
    PROVE  CheckVault(c)
<1>1. /\ CallInv /\ call = [d \in Calls |-> call[d]]
      /\ call[c].step # "eligible" /\ call'[c].step = "eligible"
  BY DEF ClientInv, CallInv, Says
<1>2. ASSUME NEW d \in Calls, NEW step, Goes(d, step), call[d] # Unused
      PROVE  d = c /\ step = "eligible"
  BY <1>1, <1>2, GoesMoves DEF Moves
<1>3. ASSUME NEW d \in Calls, NEW step, NEW seen, Learns(d, step, seen), call[d] # Unused
      PROVE  d = c /\ step = "eligible"
  BY <1>1, <1>3, LearnsMoves DEF Moves
<1>4. ASSUME NEW d \in Calls, At(d, {"check_eligible"}, "account")
                              \/ At(d, {"check_eligible"}, "vault")
                              \/ At(d, {"lock", "settle", "pay"}, "read")
                              \/ At(d, {"lock", "settle", "pay"}, "confirm")
                              \/ call[d].step \in {"account", "vault", "read", "send", "confirm"}
      PROVE  call[d] # Unused
  BY <1>4 DEF At, Unused
<1>5. ASSUME NEW d \in Calls, CheckAccount(d) PROVE FALSE
  <2>1. call[d] # Unused
    BY <1>4, <1>5 DEF CheckAccount
  <2>2. Goes(d, "error") \/ Goes(d, "refused") \/ (\E seen : Learns(d, "vault", seen))
    BY <1>5 DEF CheckAccount, Learns
  <2>3. QED
    BY <1>2, <1>3, <2>1, <2>2
<1>6. ASSUME NEW d \in Calls, CheckVault(d) PROVE d = c
  BY <1>2, <1>4, <1>6 DEF CheckVault
<1>7. ASSUME NEW d \in Calls, ReadAccount(d) PROVE FALSE
  <2>1. call[d] # Unused
    BY <1>4, <1>7 DEF ReadAccount
  <2>2. Goes(d, "error") \/ (\E seen : Learns(d, "send", seen))
    BY <1>7 DEF ReadAccount, Learns
  <2>3. QED
    BY <1>2, <1>3, <2>1, <2>2
<1>8. ASSUME NEW d \in Calls, Confirmed(d) \/ GivesUp(d) PROVE FALSE
  BY <1>2, <1>4, <1>8 DEF Confirmed, GivesUp
<1>9. ASSUME NEW d \in Calls, CallBegins(d) PROVE FALSE
  <2>1. PICK fn, u, nonce, amount, sig, step :
            Starts(d, fn, u, nonce, amount, sig, step) /\ step \in {"account", "read"}
    BY <1>9, BeginStarts
  <2>2. call' = [e \in Calls |-> IF e = d THEN [fn |-> fn, user |-> u, nonce |-> nonce,
                    amount |-> amount, sig |-> sig, step |-> step, seen |-> Unused] ELSE call[e]]
    BY <1>1, <2>1 DEF Starts
  <2>3. call'[c].step \in {call[c].step, "account", "read"}
    BY <2>1, <2>2
  <2>4. QED
    BY <1>1, <2>3
<1>10. ASSUME NEW d \in Calls, Send(d) PROVE FALSE
  BY <1>1, <1>10 DEF Send
<1>11. ASSUME UNCHANGED call PROVE FALSE
  BY <1>1, <1>11
<1>12. QED
  BY <1>5, <1>6, <1>7, <1>8, <1>9, <1>10, <1>11
     DEF ClientNext, CallStep, Land, Others, clientVars

LEMMA ModSmaller ==
    ASSUME NEW a \in Nat, NEW m \in Nat, m > 0
    PROVE  a % m <= a
OBVIOUS

\* Only the reading of the account makes a call ask for the vault.
LEMMA OnlyAccountAsksVault ==
    ASSUME ClientInv, ClientNext, NEW c \in Calls, call'[c].step = "vault"
    PROVE  \/ call'[c] = call[c]
           \/ /\ CheckAccount(c)
              /\ Registered(call[c].user)
              /\ Moves(c, "vault", UserAccountRead(call[c].user))
<1>1. CallInv /\ call = [d \in Calls |-> call[d]]
  BY DEF ClientInv, CallInv
<1>2. ASSUME NEW d \in Calls, NEW step, Goes(d, step), call[d] # Unused, step # "vault"
      PROVE  call'[c] = call[c]
  BY <1>1, <1>2, GoesMoves DEF Moves
<1>3. ASSUME NEW d \in Calls, NEW step, NEW seen, Learns(d, step, seen), call[d] # Unused
      PROVE  call'[c] = call[c] \/ (d = c /\ step = "vault")
  BY <1>1, <1>3, LearnsMoves DEF Moves
<1>4. ASSUME NEW d \in Calls, At(d, {"check_eligible"}, "account")
                              \/ At(d, {"check_eligible"}, "vault")
                              \/ At(d, {"lock", "settle", "pay"}, "read")
                              \/ At(d, {"lock", "settle", "pay"}, "confirm")
                              \/ call[d].step \in {"account", "vault", "read", "send", "confirm"}
      PROVE  call[d] # Unused
  BY <1>4 DEF At, Unused
<1>5. ASSUME NEW d \in Calls, CheckAccount(d), call'[c] # call[c]
      PROVE  /\ d = c
             /\ Registered(call[c].user)
             /\ Moves(c, "vault", UserAccountRead(call[c].user))
  <2>1. call[d] # Unused
    BY <1>4, <1>5 DEF CheckAccount
  <2>2. /\ Registered(call[d].user)
        /\ Learns(d, "vault", UserAccountRead(call[d].user))
    BY <1>2, <1>5, <2>1 DEF CheckAccount, Learns
  <2>3. d = c
    BY <1>3, <1>5, <2>1, <2>2
  <2>4. QED
    BY <1>1, <2>1, <2>2, <2>3, LearnsMoves
<1>6. ASSUME NEW d \in Calls, CheckVault(d) PROVE call'[c] = call[c]
  <2>1. call[d] # Unused
    BY <1>4, <1>6 DEF CheckVault
  <2>2. Goes(d, "error") \/ Goes(d, "refused") \/ Goes(d, "eligible")
    BY <1>6 DEF CheckVault
  <2>3. QED
    BY <1>2, <2>1, <2>2
<1>7. ASSUME NEW d \in Calls, ReadAccount(d) PROVE call'[c] = call[c]
  <2>1. call[d] # Unused
    BY <1>4, <1>7 DEF ReadAccount
  <2>2. Goes(d, "error") \/ (\E seen : Learns(d, "send", seen))
    BY <1>7 DEF ReadAccount, Learns
  <2>3. QED
    BY <1>2, <1>3, <2>1, <2>2
<1>8. ASSUME NEW d \in Calls, Confirmed(d) \/ GivesUp(d) PROVE call'[c] = call[c]
  BY <1>2, <1>4, <1>8 DEF Confirmed, GivesUp
<1>9. ASSUME NEW d \in Calls, CallBegins(d) PROVE call'[c] = call[c]
  <2>1. PICK fn, u, nonce, amount, sig, step :
            Starts(d, fn, u, nonce, amount, sig, step) /\ step \in {"account", "read"}
    BY <1>9, BeginStarts
  <2>2. call' = [e \in Calls |-> IF e = d THEN [fn |-> fn, user |-> u, nonce |-> nonce,
                    amount |-> amount, sig |-> sig, step |-> step, seen |-> Unused] ELSE call[e]]
    BY <1>1, <2>1 DEF Starts
  <2>3. call'[c] = call[c] \/ call'[c].step \in {"account", "read"}
    BY <2>1, <2>2
  <2>4. QED
    BY <2>3
<1>10. ASSUME NEW d \in Calls, Send(d) PROVE call'[c] = call[c]
  BY <1>1, <1>10 DEF Send
<1>11. ASSUME UNCHANGED call PROVE call'[c] = call[c]
  BY <1>11
<1>12. QED
  BY <1>5, <1>6, <1>7, <1>8, <1>9, <1>10, <1>11
     DEF ClientNext, CallStep, Land, Others, clientVars

\* While a nonce is not used up, a user's locks only shrink.
LocksShrink(u) ==
    /\ NonceOf(u) \in Nat /\ NonceOf(u)' \in Nat
    /\ LockedOf(u) \in Nat /\ LockedOf(u)' \in Nat
    /\ NonceOf(u) <= NonceOf(u)'
    /\ NonceOf(u) = NonceOf(u)' => LockedOf(u)' <= LockedOf(u)

LEMMA LocksOnlyShrink ==
    ASSUME IndInv, IndInv', [Next]_vars, NEW w \in Users
    PROVE  LocksShrink(w)
<1>0. /\ NonceOf(w) \in Nat /\ LockedOf(w) \in Nat
      /\ NonceOf(w)' \in Nat /\ LockedOf(w)' \in Nat
  <2>1. TypeOK /\ TypeOK' /\ Nonces \subseteq Nat
    BY NonceTypes DEF IndInv
  <2>2. QED
    BY <2>1 DEF TypeOK, NonceOf, LockedOf, Registered
<1>1. CASE UNCHANGED userAccount
  BY <1>0, <1>1 DEF NonceOf, LockedOf, Registered, LocksShrink
<1>2. ASSUME NEW u \in Users, NEW payer \in Keys, Register(u, payer)
      PROVE  LocksShrink(w)
  BY <1>0, <1>2, RegisterEffect DEF Effect, Register, LocksShrink, IndInv, NonceOf, LockedOf
<1>3. ASSUME NEW u \in Users, NEW signer \in Keys, NEW payer \in Keys,
             NEW sig \in signed, NEW amount \in Lamports, Lock(signer, payer, u, sig, amount)
      PROVE  LocksShrink(w)
  BY <1>0, <1>3, LockEffect DEF Effect, LocksShrink, IndInv
<1>4. ASSUME NEW u \in Users, NEW signer \in Keys, NEW payer \in Keys, NEW n \in Nonces,
             NEW amount \in Lamports, Settle(signer, payer, u, n, amount)
      PROVE  LocksShrink(w)
  <2>1. TypeOK /\ lockAccount[u][n] # NoLock
    BY <1>4 DEF Settle, IndInv
  <2>2. lockAccount[u][n] \in Nat
    BY <2>1, ReadTypes
  <2>3. QED
    BY <1>0, <1>4, <2>1, <2>2, SettleEffect DEF Effect, LocksShrink
<1>5. ASSUME NEW u \in Users, NEW signer \in Keys, NEW sig \in signed,
             NEW amount \in Lamports, Pay(signer, u, sig, amount)
      PROVE  LocksShrink(w)
  BY <1>0, <1>5, PayEffect DEF Effect, LocksShrink, IndInv
<1>6. QED
  BY <1>1, <1>2, <1>3, <1>4, <1>5
  DEF Next, Administration, UserInstruction, BotInstruction, Environment, vars,
      Initialize, SetBot, SetTreasury, Deposit, Withdraw, Sign, FundVault, Tick

\* What a call has read of an account that it goes on to ask the vault for.
Fits(r) ==
    /\ r.seen.nonce <= NonceOf(r.user)
    /\ r.seen.nonce = NonceOf(r.user) => LockedOf(r.user) <= r.seen.locked_amount
SeenInv == \A c \in Calls : call[c].step = "vault" => Fits(call[c])

LEMMA SeenStep ==
    ASSUME ClientInv, ClientInv', SeenInv, [Next]_vars, [ClientNext]_allVars
    PROVE  SeenInv'
<1>1. SUFFICES ASSUME NEW c \in Calls, call'[c].step = "vault"
               PROVE  Fits(call[c])'
  BY DEF SeenInv
<1>2. CallInv /\ IndInv /\ IndInv'
  BY DEF ClientInv, CallInv
<1>3. CASE call'[c] = call[c]
  <2>1. Request(call[c]) /\ Fits(call[c])
    BY <1>1, <1>2, <1>3 DEF CallInv, Unused, SeenInv
  <2>2. PICK u \in Users : u = call[c].user
    BY <2>1 DEF Request
  <2>3. LocksShrink(u)
    BY <1>2, LocksOnlyShrink
  <2>4. PICK n \in Nat, locked \in Nat :
            n = call[c].seen.nonce /\ locked = call[c].seen.locked_amount
    BY <1>1, <1>3, <2>1, NonceTypes DEF Request, UserRecords
  <2>5. n <= NonceOf(u) /\ (n = NonceOf(u) => LockedOf(u) <= locked)
    BY <2>1, <2>2, <2>4 DEF Fits
  <2>6. n <= NonceOf(u)' /\ (n = NonceOf(u)' => LockedOf(u)' <= locked)
    BY <2>3, <2>4, <2>5 DEF LocksShrink
  <2>7. /\ call'[c].seen.nonce = n /\ call'[c].seen.locked_amount = locked
        /\ call'[c].user = u
    BY <1>3, <2>2, <2>4
  <2>8. QED
    BY <2>6, <2>7 DEF Fits
<1>4. CASE call'[c] # call[c]
  <2>1. ClientNext
    BY <1>4 DEF allVars, clientVars
  <2>2. /\ CheckAccount(c)
        /\ Registered(call[c].user)
        /\ Moves(c, "vault", UserAccountRead(call[c].user))
    BY <1>1, <1>4, <2>1, OnlyAccountAsksVault
  <2>3. Request(call[c]) /\ UNCHANGED vars
    <3>1. call[c] # Unused
      BY <2>2 DEF CheckAccount, At, Unused
    <3>2. UNCHANGED vars
      BY <1>2, <2>2, CallStepKeeps DEF ClientInv
    <3>3. QED
      BY <1>2, <3>1, <3>2 DEF CallInv
  <2>4. PICK u \in Users : u = call[c].user
    BY <2>3 DEF Request
  <2>5. UserAccountRead(u) = userAccount[u] /\ userAccount[u] \in UserRecords
    BY <1>2, <2>2, <2>4, ReadsRecord DEF IndInv
  <2>6. call'[c].user = u /\ call'[c].seen = userAccount[u]
    BY <2>2, <2>4, <2>5 DEF Moves
  <2>7. NonceOf(u)' = userAccount[u].nonce /\ LockedOf(u)' = userAccount[u].locked_amount
    BY <2>2, <2>3, <2>4 DEF vars, NonceOf, LockedOf, Registered
  <2>8. userAccount[u].nonce \in Nat /\ userAccount[u].locked_amount \in Nat
    BY <2>5, NonceTypes DEF UserRecords
  <2>9. QED
    BY <2>6, <2>7, <2>8 DEF Fits
<1>5. QED
  BY <1>3, <1>4

THEOREM SeenFits == ClientSpec => []SeenInv
<1>1. ClientInit => SeenInv
  BY DEF ClientInit, SeenInv, Unused
<1>2. ClientInv /\ ClientInv' /\ SeenInv /\ [Next]_vars /\ [ClientNext]_allVars => SeenInv'
  BY SeenStep
<1>3. QED
  BY <1>1, <1>2, ClientInductive, PTL DEF ClientSpec

\* A yes, whatever has landed between the reading of the account and that of the
\* vault: the nonce asked about is the account's or has been used up since, and
\* while it is the account's the vault covers the amount beside every lock there
\* is, or a settlement in between has taken the vault below the locks it read.
THEOREM YesIsCovered == ClientSpec => EligibleIsCovered
<1>1. ASSUME ClientInv, SeenInv, [ClientNext]_allVars
      PROVE  [\A c \in Calls : Says(c, "eligible") => Covered(c)]_allVars
  <2>1. SUFFICES ASSUME ClientNext, NEW c \in Calls, Says(c, "eligible")
                 PROVE  Covered(c)
    BY <1>1
  <2>2. CheckVault(c)
    BY <1>1, <2>1, OnlyVaultSaysYes
  <2>3. Request(call[c]) /\ call[c].step = "vault" /\ IndInv
    BY <1>1, <2>2 DEF CheckVault, At, ClientInv, CallInv, Unused
  <2>4. PICK u \in Users, amount \in Amounts : u = call[c].user /\ amount = call[c].amount
    BY <2>3 DEF Request
  <2>5. PICK n \in Nat, locked \in Nat :
            n = call[c].nonce /\ n = call[c].seen.nonce /\ locked = call[c].seen.locked_amount
    BY <2>3, NonceTypes DEF Request, UserRecords
  <2>6. n <= NonceOf(u) /\ (n = NonceOf(u) => LockedOf(u) <= locked)
    BY <1>1, <2>3, <2>4, <2>5 DEF SeenInv, Fits
  <2>7. LockedOf(u) <= vault[u] /\ vault[u] \in Nat /\ amount \in Nat /\ LockedOf(u) \in Nat
    <3>1. TypeOK /\ Solvent
      BY <2>3 DEF IndInv
    <3>2. QED
      BY <3>1, NonceTypes DEF TypeOK, Solvent, LockedOf, Registered
  <2>8. ASSUME n = NonceOf(u), locked <= vault[u] PROVE CanSpend(u, amount)
    <3>1. ~(WrappingSub(vault[u], locked) < amount)
      <4>1. CASE WrappingSub(vault[u], locked) < amount
        <5>1. Goes(c, "error") \/ Goes(c, "refused")
          BY <2>2, <2>4, <2>5, <4>1 DEF CheckVault
        <5>2. call[c] # Unused /\ CallInv
          BY <1>1, <2>3 DEF Unused, ClientInv
        <5>3. call'[c].step \in {"error", "refused"}
          BY <5>1, <5>2, GoesMoves DEF Moves
        <5>4. QED
          BY <2>1, <5>3 DEF Says
      <4>2. QED
        BY <4>1
    <3>2. vault[u] - locked \in Nat /\ MaxU64 + 1 \in Nat /\ MaxU64 + 1 > 0
      BY <2>7, <2>8, ClientAssumption
    <3>3. WrappingSub(vault[u], locked) <= vault[u] - locked
      BY <3>2, ModSmaller DEF WrappingSub
    <3>4. amount <= vault[u] - locked
      <4>1. WrappingSub(vault[u], locked) \in Int
        BY <3>2 DEF WrappingSub
      <4>2. QED
        BY <2>7, <3>1, <3>2, <3>3, <4>1
    <3>5. QED
      BY <2>6, <2>7, <2>8, <3>4 DEF CanSpend, Available
  <2>9. ASSUME n = NonceOf(u), ~(locked <= vault[u])
        PROVE  vault[u] < locked /\ LockedOf(u) < locked
    BY <2>7, <2>9
  <2>10. QED
    BY <2>4, <2>5, <2>6, <2>8, <2>9 DEF Covered, SettledSince
<1>2. QED
  BY <1>1, ClientInductive, SeenFits, PTL DEF ClientSpec, EligibleIsCovered
=============================================================================
