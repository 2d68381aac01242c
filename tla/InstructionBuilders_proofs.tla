--------------------- MODULE InstructionBuilders_proofs ---------------------
(***************************************************************************)
(* Theorems about InstructionBuilders for any number of calls of the       *)
(* setters, of additional accounts and of instructions built.  Nothing in  *)
(* them depends on which instruction is built: it is enough that the two   *)
(* tables of a builder name and order what the handler's context does.     *)
(***************************************************************************)
EXTENDS InstructionBuilders, SequenceTheorems, TLAPS

-----------------------------------------------------------------------------
(***************************************************************************)
(* The tables.                                                             *)
(***************************************************************************)

\* A list of n entries, and one of AccountMetas.
IsList(list, n) == n \in Nat /\ list = [p \in 1..n |-> list[p]]
IsMeta(meta) ==
    /\ meta = Meta(meta.account, meta.writable, meta.signer)
    /\ meta.writable \in BOOLEAN /\ meta.signer \in BOOLEAN
IsTable(accounts) ==
    /\ \E n \in Nat : IsList(accounts, n)
    /\ \A p \in DOMAIN accounts : IsMeta(accounts[p])

\* What the client sends for an instruction is what the context asks for, and
\* every argument has to be set.
Agrees(table, context) ==
    /\ table.accounts = context.accounts
    /\ table.args = context.args
    /\ IsTable(table.accounts)
    /\ \E n \in Nat : IsList(table.args, n)
    /\ \A p \in DOMAIN table.args : table.args[p] \notin table.optional

\* Tables written out account by account, as long as the interface has them.
LEMMA FlagsOfMeta ==
    ASSUME NEW field
    PROVE  IsMeta(Reads(field)) /\ IsMeta(Writes(field)) /\ IsMeta(Signs(field))
               /\ IsMeta(SignsAndWrites(field))
BY DEF IsMeta, Meta, Reads, Writes, Signs, SignsAndWrites

LEMMA TableOfFour ==
    ASSUME NEW a, NEW b, NEW c, NEW d,
           IsMeta(a), IsMeta(b), IsMeta(c), IsMeta(d)
    PROVE  IsTable(<<a, b, c, d>>)
<1>1. IsList(<<a, b, c, d>>, 4) /\ DOMAIN <<a, b, c, d>> = 1..4
  BY DEF IsList
<1>2. \A p \in 1..4 : p = 1 \/ p = 2 \/ p = 3 \/ p = 4
  OBVIOUS
<1>3. QED
  BY <1>1, <1>2 DEF IsTable

LEMMA TableOfFive ==
    ASSUME NEW a, NEW b, NEW c, NEW d, NEW e,
           IsMeta(a), IsMeta(b), IsMeta(c), IsMeta(d), IsMeta(e)
    PROVE  IsTable(<<a, b, c, d, e>>)
<1>1. IsList(<<a, b, c, d, e>>, 5) /\ DOMAIN <<a, b, c, d, e>> = 1..5
  BY DEF IsList
<1>2. \A p \in 1..5 : p = 1 \/ p = 2 \/ p = 3 \/ p = 4 \/ p = 5
  OBVIOUS
<1>3. QED
  BY <1>1, <1>2 DEF IsTable

LEMMA TableOfSix ==
    ASSUME NEW a, NEW b, NEW c, NEW d, NEW e, NEW f,
           IsMeta(a), IsMeta(b), IsMeta(c), IsMeta(d), IsMeta(e), IsMeta(f)
    PROVE  IsTable(<<a, b, c, d, e, f>>)
<1>1. IsList(<<a, b, c, d, e, f>>, 6) /\ DOMAIN <<a, b, c, d, e, f>> = 1..6
  BY DEF IsList
<1>2. \A p \in 1..6 : \/ p = 1 \/ p = 2 \/ p = 3
                      \/ p = 4 \/ p = 5 \/ p = 6
  OBVIOUS
<1>3. QED
  BY <1>1, <1>2 DEF IsTable

LEMMA TableOfEight ==
    ASSUME NEW a, NEW b, NEW c, NEW d, NEW e, NEW f, NEW g, NEW h,
           IsMeta(a), IsMeta(b), IsMeta(c), IsMeta(d), IsMeta(e), IsMeta(f),
           IsMeta(g), IsMeta(h)
    PROVE  IsTable(<<a, b, c, d, e, f, g, h>>)
<1>1. IsList(<<a, b, c, d, e, f, g, h>>, 8) /\ DOMAIN <<a, b, c, d, e, f, g, h>> = 1..8
  BY DEF IsList
<1>2. \A p \in 1..8 : \/ p = 1 \/ p = 2 \/ p = 3 \/ p = 4
                      \/ p = 5 \/ p = 6 \/ p = 7 \/ p = 8
  OBVIOUS
<1>3. QED
  BY <1>1, <1>2 DEF IsTable

LEMMA TableOfNine ==
    ASSUME NEW a, NEW b, NEW c, NEW d, NEW e, NEW f, NEW g, NEW h, NEW i,
           IsMeta(a), IsMeta(b), IsMeta(c), IsMeta(d), IsMeta(e), IsMeta(f),
           IsMeta(g), IsMeta(h), IsMeta(i)
    PROVE  IsTable(<<a, b, c, d, e, f, g, h, i>>)
<1>1. IsList(<<a, b, c, d, e, f, g, h, i>>, 9) /\ DOMAIN <<a, b, c, d, e, f, g, h, i>> = 1..9
  BY DEF IsList
<1>2. \A p \in 1..9 : \/ p = 1 \/ p = 2 \/ p = 3 \/ p = 4 \/ p = 5
                      \/ p = 6 \/ p = 7 \/ p = 8 \/ p = 9
  OBVIOUS
<1>3. QED
  BY <1>1, <1>2 DEF IsTable

LEMMA ListsOfArgs ==
    /\ IsList(<<>>, 0)
    /\ \A a : IsList(<<a>>, 1)
    /\ \A a, b : IsList(<<a, b>>, 2)
BY DEF IsList

LEMMA InitializeAgrees ==
    Agrees(InitializeBuilder, InitializeContext) /\ Agrees(InitializeCpiBuilder, InitializeContext)
<1>1. IsTable(InitializeAccounts)
  BY FlagsOfMeta, TableOfSix DEF InitializeAccounts
<1>2. /\ InitializeCpi = InitializeAccounts
      /\ InitializeContext = Context(InitializeAccounts, <<>>)
  BY DEF InitializeCpi, InitializeAccounts, InitializeContext
<1>3. QED
  BY <1>1, <1>2, ListsOfArgs DEF Agrees, InitializeBuilder, InitializeCpiBuilder, BuilderOf, Context

LEMMA SetBotAgrees ==
    Agrees(SetBotBuilder, SetBotContext) /\ Agrees(SetBotCpiBuilder, SetBotContext)
<1>1. IsTable(SetBotAccounts)
  BY FlagsOfMeta, TableOfFour DEF SetBotAccounts
<1>2. /\ SetBotCpi = SetBotAccounts
      /\ SetBotContext = Context(SetBotAccounts, <<>>)
  BY DEF SetBotCpi, SetBotAccounts, SetBotContext
<1>3. QED
  BY <1>1, <1>2, ListsOfArgs DEF Agrees, SetBotBuilder, SetBotCpiBuilder, BuilderOf, Context

LEMMA SetTreasuryAgrees ==
    Agrees(SetTreasuryBuilder, SetTreasuryContext) /\ Agrees(SetTreasuryCpiBuilder, SetTreasuryContext)
<1>1. IsTable(SetTreasuryAccounts)
  BY FlagsOfMeta, TableOfFour DEF SetTreasuryAccounts
<1>2. /\ SetTreasuryCpi = SetTreasuryAccounts
      /\ SetTreasuryContext = Context(SetTreasuryAccounts, <<>>)
  BY DEF SetTreasuryCpi, SetTreasuryAccounts, SetTreasuryContext
<1>3. QED
  BY <1>1, <1>2, ListsOfArgs DEF Agrees, SetTreasuryBuilder, SetTreasuryCpiBuilder, BuilderOf, Context

LEMMA RegisterAgrees ==
    Agrees(RegisterBuilder, RegisterContext) /\ Agrees(RegisterCpiBuilder, RegisterContext)
<1>1. IsTable(RegisterAccounts)
  BY FlagsOfMeta, TableOfFive DEF RegisterAccounts
<1>2. /\ RegisterCpi = RegisterAccounts
      /\ RegisterContext = Context(RegisterAccounts, <<>>)
  BY DEF RegisterCpi, RegisterAccounts, RegisterContext
<1>3. QED
  BY <1>1, <1>2, ListsOfArgs DEF Agrees, RegisterBuilder, RegisterCpiBuilder, BuilderOf, Context

LEMMA DepositAgrees ==
    Agrees(DepositBuilder, DepositContext) /\ Agrees(DepositCpiBuilder, DepositContext)
<1>1. IsTable(DepositAccounts)
  BY FlagsOfMeta, TableOfFive DEF DepositAccounts
<1>2. /\ DepositCpi = DepositAccounts
      /\ DepositContext = Context(DepositAccounts, DepositArgs)
  BY DEF DepositCpi, DepositAccounts, DepositContext, DepositArgs
<1>3. QED
  BY <1>1, <1>2, ListsOfArgs DEF Agrees, DepositBuilder, DepositCpiBuilder, BuilderOf, Context, DepositArgs

LEMMA WithdrawAgrees ==
    Agrees(WithdrawBuilder, WithdrawContext) /\ Agrees(WithdrawCpiBuilder, WithdrawContext)
<1>1. IsTable(WithdrawAccounts)
  BY FlagsOfMeta, TableOfFive DEF WithdrawAccounts
<1>2. /\ WithdrawCpi = WithdrawAccounts
      /\ WithdrawContext = Context(WithdrawAccounts, WithdrawArgs)
  BY DEF WithdrawCpi, WithdrawAccounts, WithdrawContext, WithdrawArgs
<1>3. QED
  BY <1>1, <1>2, ListsOfArgs DEF Agrees, WithdrawBuilder, WithdrawCpiBuilder, BuilderOf, Context, WithdrawArgs

LEMMA LockAgrees ==
    Agrees(LockBuilder, LockContext) /\ Agrees(LockCpiBuilder, LockContext)
<1>1. IsTable(LockAccounts)
  BY FlagsOfMeta, TableOfEight DEF LockAccounts
<1>2. /\ LockCpi = LockAccounts
      /\ LockContext = Context(LockAccounts, LockArgs)
  BY DEF LockCpi, LockAccounts, LockContext, LockArgs
<1>3. QED
  BY <1>1, <1>2, ListsOfArgs DEF Agrees, LockBuilder, LockCpiBuilder, BuilderOf, Context, LockArgs

LEMMA SettleAgrees ==
    Agrees(SettleBuilder, SettleContext) /\ Agrees(SettleCpiBuilder, SettleContext)
<1>1. IsTable(SettleAccounts)
  BY FlagsOfMeta, TableOfNine DEF SettleAccounts
<1>2. /\ SettleCpi = SettleAccounts
      /\ SettleContext = Context(SettleAccounts, SettleArgs)
  BY DEF SettleCpi, SettleAccounts, SettleContext, SettleArgs
<1>3. QED
  BY <1>1, <1>2, ListsOfArgs DEF Agrees, SettleBuilder, SettleCpiBuilder, BuilderOf, Context, SettleArgs

LEMMA PayAgrees ==
    Agrees(PayBuilder, PayContext) /\ Agrees(PayCpiBuilder, PayContext)
<1>1. IsTable(PayAccounts)
  BY FlagsOfMeta, TableOfEight DEF PayAccounts
<1>2. /\ PayCpi = PayAccounts
      /\ PayContext = Context(PayAccounts, PayArgs)
  BY DEF PayCpi, PayAccounts, PayContext, PayArgs
<1>3. QED
  BY <1>1, <1>2, ListsOfArgs DEF Agrees, PayBuilder, PayCpiBuilder, BuilderOf, Context, PayArgs

\* Client and program agree on every instruction.
LEMMA InterfaceAgrees ==
    ASSUME NEW name \in Names, NEW via \in Vias
    PROVE  Agrees(Interface[name][via], Interface[name].context)
<1>1. Names = {"initialize", "set_bot", "set_treasury", "register", "deposit",
               "withdraw", "lock", "settle", "pay"}
  BY DEF Names, Interface
<1>2. via = "builder" \/ via = "cpi"
  BY DEF Vias
<1>3. CASE name = "initialize"
  BY <1>2, <1>3, InitializeAgrees DEF Interface
<1>4. CASE name = "set_bot"
  BY <1>2, <1>4, SetBotAgrees DEF Interface
<1>5. CASE name = "set_treasury"
  BY <1>2, <1>5, SetTreasuryAgrees DEF Interface
<1>6. CASE name = "register"
  BY <1>2, <1>6, RegisterAgrees DEF Interface
<1>7. CASE name = "deposit"
  BY <1>2, <1>7, DepositAgrees DEF Interface
<1>8. CASE name = "withdraw"
  BY <1>2, <1>8, WithdrawAgrees DEF Interface
<1>9. CASE name = "lock"
  BY <1>2, <1>9, LockAgrees DEF Interface
<1>10. CASE name = "settle"
  BY <1>2, <1>10, SettleAgrees DEF Interface
<1>11. CASE name = "pay"
  BY <1>2, <1>11, PayAgrees DEF Interface
<1>12. QED
  BY <1>1, <1>3, <1>4, <1>5, <1>6, <1>7, <1>8, <1>9, <1>10, <1>11
-----------------------------------------------------------------------------
(***************************************************************************)
(* Lists, whatever they hold.                                              *)
(***************************************************************************)

LEMMA ListIsSequence ==
    ASSUME NEW n, NEW list, IsList(list, n)
    PROVE  list \in Seq({list[p] : p \in 1..n}) /\ Len(list) = n /\ DOMAIN list = 1..n
<1>1. n \in Nat /\ list = [p \in 1..n |-> list[p]]
  BY DEF IsList
<1>2. list \in [1..n -> {list[p] : p \in 1..n}]
  BY <1>1
<1>3. list \in Seq({list[p] : p \in 1..n})
  BY <1>1, <1>2
<1>4. QED
  BY <1>1, <1>2, <1>3

LEMMA SequenceIsList ==
    ASSUME NEW S, NEW list \in Seq(S)
    PROVE  IsList(list, Len(list))
BY DEF IsList

LEMMA AppendToList ==
    ASSUME NEW n, NEW list, IsList(list, n), NEW entry
    PROVE  IsList(Append(list, entry), n + 1)
<1> DEFINE S == {list[p] : p \in 1..n} \cup {entry}
<1>1. list \in Seq(S) /\ entry \in S /\ Len(list) = n /\ n \in Nat
  <2>1. list \in Seq({list[p] : p \in 1..n}) /\ Len(list) = n /\ n \in Nat
    BY ListIsSequence DEF IsList
  <2>2. \A p \in DOMAIN list : list[p] \in S
    BY <2>1
  <2>3. QED
    BY <2>1, <2>2
<1> HIDE DEF S
<1>2. Append(list, entry) \in Seq(S) /\ Len(Append(list, entry)) = n + 1
  BY <1>1
<1>3. QED
  BY <1>1, <1>2 DEF IsList

\* Two lists, one after the other.
Joins(joined, first, second) == joined = first \o second

LEMMA ListsJoined ==
    ASSUME NEW m \in Nat, NEW n \in Nat, NEW first, NEW second, NEW joined,
           IsList(first, m), IsList(second, n), Joins(joined, first, second)
    PROVE  /\ IsList(joined, m + n)
           /\ Len(joined) = m + n
           /\ \A p \in 1..m : joined[p] = first[p]
           /\ \A p \in 1..n : joined[m + p] = second[p]
<1> DEFINE S == {first[p] : p \in 1..m} \cup {second[p] : p \in 1..n}
<1>1. /\ first \in Seq({first[p] : p \in 1..m}) /\ Len(first) = m
      /\ second \in Seq({second[p] : p \in 1..n}) /\ Len(second) = n
  BY ListIsSequence
<1>2. first \in Seq(S) /\ second \in Seq(S)
  <2>1. \A p \in 1..m : first[p] \in S
    OBVIOUS
  <2>2. \A p \in 1..n : second[p] \in S
    OBVIOUS
  <2>3. QED
    BY <1>1, <2>1, <2>2
<1> HIDE DEF S
<1>3. /\ joined \in Seq(S) /\ Len(joined) = m + n
      /\ \A p \in 1..(m + n) : joined[p] = IF p <= m THEN first[p] ELSE second[p - m]
  <2>1. /\ first \o second \in Seq(S)
        /\ Len(first \o second) = Len(first) + Len(second)
        /\ \A p \in 1..(Len(first) + Len(second)) :
               (first \o second)[p] = IF p <= Len(first) THEN first[p] ELSE second[p - Len(first)]
    BY <1>2, ConcatProperties, Zenon
  <2>2. QED
    BY <1>1, <2>1, Zenon DEF Joins
<1>4. IsList(joined, m + n)
  BY <1>3, SequenceIsList
<1>5. \A p \in 1..m : joined[p] = first[p]
  BY <1>3
<1>6. \A p \in 1..n : joined[m + p] = second[p]
  BY <1>3
<1>7. QED
  BY <1>3, <1>4, <1>5, <1>6
-----------------------------------------------------------------------------
(***************************************************************************)
(* The builder.                                                            *)
(***************************************************************************)

\* The fields a builder has setters for.
Settable(table) == Fields(table.accounts) \cup {table.args[p] : p \in DOMAIN table.args}

BuilderInv ==
    InUse =>
        /\ builder = [of |-> builder.of, via |-> builder.via, set |-> builder.set,
                      remaining |-> builder.remaining]
        /\ builder.of \in Names
        /\ builder.via \in Vias
        /\ builder.set \in [Settable(Table) -> 0..MaxSet]
        /\ \E n \in 0..MaxRemaining : IsList(builder.remaining, n)

LEMMA BuilderInit == Init => BuilderInv
BY DEF Init, BuilderInv, InUse

LEMMA BuilderStep ==
    ASSUME BuilderInv, [Next]_bvars
    PROVE  BuilderInv'
<1>1. CASE UNCHANGED builder
  BY <1>1 DEF BuilderInv, InUse, Table
<1>2. ASSUME NEW name \in Names, NEW via \in Vias, New(name, via)
      PROVE  BuilderInv'
  <2> DEFINE table == Interface[name][via]
             set == [f \in Settable(table) |-> 0]
  <2>1. builder' = [of |-> name, via |-> via, set |-> set, remaining |-> <<>>]
    BY <1>2 DEF New, Settable
  <2>2. Table' = table /\ set \in [Settable(table) -> 0..MaxSet]
    <3>1. 0 \in 0..MaxSet
      BY BuilderAssumption
    <3>2. QED
      BY <2>1, <3>1 DEF Table
  <2>3. IsList(<<>>, 0) /\ 0 \in 0..MaxRemaining
    BY ListsOfArgs, BuilderAssumption
  <2> HIDE DEF table, set
  <2>4. /\ builder'.of = name /\ builder'.via = via /\ builder'.set = set
        /\ builder'.remaining = <<>>
    BY <2>1
  <2>5. QED
    BY <2>1, <2>2, <2>3, <2>4 DEF BuilderInv
<1>3. ASSUME InUse, NEW field \in DOMAIN builder.set, Set(field)
      PROVE  BuilderInv'
  <2> DEFINE set == [builder.set EXCEPT ![field] = @ + 1]
  <2>1. /\ builder = [of |-> builder.of, via |-> builder.via, set |-> builder.set,
                      remaining |-> builder.remaining]
        /\ builder.of \in Names
        /\ builder.via \in Vias
        /\ builder.set \in [Settable(Table) -> 0..MaxSet]
        /\ \E n \in 0..MaxRemaining : IsList(builder.remaining, n)
    BY <1>3 DEF BuilderInv
  <2>2. builder' = [builder EXCEPT !.set = set] /\ builder.set[field] < MaxSet
    BY <1>3 DEF Set
  <2>3. set \in [Settable(Table) -> 0..MaxSet]
    <3>1. builder.set[field] \in 0..MaxSet
      BY <1>3, <2>1
    <3>2. builder.set[field] + 1 \in 0..MaxSet
      BY <2>2, <3>1, BuilderAssumption
    <3>3. QED
      BY <2>1, <3>2
  <2> HIDE DEF set
  <2>4. builder' = [of |-> builder.of, via |-> builder.via, set |-> set,
                    remaining |-> builder.remaining]
    BY <2>1, <2>2
  <2>5. /\ builder'.of = builder.of /\ builder'.via = builder.via /\ builder'.set = set
        /\ builder'.remaining = builder.remaining
    BY <2>4
  <2>6. Table' = Table
    BY <2>5 DEF Table
  <2>7. QED
    BY <2>1, <2>3, <2>4, <2>5, <2>6 DEF BuilderInv
<1>4. ASSUME NEW is_writable \in BOOLEAN, NEW is_signer \in BOOLEAN,
             AddRemaining(is_writable, is_signer)
      PROVE  BuilderInv'
  <2> DEFINE added == <<Value("remaining", Len(builder.remaining)), is_writable, is_signer>>
             remaining == Append(builder.remaining, added)
  <2>1. /\ builder = [of |-> builder.of, via |-> builder.via, set |-> builder.set,
                      remaining |-> builder.remaining]
        /\ builder.of \in Names
        /\ builder.via \in Vias
        /\ builder.set \in [Settable(Table) -> 0..MaxSet]
        /\ \E n \in 0..MaxRemaining : IsList(builder.remaining, n)
    BY <1>4 DEF BuilderInv, AddRemaining
  <2>2. builder' = [builder EXCEPT !.remaining = remaining] /\ Len(builder.remaining) < MaxRemaining
    BY <1>4 DEF AddRemaining
  <2> HIDE DEF added
  <2>3. PICK n \in 0..MaxRemaining : IsList(builder.remaining, n)
    BY <2>1
  <2>4. IsList(remaining, n + 1) /\ n + 1 \in 0..MaxRemaining
    <3>1. Len(builder.remaining) = n
      BY <2>3, ListIsSequence
    <3>2. IsList(remaining, n + 1)
      BY <2>3, AppendToList
    <3>3. n + 1 \in 0..MaxRemaining
      BY <2>2, <3>1, BuilderAssumption
    <3>4. QED
      BY <3>2, <3>3
  <2> HIDE DEF remaining
  <2>5. builder' = [of |-> builder.of, via |-> builder.via, set |-> builder.set,
                    remaining |-> remaining]
    BY <2>1, <2>2
  <2>6. /\ builder'.of = builder.of /\ builder'.via = builder.via /\ builder'.set = builder.set
        /\ builder'.remaining = remaining
    BY <2>5
  <2>7. Table' = Table
    BY <2>6 DEF Table
  <2>8. QED
    BY <2>1, <2>4, <2>5, <2>6, <2>7 DEF BuilderInv
<1>5. CASE Issue
  BY <1>1, <1>5 DEF Issue
<1>6. CASE Panic
  BY <1>6 DEF Panic, BuilderInv, InUse
<1>7. QED
  BY <1>1, <1>2, <1>3, <1>4, <1>5, <1>6 DEF Next, bvars
-----------------------------------------------------------------------------
(***************************************************************************)
(* What is built.  Position by position, the instruction has the account   *)
(* and the privileges of the context's name there; so whichever position   *)
(* Anchor takes a name from, the setter of that name filled it.            *)
(***************************************************************************)

\* The accounts the context names, then the additional ones.
LEMMA BuiltAccounts ==
    ASSUME BuilderInv, InUse
    PROVE  LET wanted == Interface[builder.of].context.accounts
           IN  /\ \E n \in Nat : IsList(wanted, n)
               /\ Len(wanted) \in Nat /\ Len(builder.remaining) \in Nat
               /\ Len(Built.accounts) = Len(wanted) + Len(builder.remaining)
               /\ \A p \in DOMAIN builder.remaining :
                      Built.accounts[Len(wanted) + p] = RemainingMeta(builder.remaining[p])
               /\ \A p \in DOMAIN wanted :
                      /\ Built.accounts[p] =
                             Meta(Key(wanted[p].account), wanted[p].writable, wanted[p].signer)
                      /\ wanted[p].writable \in BOOLEAN /\ wanted[p].signer \in BOOLEAN
<1> DEFINE wanted == Table.accounts
           key == [field \in Fields(wanted) |-> Key(field)]
           sent == [p \in DOMAIN wanted |-> [wanted[p] EXCEPT !.account = key[@]]]
<1>1. /\ wanted = Interface[builder.of].context.accounts
      /\ IsTable(wanted)
      /\ \E n \in 0..MaxRemaining : IsList(builder.remaining, n)
  BY InterfaceAgrees DEF BuilderInv, Agrees, Table
<1>2. Built.accounts = sent \o Remaining
  BY DEF Built, Instruction
<1> HIDE DEF wanted
<1>3. PICK m \in Nat : IsList(wanted, m)
  BY <1>1 DEF IsTable
<1>4. PICK n \in 0..MaxRemaining : IsList(builder.remaining, n)
  BY <1>1
<1>5. DOMAIN wanted = 1..m /\ Len(wanted) = m
  BY <1>3, ListIsSequence
<1>6. IsList(sent, m)
  BY <1>3, <1>5 DEF IsList
<1>7. IsList(Remaining, n)
  <2>1. DOMAIN builder.remaining = 1..n
    BY <1>4, ListIsSequence
  <2>2. QED
    BY <1>4, <2>1 DEF IsList, Remaining
<1>8. \A p \in 1..m : sent[p] = Meta(Key(wanted[p].account), wanted[p].writable, wanted[p].signer)
  <2> SUFFICES ASSUME NEW p \in 1..m
               PROVE  sent[p] = Meta(Key(wanted[p].account), wanted[p].writable, wanted[p].signer)
    OBVIOUS
  <2>1. wanted[p] = Meta(wanted[p].account, wanted[p].writable, wanted[p].signer)
    BY <1>1, <1>5 DEF IsTable, IsMeta
  <2>2. wanted[p].account \in Fields(wanted)
    BY <1>5 DEF Fields
  <2>3. key[wanted[p].account] = Key(wanted[p].account)
    BY <2>2
  <2> HIDE DEF key
  <2>4. sent[p] = [wanted[p] EXCEPT !.account = key[wanted[p].account]]
    BY <1>5
  <2>5. QED
    BY <2>1, <2>3, <2>4 DEF Meta
<1> HIDE DEF sent, key
<1>9. PICK first, second, joined :
          first = sent /\ second = Remaining /\ Joins(joined, first, second)
  BY DEF Joins
<1>10. /\ Len(joined) = m + n
       /\ \A p \in 1..m : joined[p] = first[p]
       /\ \A p \in 1..n : joined[m + p] = second[p]
  <2>1. IsList(first, m) /\ IsList(second, n) /\ n \in Nat
    BY <1>6, <1>7, <1>9, BuilderAssumption
  <2>2. QED
    BY <1>9, <2>1, ListsJoined
<1>11. /\ Len(wanted) \in Nat /\ Len(builder.remaining) \in Nat
       /\ Len(Built.accounts) = Len(wanted) + Len(builder.remaining)
       /\ \A p \in DOMAIN builder.remaining :
              Built.accounts[Len(wanted) + p] = RemainingMeta(builder.remaining[p])
  <2>1. n \in Nat /\ Len(builder.remaining) = n /\ DOMAIN builder.remaining = 1..n
    <3>1. Len(builder.remaining) = n /\ DOMAIN builder.remaining = 1..n
      BY <1>4, ListIsSequence
    <3>2. QED
      BY <3>1, BuilderAssumption
  <2>2. Built.accounts = joined
    BY <1>2, <1>9 DEF Joins
  <2>3. \A p \in 1..n : Remaining[p] = RemainingMeta(builder.remaining[p])
    BY <2>1 DEF Remaining
  <2>4. QED
    BY <1>5, <1>9, <1>10, <2>1, <2>2, <2>3
<1>12. \A p \in DOMAIN wanted :
          /\ Built.accounts[p] =
                 Meta(Key(wanted[p].account), wanted[p].writable, wanted[p].signer)
          /\ wanted[p].writable \in BOOLEAN /\ wanted[p].signer \in BOOLEAN
  BY <1>1, <1>2, <1>5, <1>8, <1>9, <1>10 DEF IsTable, IsMeta, Joins
<1>13. QED
  BY <1>1, <1>3, <1>11, <1>12

\* The discriminator, then the arguments of the handler in order.
LEMMA BuiltData ==
    ASSUME BuilderInv, InUse
    PROVE  LET args == Interface[builder.of].context.args
           IN  /\ \E n \in Nat : IsList(args, n) /\ IsList(Built.data, 1 + n)
               /\ Built.data[1] = builder.of
               /\ \A p \in DOMAIN args :
                      /\ Built.data[1 + p] = Value(args[p], builder.set[args[p]])
                      /\ args[p] \in DOMAIN builder.set \ Table.optional
<1> DEFINE args == Table.args
           value == [a \in DOMAIN builder.set |-> Value(a, builder.set[a])]
           values == [p \in DOMAIN args |-> value[args[p]]]
<1>1. /\ args = Interface[builder.of].context.args
      /\ \E n \in Nat : IsList(args, n)
      /\ \A p \in DOMAIN args : args[p] \notin Table.optional
  BY InterfaceAgrees DEF BuilderInv, Agrees, Table
<1>2. Built.data = <<builder.of>> \o values
  BY DEF Built, Instruction
<1>3. DOMAIN builder.set = Settable(Table) /\ \A p \in DOMAIN args : args[p] \in Settable(Table)
  BY DEF BuilderInv, Settable
<1> HIDE DEF args
<1>4. PICK n \in Nat : IsList(args, n)
  BY <1>1
<1>5. DOMAIN args = 1..n
  BY <1>4, ListIsSequence
<1>6. IsList(values, n)
  BY <1>4, <1>5 DEF IsList
<1>7. \A p \in 1..n : values[p] = Value(args[p], builder.set[args[p]])
  BY <1>3, <1>5
<1> HIDE DEF values
<1>8. PICK first, second, joined :
          first = <<builder.of>> /\ second = values /\ Joins(joined, first, second)
  BY DEF Joins
<1>9. first[1] = builder.of
  BY <1>8
<1>10. /\ IsList(joined, 1 + n)
       /\ \A p \in 1..1 : joined[p] = first[p]
       /\ \A p \in 1..n : joined[1 + p] = second[p]
  <2>1. IsList(first, 1) /\ IsList(second, n)
    BY <1>6, <1>8, ListsOfArgs
  <2>2. QED
    BY <1>8, <2>1, ListsJoined
<1>11. joined[1] = first[1]
  BY <1>10
<1>12. Built.data = joined
  BY <1>2, <1>8 DEF Joins
<1>13. \A p \in 1..n : Built.data[1 + p] = Value(args[p], builder.set[args[p]])
  BY <1>7, <1>8, <1>10, <1>12
<1>14. \A p \in DOMAIN args : args[p] \in DOMAIN builder.set \ Table.optional
  BY <1>1, <1>3
<1>15. QED
  BY <1>1, <1>4, <1>5, <1>9, <1>10, <1>11, <1>12, <1>13, <1>14

\* The handler finds under every name what the setter of that name was given.
LEMMA BuiltArrives ==
    ASSUME BuilderInv, InUse
    PROVE  ArrivesAsSet(Built)
<1>1. PICK context : context = Interface[builder.of].context
  OBVIOUS
<1>2. ASSUME NEW field \in Fields(context.accounts)
      PROVE  Bound(context, Built, field) = Key(field)
  <2>1. PICK p \in DOMAIN context.accounts :
            p = Position(context.accounts, field) /\ context.accounts[p].account = field
    BY DEF Fields, Position
  <2>2. Built.accounts[p] = Meta(Key(field), context.accounts[p].writable,
                                 context.accounts[p].signer)
    BY <1>1, <2>1, BuiltAccounts
  <2>3. QED
    BY <2>1, <2>2 DEF Bound, Meta
<1>3. ASSUME NEW p \in DOMAIN context.args
      PROVE  Received(context, Built, context.args[p])
                 = Value(context.args[p], builder.set[context.args[p]])
  <2> DEFINE q == CHOOSE q \in DOMAIN context.args : context.args[q] = context.args[p]
  <2>1. q \in DOMAIN context.args /\ context.args[q] = context.args[p]
    OBVIOUS
  <2>2. Received(context, Built, context.args[p]) = Built.data[1 + q]
    BY DEF Received
  <2> HIDE DEF q
  <2>3. QED
    BY <1>1, <2>1, <2>2, BuiltData
<1>4. Built.data[1] = builder.of
  BY BuiltData
<1>5. QED
  BY <1>1, <1>2, <1>3, <1>4 DEF ArrivesAsSet
-----------------------------------------------------------------------------
(***************************************************************************)
(* Instructions that were issued.                                          *)
(***************************************************************************)

\* The instruction has every account and argument of its context, each with a
\* value that was given, and the context's privileges.
WellIssued(instruction) ==
    LET context == Interface[instruction.data[1]].context
    IN  /\ Len(instruction.data) = 1 + Len(context.args)
        /\ \A p \in 2..Len(instruction.data) : instruction.data[p][2] > 0
        /\ Len(instruction.accounts) >= Len(context.accounts)
        /\ \A p \in DOMAIN context.accounts :
               /\ instruction.accounts[p].account[2] > 0
               /\ instruction.accounts[p].writable = context.accounts[p].writable
               /\ instruction.accounts[p].signer = context.accounts[p].signer

IssuedInv == issued # Nothing => WellIssued(issued)

\* A setter that was never called leaves a default behind, or there is none and
\* the builder panics.
LEMMA KeysGiven ==
    ASSUME BuilderInv, InUse, Complete, NEW field \in Fields(Table.accounts)
    PROVE  Key(field)[2] > 0
<1>1. /\ field \in DOMAIN builder.set
      /\ builder.set[field] \in 0..MaxSet
  BY DEF BuilderInv, Settable
<1>2. CASE builder.set[field] = 0 /\ field \in Table.optional
  BY <1>2 DEF Key, SystemProgram, Value
<1>3. CASE ~(builder.set[field] = 0 /\ field \in Table.optional)
  <2>1. builder.set[field] > 0
    BY <1>1, <1>3, BuilderAssumption DEF Complete
  <2>2. Key(field) = <<field, builder.set[field]>>
    BY <1>3 DEF Key, Value
  <2>3. QED
    BY <2>1, <2>2
<1>4. QED
  BY <1>2, <1>3

LEMMA BuiltWell ==
    ASSUME BuilderInv, InUse, Complete
    PROVE  WellIssued(Built)
<1>1. PICK context : context = Interface[builder.of].context
  OBVIOUS
<1>2. /\ Table.accounts = context.accounts
      /\ Built.data[1] = builder.of
  BY <1>1, InterfaceAgrees, BuiltData DEF BuilderInv, Agrees, Table
<1>3. /\ Len(Built.data) = 1 + Len(context.args)
      /\ \A p \in 2..Len(Built.data) : Built.data[p][2] > 0
  <2>1. PICK n \in Nat : IsList(context.args, n) /\ IsList(Built.data, 1 + n)
    BY <1>1, BuiltData
  <2>2. Len(context.args) = n /\ DOMAIN context.args = 1..n /\ Len(Built.data) = 1 + n
    BY <2>1, ListIsSequence
  <2>3. ASSUME NEW p \in 1..n
        PROVE  Built.data[1 + p][2] > 0
    <3>1. /\ Built.data[1 + p] = Value(context.args[p], builder.set[context.args[p]])
          /\ context.args[p] \in DOMAIN builder.set \ Table.optional
      BY <1>1, <2>2, BuiltData
    <3>2. builder.set[context.args[p]] > 0
      BY <3>1 DEF Complete
    <3>3. QED
      BY <3>1, <3>2 DEF Value
  <2>4. ASSUME NEW p \in 2..(1 + n)
        PROVE  Built.data[p][2] > 0
    <3>1. PICK q \in 1..n : p = 1 + q
      <4>1. p - 1 \in 1..n /\ p = 1 + (p - 1)
        OBVIOUS
      <4>2. QED
        BY <4>1
    <3>2. QED
      BY <2>3, <3>1
  <2>5. QED
    BY <2>2, <2>4
<1>4. Len(Built.accounts) >= Len(context.accounts)
  <2>1. /\ Len(context.accounts) \in Nat /\ Len(builder.remaining) \in Nat
        /\ Len(Built.accounts) = Len(context.accounts) + Len(builder.remaining)
    BY <1>1, BuiltAccounts
  <2>2. ASSUME NEW sent, NEW a \in Nat, NEW b \in Nat, sent = a + b PROVE sent >= a
    BY <2>2
  <2>3. QED
    BY <2>1, <2>2
<1>5. ASSUME NEW p \in DOMAIN context.accounts
      PROVE  /\ Built.accounts[p].account[2] > 0
             /\ Built.accounts[p].writable = context.accounts[p].writable
             /\ Built.accounts[p].signer = context.accounts[p].signer
  <2>1. Built.accounts[p] = Meta(Key(context.accounts[p].account),
                                 context.accounts[p].writable, context.accounts[p].signer)
    BY <1>1, BuiltAccounts
  <2>2. Key(context.accounts[p].account)[2] > 0
    BY <1>2, KeysGiven DEF Fields
  <2>3. QED
    BY <2>1, <2>2 DEF Meta
<1>6. QED
  BY <1>1, <1>2, <1>3, <1>4, <1>5 DEF WellIssued

LEMMA BuildersHold == Spec => [](BuilderInv /\ IssuedInv)
<1>1. Init => BuilderInv /\ IssuedInv
  BY BuilderInit DEF Init, IssuedInv
<1>2. BuilderInv /\ IssuedInv /\ [Next]_bvars => (BuilderInv /\ IssuedInv)'
  <2> SUFFICES ASSUME BuilderInv, IssuedInv, [Next]_bvars
               PROVE  IssuedInv'
    BY BuilderStep
  <2>1. UNCHANGED issued \/ (InUse /\ Complete /\ issued' = Built)
    BY DEF Next, bvars, New, Set, AddRemaining, Issue, Panic
  <2>2. CASE UNCHANGED issued
    BY <2>2 DEF IssuedInv, WellIssued
  <2>3. CASE InUse /\ Complete /\ issued' = Built
    BY <2>3, BuiltWell DEF IssuedInv, WellIssued
  <2>4. QED
    BY <2>1, <2>2, <2>3
<1>3. QED
  BY <1>1, <1>2, PTL DEF Spec

\* Whatever is issued is complete: no account or argument of it is one that
\* was never given, however often and in whatever order setters were called.
THEOREM BuildersAreComplete == Spec => []BuilderTypeOK
<1>1. BuilderInv /\ IssuedInv => BuilderTypeOK
  <2> SUFFICES ASSUME BuilderInv, IssuedInv PROVE BuilderTypeOK
    OBVIOUS
  <2>1. ASSUME InUse
        PROVE  /\ builder.of \in Names /\ builder.via \in Vias
               /\ \A f \in DOMAIN builder.set : builder.set[f] \in 0..MaxSet
               /\ Len(builder.remaining) <= MaxRemaining
    <3>1. PICK n \in 0..MaxRemaining : IsList(builder.remaining, n)
      BY <2>1 DEF BuilderInv
    <3>2. Len(builder.remaining) <= MaxRemaining
      <4>1. Len(builder.remaining) = n
        BY <3>1, ListIsSequence
      <4>2. QED
        BY <4>1, BuilderAssumption
    <3>3. QED
      BY <2>1, <3>2 DEF BuilderInv
  <2>2. QED
    BY <2>1 DEF BuilderTypeOK, IssuedInv, WellIssued, IssuedContext
<1>2. QED
  BY <1>1, BuildersHold, PTL

LEMMA BuiltAsks ==
    ASSUME BuilderInv, InUse, Complete
    PROVE  AsksPrivileges(Built)
<1>1. PICK context : context = Interface[builder.of].context
  OBVIOUS
<1>2. /\ Len(Built.accounts) >= Len(context.accounts)
      /\ \A p \in DOMAIN context.accounts :
             /\ Built.accounts[p].writable = context.accounts[p].writable
             /\ Built.accounts[p].signer = context.accounts[p].signer
  BY <1>1, BuiltWell, BuiltData DEF WellIssued
<1>3. Admits(context, Built)
  BY <1>2 DEF Admits
<1>4. Len(Built.accounts) = Len(context.accounts) + Len(builder.remaining)
  BY <1>1, BuiltAccounts
<1>5. ASSUME NEW p \in DOMAIN builder.remaining,
             builder.via = "builder" \/ builder.remaining[p][2] = builder.remaining[p][3]
      PROVE  AddedAs(Built, p)
  <2>1. RemainingMeta(builder.remaining[p])
            = Meta(builder.remaining[p][1], builder.remaining[p][2], builder.remaining[p][3])
    BY <1>5 DEF RemainingMeta
  <2>2. QED
    BY <2>1, BuiltAccounts DEF AddedAs
<1>6. QED
  BY <1>1, <1>2, <1>3, <1>4, <1>5 DEF AsksPrivileges

\* For the accounts of its handler's context an instruction asks for the
\* privileges the context asks for, no fewer, or Anchor would refuse it, and no
\* others; any number of additional accounts follow with the flags they were
\* added with, but for those of a CpiBuilder whose two flags differ.
THEOREM PrivilegesAreAsked == Spec => PrivilegesMatch
<1>1. BuilderInv /\ [Next]_bvars => [issued' # issued => AsksPrivileges(issued')]_bvars
  <2> SUFFICES ASSUME BuilderInv, [Next]_bvars, issued' # issued
               PROVE  AsksPrivileges(issued')
    OBVIOUS
  <2>1. InUse /\ Complete /\ issued' = Built
    BY DEF Next, bvars, New, Set, AddRemaining, Issue, Panic
  <2>2. QED
    BY <2>1, BuiltAsks
<1>2. QED
  BY <1>1, BuildersHold, PTL DEF Spec, PrivilegesMatch

\* The handler finds under every name of its context what the setter of that
\* name was last given, for every instruction and both of its builders, after
\* any calls of the setters and however often the builder was used before.
THEOREM BuildersKeepNames == Spec => AccountsArriveAsSet
<1>1. BuilderInv /\ [Next]_bvars => [issued' # issued => ArrivesAsSet(issued')]_bvars
  <2> SUFFICES ASSUME BuilderInv, [Next]_bvars, issued' # issued
               PROVE  ArrivesAsSet(issued')
    OBVIOUS
  <2>1. InUse /\ issued' = Built
    BY DEF Next, bvars, New, Set, AddRemaining, Issue, Panic
  <2>2. QED
    BY <2>1, BuiltArrives
<1>2. QED
  BY <1>1, BuildersHold, PTL DEF Spec, AccountsArriveAsSet
=============================================================================
