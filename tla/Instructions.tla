---------------------------- MODULE Instructions ----------------------------
(***************************************************************************)
(* The interface between the program and its generated client.  For every  *)
(* instruction: the accounts the client sends, in order and with their     *)
(* privileges, and the order of its arguments; the builders over them, for *)
(* transactions and for calls from other programs (CPI); and the context   *)
(* the program's handler asks for.  Client and program are separate code   *)
(* that only agrees by position, so each has a table of its own.           *)
(***************************************************************************)
EXTENDS Integers, Sequences

\* AccountMeta.  In the tables an account is the name of a field, in an
\* instruction it is a key.
Meta(account, writable, signer) ==
    [account |-> account, writable |-> writable, signer |-> signer]
Reads(account) == Meta(account, FALSE, FALSE)
Writes(account) == Meta(account, TRUE, FALSE)
Signs(account) == Meta(account, FALSE, TRUE)
SignsAndWrites(account) == Meta(account, TRUE, TRUE)

Fields(accounts) == {accounts[p].account : p \in DOMAIN accounts}
Position(accounts, field) == CHOOSE p \in DOMAIN accounts : accounts[p].account = field

\* A builder has a setter for each account and argument; the optional accounts
\* have a default, and any other that is not set is a panic.
BuilderOf(accounts, args, optional) ==
    [accounts |-> accounts, args |-> args, optional |-> optional]

\* What a handler's #[derive(Accounts)] struct and parameter list ask for: an
\* account it changes or creates must be writable, a Signer must have signed.
Context(accounts, args) == [accounts |-> accounts, args |-> args]

\* instruction_with_remaining_accounts: the metas in order, then the remaining
\* ones; the data is the discriminator, then the arguments in order.
Instruction(name, accounts, key, args, value, remaining) ==
    [accounts |-> [p \in DOMAIN accounts |-> [accounts[p] EXCEPT !.account = key[@]]]
                  \o remaining,
     data     |-> <<name>> \o [p \in DOMAIN args |-> value[args[p]]]]

\* What the handler finds under a name of its context: Anchor hands accounts
\* and arguments out by position.
Bound(context, instruction, field) ==
    instruction.accounts[Position(context.accounts, field)].account
Received(context, instruction, arg) ==
    instruction.data[1 + (CHOOSE p \in DOMAIN context.args : context.args[p] = arg)]

\* Anchor refuses an instruction with too few accounts, or with one that lacks
\* a privilege the context asks for.
Admits(context, instruction) ==
    /\ Len(instruction.accounts) >= Len(context.accounts)
    /\ \A p \in DOMAIN context.accounts :
           /\ context.accounts[p].writable => instruction.accounts[p].writable
           /\ context.accounts[p].signer => instruction.accounts[p].signer
-----------------------------------------------------------------------------
\* Faulty variants of two tables, each with one plausible mistake.  No
\* specification uses them.

\* The arguments of settle in the order a caller thinks of them.
SettleArgsSwapped == <<"amount_to_transfer", "nonce">>

\* The account that lock creates is not writable.
LockCpiReadsLock == <<Reads("global_account"), Writes("user_account"), Writes("user"),
      Reads("lock_account"), Reads("vault"), Signs("bot"),
      SignsAndWrites("payer"), Reads("system_program")>>
-----------------------------------------------------------------------------
InitializeAccounts == <<Writes("global_account"), Reads("authority"),
      Reads("treasury"), Reads("bot"), SignsAndWrites("payer"),
      Reads("system_program")>>
InitializeBuilder == BuilderOf(InitializeAccounts, <<>>, {"system_program"})
InitializeCpi == <<Writes("global_account"), Reads("authority"),
      Reads("treasury"), Reads("bot"), SignsAndWrites("payer"),
      Reads("system_program")>>
InitializeCpiBuilder == BuilderOf(InitializeCpi, <<>>, {})
InitializeContext == Context(<<Writes("global_account"), Reads("authority"),
      Reads("treasury"), Reads("bot"), SignsAndWrites("payer"),
      Reads("system_program")>>, <<>>)

SetBotAccounts == <<Writes("global_account"), Signs("authority"),
      Reads("bot"), SignsAndWrites("payer")>>
SetBotBuilder == BuilderOf(SetBotAccounts, <<>>, {})
SetBotCpi == <<Writes("global_account"), Signs("authority"), Reads("bot"),
      SignsAndWrites("payer")>>
SetBotCpiBuilder == BuilderOf(SetBotCpi, <<>>, {})
SetBotContext == Context(<<Writes("global_account"), Signs("authority"),
      Reads("bot"), SignsAndWrites("payer")>>, <<>>)

SetTreasuryAccounts == <<Writes("global_account"), Signs("authority"),
      Reads("treasury"), SignsAndWrites("payer")>>
SetTreasuryBuilder == BuilderOf(SetTreasuryAccounts, <<>>, {})
SetTreasuryCpi == <<Writes("global_account"), Signs("authority"),
      Reads("treasury"), SignsAndWrites("payer")>>
SetTreasuryCpiBuilder == BuilderOf(SetTreasuryCpi, <<>>, {})
SetTreasuryContext == Context(<<Writes("global_account"), Signs("authority"),
      Reads("treasury"), SignsAndWrites("payer")>>, <<>>)

RegisterAccounts == <<Writes("user_account"), Signs("user"), Reads("vault"),
      SignsAndWrites("payer"), Reads("system_program")>>
RegisterBuilder == BuilderOf(RegisterAccounts, <<>>, {"system_program"})
RegisterCpi == <<Writes("user_account"), Signs("user"), Reads("vault"),
      SignsAndWrites("payer"), Reads("system_program")>>
RegisterCpiBuilder == BuilderOf(RegisterCpi, <<>>, {})
RegisterContext == Context(<<Writes("user_account"), Signs("user"),
      Reads("vault"), SignsAndWrites("payer"),
      Reads("system_program")>>, <<>>)

DepositAccounts == <<Writes("user_account"), SignsAndWrites("user"),
      Writes("vault"), SignsAndWrites("payer"), Reads("system_program")>>
DepositArgs == <<"amount">>
DepositBuilder == BuilderOf(DepositAccounts, DepositArgs, {"system_program"})
DepositCpi == <<Writes("user_account"), SignsAndWrites("user"),
      Writes("vault"), SignsAndWrites("payer"), Reads("system_program")>>
DepositCpiBuilder == BuilderOf(DepositCpi, DepositArgs, {})
DepositContext == Context(<<Writes("user_account"), SignsAndWrites("user"),
      Writes("vault"), SignsAndWrites("payer"),
      Reads("system_program")>>, <<"amount">>)

WithdrawAccounts == <<Writes("user_account"), SignsAndWrites("user"),
      Writes("vault"), SignsAndWrites("payer"), Reads("system_program")>>
WithdrawArgs == <<"amount">>
WithdrawBuilder == BuilderOf(WithdrawAccounts, WithdrawArgs, {"system_program"})
WithdrawCpi == <<Writes("user_account"), SignsAndWrites("user"),
      Writes("vault"), SignsAndWrites("payer"), Reads("system_program")>>
WithdrawCpiBuilder == BuilderOf(WithdrawCpi, WithdrawArgs, {})
WithdrawContext == Context(<<Writes("user_account"), SignsAndWrites("user"),
      Writes("vault"), SignsAndWrites("payer"),
      Reads("system_program")>>, <<"amount">>)

LockAccounts == <<Reads("global_account"), Writes("user_account"),
      Writes("user"), Writes("lock_account"), Reads("vault"), Signs("bot"),
      SignsAndWrites("payer"), Reads("system_program")>>
LockArgs == <<"recover_info", "amount">>
LockBuilder == BuilderOf(LockAccounts, LockArgs, {"system_program"})
LockCpi == <<Reads("global_account"), Writes("user_account"), Writes("user"),
      Writes("lock_account"), Reads("vault"), Signs("bot"),
      SignsAndWrites("payer"), Reads("system_program")>>
LockCpiBuilder == BuilderOf(LockCpi, LockArgs, {})
LockContext == Context(<<Reads("global_account"), Writes("user_account"),
      Writes("user"), Writes("lock_account"), Reads("vault"), Signs("bot"),
      SignsAndWrites("payer"),
      Reads("system_program")>>, <<"recover_info", "amount">>)

SettleAccounts == <<Reads("global_account"), Writes("user_account"),
      Writes("user"), Writes("treasury"), Writes("lock_account"),
      Writes("vault"), Signs("bot"), SignsAndWrites("payer"),
      Reads("system_program")>>
SettleArgs == <<"nonce", "amount_to_transfer">>
SettleBuilder == BuilderOf(SettleAccounts, SettleArgs, {"system_program"})
SettleCpi == <<Reads("global_account"), Writes("user_account"),
      Writes("user"), Writes("treasury"), Writes("lock_account"),
      Writes("vault"), Signs("bot"), SignsAndWrites("payer"),
      Reads("system_program")>>
SettleCpiBuilder == BuilderOf(SettleCpi, SettleArgs, {})
SettleContext == Context(<<Reads("global_account"), Writes("user_account"),
      Writes("user"), Writes("treasury"), Writes("lock_account"),
      Writes("vault"), Signs("bot"), SignsAndWrites("payer"),
      Reads("system_program")>>, <<"nonce", "amount_to_transfer">>)

PayAccounts == <<Reads("global_account"), Writes("user_account"),
      Writes("user"), Writes("treasury"), Writes("vault"), Signs("bot"),
      SignsAndWrites("payer"), Reads("system_program")>>
PayArgs == <<"recover_info", "amount_to_transfer">>
PayBuilder == BuilderOf(PayAccounts, PayArgs, {"system_program"})
PayCpi == <<Reads("global_account"), Writes("user_account"), Writes("user"),
      Writes("treasury"), Writes("vault"), Signs("bot"),
      SignsAndWrites("payer"), Reads("system_program")>>
PayCpiBuilder == BuilderOf(PayCpi, PayArgs, {})
PayContext == Context(<<Reads("global_account"), Writes("user_account"),
      Writes("user"), Writes("treasury"), Writes("vault"), Signs("bot"),
      SignsAndWrites("payer"),
      Reads("system_program")>>, <<"recover_info", "amount_to_transfer">>)
-----------------------------------------------------------------------------
Interface == [
    initialize   |-> [builder |-> InitializeBuilder, cpi |-> InitializeCpiBuilder,
                      context |-> InitializeContext],
    set_bot      |-> [builder |-> SetBotBuilder, cpi |-> SetBotCpiBuilder,
                      context |-> SetBotContext],
    set_treasury |-> [builder |-> SetTreasuryBuilder, cpi |-> SetTreasuryCpiBuilder,
                      context |-> SetTreasuryContext],
    register     |-> [builder |-> RegisterBuilder, cpi |-> RegisterCpiBuilder,
                      context |-> RegisterContext],
    deposit      |-> [builder |-> DepositBuilder, cpi |-> DepositCpiBuilder,
                      context |-> DepositContext],
    withdraw     |-> [builder |-> WithdrawBuilder, cpi |-> WithdrawCpiBuilder,
                      context |-> WithdrawContext],
    lock         |-> [builder |-> LockBuilder, cpi |-> LockCpiBuilder,
                      context |-> LockContext],
    settle       |-> [builder |-> SettleBuilder, cpi |-> SettleCpiBuilder,
                      context |-> SettleContext],
    pay          |-> [builder |-> PayBuilder, cpi |-> PayCpiBuilder,
                      context |-> PayContext]]
-----------------------------------------------------------------------------
\* Account data: the program writes the fields of its state structs in order
\* after the discriminator, the client reads those of the generated structs.

GlobalAccountState == <<"authority", "bot", "treasury">>
GlobalAccountData  == <<"authority", "bot", "treasury">>
UserAccountState == <<"nonce", "locked_amount">>
UserAccountData  == <<"nonce", "locked_amount">>

FromBytes(written, read, account) ==
    [f \in {read[p] : p \in DOMAIN read} |->
        account[written[CHOOSE p \in DOMAIN read : read[p] = f]]]
=============================================================================
