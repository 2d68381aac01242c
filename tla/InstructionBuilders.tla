------------------------ MODULE InstructionBuilders ------------------------
(***************************************************************************)
(* The generated builders at work: setters called in any order, called     *)
(* again, instructions built more than once, by a client (the Builder of   *)
(* an instruction) or by another program (its CpiBuilder).                 *)
(***************************************************************************)
EXTENDS Instructions, FiniteSets

CONSTANTS
    MaxSet,         \* bound: calls of one setter
    MaxAgain,       \* bound: setters called more than once
    MaxRemaining    \* bound: additional accounts

ASSUME BuilderAssumption == {MaxSet, MaxAgain, MaxRemaining} \subseteq Nat

VARIABLES
    builder,        \* the builder in use
    issued          \* the instruction built last

bvars == <<builder, issued>>

NoBuilder == [of |-> "none"]
Nothing == [accounts |-> <<>>, data |-> <<>>]

Names == DOMAIN Interface
Vias == {"builder", "cpi"}
Table == Interface[builder.of][builder.via]

\* The value that the v-th call of a field's setter gave; zero calls give none.
Value(field, v) == <<field, v>>
SystemProgram == Value("11111111111111111111111111111111", 1)

InUse == builder # NoBuilder

\* The key of an account: what its setter was given, or the default.
Key(field) ==
    IF builder.set[field] = 0 /\ field \in Table.optional
    THEN SystemProgram
    ELSE Value(field, builder.set[field])
Complete ==
    \A field \in DOMAIN builder.set \ Table.optional : builder.set[field] > 0

\* The AccountMeta of an additional account <<account, flag, flag>>: the
\* Builder keeps the meta it is given, the CpiBuilder a triple, of which
\* invoke_signed_with_remaining_accounts takes the first flag for is_signer.
RemainingMeta(triple) ==
    IF builder.via = "builder"
    THEN Meta(triple[1], triple[2], triple[3])
    ELSE Meta(triple[1], triple[3], triple[2])
Remaining == [p \in DOMAIN builder.remaining |-> RemainingMeta(builder.remaining[p])]

Built ==
    Instruction(builder.of, Table.accounts, [field \in Fields(Table.accounts) |-> Key(field)],
                Table.args, [a \in DOMAIN builder.set |-> Value(a, builder.set[a])], Remaining)
-----------------------------------------------------------------------------
Init ==
    /\ builder = NoBuilder
    /\ issued = Nothing

\* A faulty variant of Issue for which accounts that are not set do not matter.
IssueIncomplete ==
    /\ InUse
    /\ issued' = Built
    /\ UNCHANGED builder

New(name, via) ==
    /\ ~InUse
    /\ LET table == Interface[name][via]
           fields == Fields(table.accounts) \cup {table.args[p] : p \in DOMAIN table.args}
       IN  builder' = [of |-> name, via |-> via, set |-> [f \in fields |-> 0],
                       remaining |-> <<>>]
    /\ UNCHANGED issued

Set(field) ==
    /\ builder.set[field] < MaxSet
    /\ builder.set[field] > 0 =>
           Cardinality({f \in DOMAIN builder.set : builder.set[f] > 1}) < MaxAgain
    /\ builder' = [builder EXCEPT !.set[field] = @ + 1]
    /\ UNCHANGED issued

AddRemaining(is_writable, is_signer) ==
    /\ InUse
    /\ Len(builder.remaining) < MaxRemaining
    /\ builder' = [builder EXCEPT !.remaining =
           Append(@, <<Value("remaining", Len(@)), is_writable, is_signer>>)]
    /\ UNCHANGED issued

\* instruction() or invoke(): the builder stays as it is and may go on.
Issue ==
    /\ InUse
    /\ Complete
    /\ issued' = Built
    /\ UNCHANGED builder

\* An account or argument is missing.
Panic ==
    /\ InUse
    /\ ~Complete
    /\ builder' = NoBuilder
    /\ UNCHANGED issued

Next ==
    \/ \E name \in Names, via \in Vias : New(name, via)
    \/ InUse /\ \E field \in DOMAIN builder.set : Set(field)
    \/ \E is_writable, is_signer \in BOOLEAN : AddRemaining(is_writable, is_signer)
    \/ Issue
    \/ Panic

Spec == Init /\ [][Next]_bvars
-----------------------------------------------------------------------------
IssuedContext == Interface[issued.data[1]].context

\* Every builder has a setter for each of its instruction's fields, and what is
\* issued is complete: no account or argument is one that was never given.
BuilderTypeOK ==
    /\ InUse =>
        /\ builder.of \in Names
        /\ builder.via \in Vias
        /\ \A f \in DOMAIN builder.set : builder.set[f] \in 0..MaxSet
        /\ Len(builder.remaining) <= MaxRemaining
    /\ issued # Nothing =>
        /\ Len(issued.data) = 1 + Len(IssuedContext.args)
        /\ \A p \in 2..Len(issued.data) : issued.data[p][2] > 0
        /\ \A p \in DOMAIN IssuedContext.accounts : issued.accounts[p].account[2] > 0

\* The handler finds under every name of its context what the last call of the
\* setter of that name was given, in whatever order the setters were called
\* and however often the builder was used: accounts and arguments only meet by
\* position, in the code of two crates.
ArrivesAsSet(instruction) ==
    LET context == Interface[builder.of].context
    IN  /\ instruction.data[1] = builder.of
        /\ \A field \in Fields(context.accounts) :
               Bound(context, instruction, field) = Key(field)
        /\ \A p \in DOMAIN context.args :
               Received(context, instruction, context.args[p])
                   = Value(context.args[p], builder.set[context.args[p]])
AccountsArriveAsSet == [][issued' # issued => ArrivesAsSet(issued')]_bvars

\* For the accounts its handler names an instruction asks for the privileges the
\* handler needs, or it would be refused, and for no others, which the caller
\* would give away.  The additional accounts come behind them, in order and with
\* the flags they were added with: of a Builder any flags, of a CpiBuilder only
\* two that are equal, for it takes is_writable and is_signer for one another.
AddedAs(instruction, p) ==
    instruction.accounts[Len(Interface[builder.of].context.accounts) + p]
        = Meta(builder.remaining[p][1], builder.remaining[p][2], builder.remaining[p][3])
AsksPrivileges(instruction) ==
    LET context == Interface[builder.of].context
    IN  /\ Admits(context, instruction)
        /\ \A p \in DOMAIN context.accounts :
               /\ instruction.accounts[p].writable = context.accounts[p].writable
               /\ instruction.accounts[p].signer = context.accounts[p].signer
        /\ Len(instruction.accounts) = Len(context.accounts) + Len(builder.remaining)
        /\ \A p \in DOMAIN builder.remaining :
               builder.via = "builder" \/ builder.remaining[p][2] = builder.remaining[p][3]
                   => AddedAs(instruction, p)
PrivilegesMatch == [][issued' # issued => AsksPrivileges(issued')]_bvars
=============================================================================
