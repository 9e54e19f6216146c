--------------------------- MODULE PolicyRegistry ---------------------------
(***************************************************************************)
(* PolicyRegistry of the Rust core (core/src/policy.rs): a vector of named *)
(* policies searched linearly.  Each method is one action; what it returns *)
(* is kept in reply.                                                       *)
(***************************************************************************)
EXTENDS Naturals, Sequences

CONSTANTS Names, Policies, Absent

ASSUME AbsentAssumption == Absent \notin Policies

VARIABLES entries,              \* the vector of (name, policy)
          reply                 \* what the last method returned

registry == <<entries, reply>>

Entry == [name : Names, policy : Policies]
Replies == [op : {"none", "register", "get", "remove", "all", "clear"},
            policy : Policies \cup {Absent}, listing : Seq(Entry)]
Answer(op, policy) == [op |-> op, policy |-> policy, listing |-> <<>>]

RegistryInit == entries = <<>> /\ reply = Answer("none", Absent)

\* iter().find and iter().position: the first entry of that name, 0 if none.
PositionIn(s, name) ==
    IF \E i \in DOMAIN s : s[i].name = name
    THEN CHOOSE i \in DOMAIN s :
             /\ s[i].name = name
             /\ \A j \in 1..(i - 1) : s[j].name # name
    ELSE 0
Position(name) == PositionIn(entries, name)

PolicyIn(s, i) == IF i = 0 THEN Absent ELSE s[i].policy
PolicyAt(i) == PolicyIn(entries, i)

\* mutant: the last entry is dropped in place of the removed one
Truncated(s, i) == SubSeq(s, 1, Len(s) - 1)
\* mutant: the policy is taken out of its entry, which stays
Taken(s, i) == [s EXCEPT ![i] = [name |-> @.name, policy |-> Absent]]
\* Vec::swap_remove: the last entry takes the place of the removed one.
SwapRemove(s, i) ==
    [j \in 1..(Len(s) - 1) |-> IF j = i THEN s[Len(s)] ELSE s[j]]

\* The methods, after the search has answered i.
RegisterAt(i, name, policy) ==
    /\ entries' = IF i = 0
                  THEN Append(entries, [name |-> name, policy |-> policy])
                  ELSE [entries EXCEPT ![i] = [name |-> @.name,
                                               policy |-> policy]]
    /\ reply' = Answer("register", PolicyAt(i))

GetAt(i) ==
    /\ reply' = Answer("get", PolicyAt(i))
    /\ UNCHANGED entries

RemoveAt(i) ==
    /\ entries' = IF i = 0 THEN entries ELSE SwapRemove(entries, i)
    /\ reply' = Answer("remove", PolicyAt(i))

Register(name, policy) == RegisterAt(Position(name), name, policy)
Get(name) == GetAt(Position(name))
Remove(name) == RemoveAt(Position(name))

All ==
    /\ reply' = [op |-> "all", policy |-> Absent, listing |-> entries]
    /\ UNCHANGED entries

Clear ==
    /\ entries' = <<>>
    /\ reply' = Answer("clear", Absent)

RegistryNext ==
    \/ \E name \in Names, policy \in Policies : Register(name, policy)
    \/ \E name \in Names : Get(name) \/ Remove(name)
    \/ All \/ Clear

RegistrySpec == RegistryInit /\ [][RegistryNext]_registry

-----------------------------------------------------------------------------
\* Properties.

\* The vector and the reply hold what their Rust types allow.
RegistryTypeOK ==
    /\ entries \in Seq(Entry)
    /\ reply \in Replies

\* No name is registered twice.  The type does not forbid it: it holds
\* because register searches before it pushes, and a second entry would
\* reappear once the first is removed.
Unique(s) == \A i, j \in DOMAIN s : s[i].name = s[j].name => i = j
UniqueNames == Unique(entries)

TableOf(s) == [n \in Names |-> PolicyIn(s, PositionIn(s, n))]
Pairs(s) == {<<s[i].name, s[i].policy>> : i \in DOMAIN s}
Map == INSTANCE PolicyMap
           WITH table <- TableOf(entries),
                reply <- [op |-> reply.op, policy |-> reply.policy,
                          listing |-> Pairs(reply.listing)]

\* The registry behaves as a map, although swap_remove moves entries.
ImplementsMap == Map!Spec

RegistryInv == RegistryTypeOK /\ UniqueNames
=============================================================================
