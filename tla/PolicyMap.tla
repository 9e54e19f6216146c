------------------------------ MODULE PolicyMap ------------------------------
(***************************************************************************)
(* What a registry of policies promises: a map from names to policies.     *)
(* Registering and removing answer with the policy they displace, and a    *)
(* listing shows each registered name once.  PolicyRegistry (one owner)    *)
(* and GlobalRegistry (threads and a lock) are shown to implement it.      *)
(***************************************************************************)
CONSTANTS Names, Policies,
          Absent                \* Option::None

VARIABLES table,                \* the policy of each name, or Absent
          reply                 \* what the last operation returned

vars == <<table, reply>>

Answer(op, policy) == [op |-> op, policy |-> policy, listing |-> {}]

Init == table = [n \in Names |-> Absent] /\ reply = Answer("none", Absent)

Register(n, p) ==
    /\ table' = [table EXCEPT ![n] = p]
    /\ reply' = Answer("register", table[n])

Get(n) ==
    /\ reply' = Answer("get", table[n])
    /\ UNCHANGED table

Remove(n) ==
    /\ table' = [table EXCEPT ![n] = Absent]
    /\ reply' = Answer("remove", table[n])

All ==
    /\ reply' = [op |-> "all", policy |-> Absent,
                 listing |-> {<<n, table[n]>> :
                                  n \in {m \in Names : table[m] # Absent}}]
    /\ UNCHANGED table

Clear ==
    /\ table' = [n \in Names |-> Absent]
    /\ reply' = Answer("clear", Absent)

Next == \/ \E n \in Names, p \in Policies : Register(n, p)
        \/ \E n \in Names : Get(n) \/ Remove(n)
        \/ All \/ Clear

Spec == Init /\ [][Next]_vars
=============================================================================
