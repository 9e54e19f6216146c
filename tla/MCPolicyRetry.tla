---------------------------- MODULE MCPolicyRetry ----------------------------
(***************************************************************************)
(* A thread that retries under the names that two others register, remove  *)
(* and clear; programs of three threads that meet on the same names; and   *)
(* one thread that removes entries from the front, the middle and the back *)
(* of the vector.                                                          *)
(***************************************************************************)
EXTENDS PolicyRetry, TLC

CONSTANTS t1, t2, t3, api, db, jobs, fast, slow, Refused

MCThreads == {t1, t2, t3}
MCNames == {api, db, jobs}
MCPolicies == {fast, slow}
MCErrors == {Refused}

Entitled(op, name, policy) ==
    [op |-> op, name |-> name, policy |-> policy, panics |-> FALSE]
BadName == [op |-> "register", name |-> api, policy |-> fast, panics |-> TRUE]

Reg(name, policy) == Entitled("register", name, policy)
Read(name) == Entitled("get", name, fast)
Drop(name) == Entitled("remove", name, fast)
List == Entitled("all", api, fast)
Wipe == Entitled("clear", api, fast)

Programme(one, two, three) == (t1 :> one) @@ (t2 :> two) @@ (t3 :> three)

\* Two threads register the same name; the third drops and reads it.
Contend == Programme(<<Reg(api, fast), List>>,
                     <<Reg(api, slow), Reg(db, slow), Drop(api)>>,
                     <<Read(api), Drop(api), Read(db)>>)
\* Entries move (swap_remove) and vanish (clear) under a reader's feet.
Shuffle == Programme(<<Reg(api, fast), Reg(db, slow), Drop(api)>>,
                     <<Read(db), Read(db), List>>,
                     <<Wipe, Reg(db, fast)>>)
\* A conversion panics at any point of the others' programs.
Poison == Programme(<<Reg(api, fast), BadName>>,
                    <<Read(api), Reg(db, slow)>>,
                    <<Drop(api), List>>)
\* Each of three entries is removed, with the others read after it.
Fill == <<Reg(api, fast), Reg(db, slow), Reg(jobs, fast)>>
Remove3(n) == Programme(Fill \o <<Drop(n), Read(api), Read(db), Read(jobs),
                                  Reg(n, slow), List>>, <<>>, <<>>)
\* The policy is replaced, removed or cleared around the caller's retry.
Replace == Programme(<<Reg(api, slow), Drop(api)>>, <<Wipe>>, <<Reg(api, fast)>>)
Break == Programme(<<BadName>>, <<Reg(db, fast)>>, <<Reg(api, slow)>>)

Alone == {Contend, Shuffle, Poison, Remove3(api), Remove3(db), Remove3(jobs)}
Together == {Replace, Break}
MCPrograms == Alone \cup Together
MCRequests == [p \in MCPrograms |-> IF p \in Alone THEN {<<>>}
                                    ELSE {<<api>>, <<db, api>>}]
MCNested == {<<>>, <<Reg(api, slow)>>, <<Drop(api), Read(api)>>, <<BadName>>}

BuiltIn(max) ==
    [max |-> max, retries |-> {a \in 1..AttemptMax : a < max},
     delays |-> [a \in 1..AttemptMax |-> IF a < max THEN {1} ELSE {}]]
MCStrategyFor == (fast :> BuiltIn(1)) @@ (slow :> BuiltIn(3))
MCStrategies == {MCStrategyFor[p] : p \in Policies}
=============================================================================
