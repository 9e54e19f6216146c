---------------------------- MODULE RegistryTests ----------------------------
(***************************************************************************)
(* The unit tests of the core that use the process-wide registry, as the   *)
(* programs of three threads: cargo runs the tests of one crate in threads *)
(* of one process.  Looking up a policy (dsl.rs) is a call of get; the     *)
(* retry that follows works on the copy and does not touch the registry.   *)
(***************************************************************************)
EXTENDS GlobalRegistry, TLC

CONSTANTS roundtrip, success, missing,          \* the tests
          workers, default, unknown,            \* the names they use
          four, two                             \* policies of 4 and 2 attempts

TestThreads == {roundtrip, success, missing}
TestNames == {workers, default, unknown}
TestPolicies == {four, two}

Test(op, name, policy) ==
    [op |-> op, name |-> name, policy |-> policy, panics |-> FALSE]
ClearAll == Test("clear", unknown, two)

\* test_global_registry_roundtrip
Roundtrip == <<ClearAll, Test("all", unknown, two),
               Test("register", workers, four), Test("get", workers, two),
               Test("remove", workers, two), Test("get", workers, two)>>
\* test_retry_with_policy_success
Success == <<ClearAll, Test("register", default, two),
             Test("get", default, two)>>
\* test_retry_with_policy_missing
Missing == <<ClearAll, Test("get", unknown, two)>>

TestPrograms ==
    {(roundtrip :> Roundtrip) @@ (success :> Success) @@ (missing :> Missing)}

\* What the tests assert of the n-th call of each, e.g. dsl.rs "dsl retry
\* should succeed": the lookup of a policy just registered finds it.
Asserted(t, n, answer) ==
    /\ t = roundtrip /\ n = 2 => answer.listing = <<>>
    /\ t = roundtrip /\ n = 3 => answer.policy = Absent
    /\ t = roundtrip /\ n \in {4, 5} => answer.policy = four
    /\ t = roundtrip /\ n = 6 => answer.policy = Absent
    /\ t = success /\ n = 3 => answer.policy = two
    /\ t = missing /\ n = 2 => answer.policy = Absent

\* The assertions of the tests hold however their threads are scheduled.
TestsPass == \A t \in Threads : \A n \in DOMAIN answers[t] :
                 Asserted(t, n, answers[t][n])
=============================================================================
