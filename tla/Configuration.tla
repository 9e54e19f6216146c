---------------------------- MODULE Configuration ----------------------------
(***************************************************************************)
(* The Ruby configuration (lib/chrono_machines/configuration.rb): a hash   *)
(* of policies, each a hash whose list of retryable exceptions is an array *)
(* that others may hold and change in place.  define_policy is also        *)
(* reached as chrono_policy (lib/chrono_machines/dsl.rb).                  *)
(***************************************************************************)
EXTENDS Integers, Sequences

CONSTANTS Names, Default,       \* policy names, :default among them
          AllExceptions,
          StandardErrors,       \* what [StandardError] lists
          CallerLists,          \* the arrays the callers pass in options
          Given,                \* the options they define policies with
          Added,                \* the exceptions added to lists in place
          MaxArrays             \* bound on the arrays ever made

\* Options are a hash with some of a policy's keys: at most one element each.
OptionType == [max_attempts : SUBSET Int,
               retryable : SUBSET (DOMAIN CallerLists)]

ASSUME ConfigurationAssumption ==
    /\ Default \in Names
    /\ StandardErrors \subseteq AllExceptions
    /\ CallerLists \in Seq(SUBSET AllExceptions)
    /\ Given \subseteq OptionType
    /\ Added \subseteq AllExceptions
    /\ MaxArrays \in Nat

VARIABLES arrays,               \* every array made, by reference
          policies              \* Configuration#policies

configuration == <<arrays, policies>>

Undefined == [defined |-> FALSE]
Policy(max_attempts, retryable) ==
    [defined |-> TRUE, max_attempts |-> max_attempts, retryable |-> retryable]

\* A configuration is made with a default policy, whose array is new.
NewPolicies(list) ==
    [n \in Names |-> IF n = Default THEN Policy(3, list) ELSE Undefined]
NewConfiguration ==
    /\ arrays = Append(CallerLists, StandardErrors)
    /\ policies = NewPolicies(Len(CallerLists) + 1)

Value(option, default) ==
    IF option = {} THEN default ELSE CHOOSE v \in option : TRUE
Merge(policy, options) ==
    Policy(Value(options.max_attempts, policy.max_attempts),
           Value(options.retryable, policy.retryable))

\* mutant: the default's array is shared with the copy
DefineShallow(name, options) ==
    /\ Len(arrays) < MaxArrays
    /\ policies' = [policies EXCEPT ![name] =
                        Merge(policies[Default], options)]
    /\ UNCHANGED arrays
\* The default is copied, array and all, then the options replace its keys.
DefinePolicy(name, options) ==
    /\ Len(arrays) < MaxArrays
    /\ arrays' = Append(arrays, arrays[policies[Default].retryable])
    /\ policies' = [policies EXCEPT ![name] =
                        Merge(Policy(policies[Default].max_attempts,
                                     Len(arrays) + 1), options)]

\* Someone who holds an array adds an exception to it: a caller its own, or
\* anybody the one of a policy that Configuration#policies hands out.
Extend(list, exception) ==
    /\ arrays' = [arrays EXCEPT ![list] = @ \cup {exception}]
    /\ UNCHANGED policies

\* The setup of TestHelper replaces the whole configuration.
Setup ==
    /\ Len(arrays) < MaxArrays
    /\ arrays' = Append(arrays, StandardErrors)
    /\ policies' = NewPolicies(Len(arrays) + 1)

Reachable == DOMAIN CallerLists
             \cup {policies[n].retryable : n \in {m \in Names :
                                                      policies[m].defined}}

Reconfigure ==
    \/ \E name \in Names, options \in Given : DefinePolicy(name, options)
    \/ \E list \in Reachable, exception \in Added : Extend(list, exception)
    \/ Setup

\* What Executor#initialize takes from its argument: the policy of a symbol,
\* Undefined when get_policy raises, or the default merged with a hash.
PolicyFor(argument) ==
    IF argument.symbol THEN policies[argument.name]
                       ELSE Merge(policies[Default], argument.options)

ConfigurationSpec == NewConfiguration /\ [][Reconfigure]_configuration

-----------------------------------------------------------------------------
\* Properties.

ListOf(n) == IF policies[n].defined THEN arrays[policies[n].retryable] ELSE {}
Effective(n) == <<policies[n], ListOf(n)>>

\* A policy once defined stands on its own: redefining the default, or adding
\* to the list of any policy in place, changes no other policy, unless the
\* caller gave both the same list or the configuration is replaced.
ChangesAreLocal ==
    [][\A m, n \in Names :
           /\ m # n /\ Effective(m)' # Effective(m)
           /\ Effective(n)' # Effective(n)
           => \/ policies' = NewPolicies(Len(arrays'))
              \/ policies[m].retryable = policies[n].retryable
                 /\ policies[m].retryable \in DOMAIN CallerLists
      ]_configuration

-----------------------------------------------------------------------------
\* The invariant behind it: two policies have one list only if the caller
\* gave it to both.

PolicyType == [defined : {TRUE}, max_attempts : Int, retryable : DOMAIN arrays]
ConfigurationTypeOK ==
    /\ arrays \in Seq(SUBSET AllExceptions)
    /\ Len(CallerLists) <= Len(arrays)
    /\ policies \in [Names -> PolicyType \cup {Undefined}]
    /\ policies[Default] \in PolicyType

NoAliasing ==
    \A m, n \in Names :
        /\ m # n /\ policies[m] \in PolicyType /\ policies[n] \in PolicyType
        /\ policies[m].retryable = policies[n].retryable
        => policies[m].retryable \in DOMAIN CallerLists

ConfigurationInv == ConfigurationTypeOK /\ NoAliasing
=============================================================================
