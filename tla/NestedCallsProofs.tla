-------------------------- MODULE NestedCallsProofs --------------------------
(***************************************************************************)
(* Proofs about the Ruby configuration and about nested calls made from    *)
(* it, for any names, options, lists and numbers of attempts.              *)
(***************************************************************************)
EXTENDS NestedCalls, TLAPS

LEMMA ArraysIndexed ==
    ASSUME ConfigurationTypeOK
    PROVE  /\ DOMAIN arrays = 1..Len(arrays) /\ Len(arrays) \in Nat
           /\ DOMAIN CallerLists = 1..Len(CallerLists)
           /\ Len(CallerLists) \in Nat
           /\ DOMAIN CallerLists \subseteq DOMAIN arrays
BY ConfigurationAssumption DEF ConfigurationTypeOK

LEMMA NewArray ==
    ASSUME NEW s \in Seq(SUBSET AllExceptions), NEW list \in SUBSET AllExceptions
    PROVE  /\ Append(s, list) \in Seq(SUBSET AllExceptions)
           /\ Len(Append(s, list)) = Len(s) + 1
           /\ DOMAIN s \subseteq DOMAIN Append(s, list)
           /\ \A i \in DOMAIN s : Append(s, list)[i] = s[i]
           /\ Len(s) + 1 \in DOMAIN Append(s, list)
OBVIOUS

LEMMA NewPoliciesInv ==
    ASSUME arrays' \in Seq(SUBSET AllExceptions),
           Len(CallerLists) <= Len(arrays'),
           policies' = NewPolicies(Len(arrays')), Len(arrays') \in DOMAIN arrays'
    PROVE  ConfigurationInv'
<1>1. Policy(3, Len(arrays')) \in PolicyType'
  BY DEF Policy, PolicyType
<1>2. ConfigurationTypeOK'
  BY <1>1, ConfigurationAssumption DEF ConfigurationTypeOK, NewPolicies
<1>3. Undefined \notin PolicyType'
  BY DEF Undefined, PolicyType
<1>4. NoAliasing'
  BY <1>3 DEF NoAliasing, NewPolicies
<1> QED
  BY <1>2, <1>4 DEF ConfigurationInv

LEMMA InitConfigurationInv == NewConfiguration => ConfigurationInv
<1> SUFFICES ASSUME NewConfiguration PROVE ConfigurationInv
    OBVIOUS
<1>1. /\ arrays \in Seq(SUBSET AllExceptions)
      /\ Len(arrays) = Len(CallerLists) + 1 /\ Len(arrays) \in DOMAIN arrays
      /\ Len(CallerLists) \in Nat
  BY NewArray, ConfigurationAssumption DEF NewConfiguration
<1>2. policies = NewPolicies(Len(arrays))
  BY <1>1 DEF NewConfiguration
<1>3. Policy(3, Len(arrays)) \in PolicyType
  BY <1>1 DEF Policy, PolicyType
<1>4. ConfigurationTypeOK
  BY <1>1, <1>2, <1>3, ConfigurationAssumption
     DEF ConfigurationTypeOK, NewPolicies
<1>5. Undefined \notin PolicyType
  BY DEF Undefined, PolicyType
<1>6. NoAliasing
  BY <1>2, <1>5 DEF NoAliasing, NewPolicies
<1> QED
  BY <1>4, <1>6 DEF ConfigurationInv

LEMMA DefinePolicyEffect ==
    ASSUME ConfigurationInv, NEW name \in Names, NEW options \in Given,
           DefinePolicy(name, options)
    PROVE  /\ ConfigurationInv'
           /\ \A n \in Names \ {name} :
                  policies'[n] = policies[n]
                  /\ ListOf(n)' = ListOf(n)
<1> DEFINE fresh == Len(arrays) + 1
           copy == Policy(policies[Default].max_attempts, fresh)
           new == Merge(copy, options)
<1>1. ConfigurationTypeOK /\ NoAliasing
  BY DEF ConfigurationInv
<1>2. /\ policies[Default] \in PolicyType
      /\ policies[Default].retryable \in DOMAIN arrays
      /\ arrays[policies[Default].retryable] \in SUBSET AllExceptions
  <2>1. /\ policies[Default] \in PolicyType
        /\ arrays \in [1..Len(arrays) -> SUBSET AllExceptions]
    BY <1>1 DEF ConfigurationTypeOK
  <2>2. policies[Default].retryable \in DOMAIN arrays
    BY <2>1 DEF PolicyType
  <2> QED
    BY <2>1, <2>2
<1>3. /\ arrays' \in Seq(SUBSET AllExceptions)
      /\ Len(arrays') = fresh /\ fresh \in DOMAIN arrays'
      /\ DOMAIN arrays \subseteq DOMAIN arrays'
      /\ \A i \in DOMAIN arrays : arrays'[i] = arrays[i]
  BY <1>1, <1>2, NewArray DEF ConfigurationTypeOK, DefinePolicy
<1>4. fresh \notin DOMAIN arrays
  BY <1>1, ArraysIndexed
<1>5. Len(CallerLists) <= Len(arrays')
  BY <1>1, <1>3, ArraysIndexed DEF ConfigurationTypeOK
<1>6. copy \in PolicyType' /\ copy.retryable = fresh
  BY <1>2, <1>3 DEF Policy, PolicyType
<1>7. new \in PolicyType' /\ new.retryable \in DOMAIN CallerLists \cup {fresh}
  <2>1. options \in OptionType
    BY ConfigurationAssumption
  <2>2. /\ Value(options.max_attempts, copy.max_attempts) \in Int
        /\ Value(options.retryable, copy.retryable)
               \in DOMAIN CallerLists \cup {fresh}
    BY <1>6, <2>1 DEF Value, OptionType, PolicyType
  <2>3. DOMAIN CallerLists \subseteq DOMAIN arrays'
    BY <1>1, <1>3, ArraysIndexed
  <2> QED
    BY <1>3, <2>2, <2>3 DEF Merge, Policy, PolicyType
<1>8. policies' = [policies EXCEPT ![name] = new]
  BY DEF DefinePolicy
<1>9. /\ policies'[name] = new
      /\ \A n \in Names \ {name} : policies'[n] = policies[n]
  BY <1>1, <1>8 DEF ConfigurationTypeOK
<1>10. PolicyType \subseteq PolicyType'
  BY <1>3 DEF PolicyType
<1>11. ConfigurationTypeOK'
  BY <1>1, <1>3, <1>5, <1>7, <1>8, <1>9, <1>10, ConfigurationAssumption
     DEF ConfigurationTypeOK
<1>12. \A n \in Names \ {name} :
           policies[n] \in PolicyType' => policies[n] \in PolicyType
  <2>1. Undefined \notin PolicyType'
    BY DEF Undefined, PolicyType
  <2> QED
    BY <1>1, <2>1 DEF ConfigurationTypeOK
<1>13. NoAliasing'
  <2> SUFFICES ASSUME NEW m \in Names, NEW n \in Names, m # n,
                      policies'[m] \in PolicyType', policies'[n] \in PolicyType',
                      policies'[m].retryable = policies'[n].retryable
               PROVE  policies'[m].retryable \in DOMAIN CallerLists
      BY DEF NoAliasing
  <2>1. CASE m # name /\ n # name
    BY <1>1, <1>9, <1>12, <2>1 DEF NoAliasing
  <2>2. CASE m = name \/ n = name
    <3>1. PICK k \in Names \ {name} :
              policies'[k].retryable = new.retryable
              /\ policies'[k] \in PolicyType'
      BY <1>9, <2>2
    <3>2. policies[k].retryable \in DOMAIN arrays
      BY <1>9, <1>12, <3>1 DEF PolicyType
    <3>3. new.retryable # fresh
      BY <1>4, <1>9, <3>1, <3>2
    <3> QED
      BY <1>7, <1>9, <2>2, <3>3
  <2> QED
    BY <2>1, <2>2
<1>14. \A n \in Names \ {name} : ListOf(n)' = ListOf(n)
  <2> SUFFICES ASSUME NEW n \in Names \ {name} PROVE ListOf(n)' = ListOf(n)
      OBVIOUS
  <2>1. CASE policies[n] \in PolicyType
    BY <1>3, <1>9, <2>1 DEF ListOf, PolicyType
  <2>2. CASE policies[n] = Undefined
    BY <1>9, <2>2 DEF ListOf, Undefined
  <2> QED
    BY <1>1, <2>1, <2>2 DEF ConfigurationTypeOK
<1> QED
  BY <1>9, <1>11, <1>13, <1>14 DEF ConfigurationInv

LEMMA ExtendEffect ==
    ASSUME ConfigurationInv, NEW list \in Reachable, NEW e \in Added,
           Extend(list, e)
    PROVE  /\ ConfigurationInv'
           /\ \A n \in Names : ListOf(n)' # ListOf(n) =>
                  policies[n] \in PolicyType /\ policies[n].retryable = list
<1>1. ConfigurationTypeOK /\ NoAliasing
  BY DEF ConfigurationInv
<1>2. policies' = policies /\ arrays' = [arrays EXCEPT ![list] = @ \cup {e}]
  BY DEF Extend
<1>3. /\ arrays' \in Seq(SUBSET AllExceptions) /\ Len(arrays') = Len(arrays)
      /\ DOMAIN arrays' = DOMAIN arrays
      /\ \A i \in DOMAIN arrays \ {list} : arrays'[i] = arrays[i]
  <2>1. arrays \in [1..Len(arrays) -> SUBSET AllExceptions] /\ Len(arrays) \in Nat
    BY <1>1 DEF ConfigurationTypeOK
  <2>2. ASSUME list \in DOMAIN arrays
        PROVE  arrays[list] \cup {e} \in SUBSET AllExceptions
    BY <2>1, <2>2, ConfigurationAssumption
  <2>3. arrays' \in [1..Len(arrays) -> SUBSET AllExceptions]
    BY <1>2, <2>1, <2>2
  <2>4. /\ DOMAIN arrays' = DOMAIN arrays
        /\ \A i \in DOMAIN arrays \ {list} : arrays'[i] = arrays[i]
    BY <1>2, <2>1
  <2> QED
    BY <2>1, <2>3, <2>4
<1>4. PolicyType' = PolicyType
  BY <1>3 DEF PolicyType
<1>5. ConfigurationInv'
  BY <1>1, <1>2, <1>3, <1>4 DEF ConfigurationInv, ConfigurationTypeOK, NoAliasing
<1>6. ASSUME NEW n \in Names, ListOf(n)' # ListOf(n)
      PROVE  policies[n] \in PolicyType /\ policies[n].retryable = list
  <2>1. policies[n] \in PolicyType
    BY <1>1, <1>2, <1>6 DEF ConfigurationTypeOK, ListOf, Undefined
  <2> QED
    BY <1>2, <1>3, <1>6, <2>1 DEF ListOf, PolicyType
<1> QED
  BY <1>5, <1>6

LEMMA SetupEffect ==
    ASSUME ConfigurationInv, Setup
    PROVE  ConfigurationInv' /\ policies' = NewPolicies(Len(arrays'))
<1>1. /\ arrays' \in Seq(SUBSET AllExceptions)
      /\ Len(arrays') = Len(arrays) + 1 /\ Len(arrays') \in DOMAIN arrays'
  BY NewArray, ConfigurationAssumption
     DEF Setup, ConfigurationInv, ConfigurationTypeOK
<1>2. policies' = NewPolicies(Len(arrays'))
  BY <1>1 DEF Setup
<1>3. Len(CallerLists) <= Len(arrays')
  BY <1>1, ArraysIndexed DEF ConfigurationInv, ConfigurationTypeOK
<1> QED
  BY <1>1, <1>2, <1>3, NewPoliciesInv

LEMMA NextConfigurationInv ==
    ConfigurationInv /\ [Reconfigure]_configuration => ConfigurationInv'
<1> SUFFICES ASSUME ConfigurationInv, [Reconfigure]_configuration
             PROVE  ConfigurationInv'
    OBVIOUS
<1>1. CASE UNCHANGED configuration
  BY <1>1 DEF configuration, ConfigurationInv, ConfigurationTypeOK, PolicyType,
              NoAliasing
<1> QED
  BY <1>1, DefinePolicyEffect, ExtendEffect, SetupEffect DEF Reconfigure

\* No two policies ever share a list that is not the caller's own.
THEOREM ListsAreNotShared == ConfigurationSpec => []NoAliasing
<1>1. ConfigurationInv => NoAliasing
  BY DEF ConfigurationInv
<1> QED
  BY <1>1, InitConfigurationInv, NextConfigurationInv, PTL
     DEF ConfigurationSpec

\* A policy once defined stands on its own: redefining the default, or adding
\* to a list in place, changes no other policy.
THEOREM PoliciesStandAlone == ConfigurationSpec => ChangesAreLocal
<1> DEFINE Local == \A m, n \in Names :
           /\ m # n /\ Effective(m)' # Effective(m)
           /\ Effective(n)' # Effective(n)
           => \/ policies' = NewPolicies(Len(arrays'))
              \/ policies[m].retryable = policies[n].retryable
                 /\ policies[m].retryable \in DOMAIN CallerLists
<1>1. ConfigurationInv /\ [Reconfigure]_configuration => [Local]_configuration
  <2> SUFFICES ASSUME ConfigurationInv, Reconfigure,
                      NEW m \in Names, NEW n \in Names,
                      m # n, Effective(m)' # Effective(m),
                      Effective(n)' # Effective(n)
               PROVE  \/ policies' = NewPolicies(Len(arrays'))
                      \/ policies[m].retryable = policies[n].retryable
                         /\ policies[m].retryable \in DOMAIN CallerLists
      OBVIOUS
  <2>1. CASE \E name \in Names, options \in Given : DefinePolicy(name, options)
    BY <2>1, DefinePolicyEffect DEF Effective
  <2>2. CASE \E list \in Reachable, e \in Added : Extend(list, e)
    <3>1. policies' = policies
      BY <2>2 DEF Extend
    <3>2. /\ policies[m] \in PolicyType /\ policies[n] \in PolicyType
          /\ policies[m].retryable = policies[n].retryable
      BY <2>2, <3>1, ExtendEffect DEF Effective
    <3> QED
      BY <3>2 DEF ConfigurationInv, NoAliasing
  <2>3. CASE Setup
    BY <2>3, SetupEffect
  <2> QED
    BY <2>1, <2>2, <2>3 DEF Reconfigure
<1> QED
  BY <1>1, InitConfigurationInv, NextConfigurationInv, PTL
     DEF ConfigurationSpec, ChangesAreLocal

-----------------------------------------------------------------------------
\* Nested calls.  What is known of one executor: the attempts it was granted,
\* the point it is at, the attempts it made and why it raised.
Within(max, grant, point, begun, via) ==
    /\ max \in Int /\ grant = AtLeastOne(max)
    /\ begun \in Nat /\ begun <= grant
    /\ point = "ready" => begun = 0
    /\ point = "yield" => begun < grant
    /\ point \notin {"ready", "yield"} => begun > 0
    /\ point \in {"on_retry", "sleep"} => begun < max
    /\ via = "Exhausted" => begun = grant /\ point \in {"final", "raised"}

OuterWithin == Within(policy.max_attempts, granted.outer, pc, attempts, raised.via)
InnerWithin == Within(iPolicy.max_attempts, granted.inner, iPc, iAttempts,
                      iRaised.via)

\* Before an executor is made nothing is granted.
GrantsKept ==
    /\ granted \in [outer : Nat, inner : Nat, most : Nat]
    /\ IF stage \in {"outer", "inner"} THEN OuterWithin
       ELSE pc = "ready" /\ attempts = 0 /\ raised.via = "None"
    /\ \/ InnerWithin
       \/ /\ stage # "inner" /\ iAttempts = 0 /\ iRaised.via = "None"
          /\ granted.inner = 0
    /\ runs \in Nat /\ paid \in Nat /\ runs <= paid
    /\ stage = "inner" => runs + (granted.inner - iAttempts) <= paid

\* An attempt of the outer executor makes one inner executor at most, with no
\* more attempts than the most an inner one was granted.
ExecutorsCounted ==
    /\ made \in Nat /\ attempts \in Nat
    /\ made <= IF stage = "inner" THEN attempts + 1 ELSE attempts
    /\ stage = "inner" => pc = "yield"
    /\ paid <= made * granted.most

\* An Interrupt leaves the inner call, and then the outer one.
InterruptLeaves ==
    /\ iSevere # {} => /\ iPc = "raised" /\ iRaised.via = "Escaped"
                       /\ iSevere = {iRaised.error} /\ iRaised.error \in Severe
                       /\ stage # "inner" =>
                              /\ pc = "raised" /\ raised.via = "Escaped"
                              /\ raised.error = iRaised.error

\* The exception at hand is the one the last attempt ended with.
EndingKept ==
    /\ pc \in {"rescue", "final"} => error = ending
    /\ pc = "final" => raised.error = ending
    /\ LastEndingReported
    /\ pc \in {"succeeded", "return"} => ending = NoException

NestedInv == /\ ConfigurationInv /\ argument \in InnerArguments
             /\ GrantsKept /\ ExecutorsCounted
             /\ InterruptLeaves /\ EndingKept

\* More executors, and a larger grant, only raise the product.
LEMMA ProductGrows ==
    ASSUME NEW k \in Nat, NEW l \in Nat, NEW m \in Nat, NEW n \in Nat,
           k <= l, m <= n
    PROVE  k * m <= l * n
<1>1. k * m <= l * m
  <2>1. l * m = k * m + (l - k) * m /\ (l - k) * m \in Nat
    OBVIOUS
  <2> QED
    BY <2>1
<1>2. l * m <= l * n
  <2>1. l * n = l * m + l * (n - m) /\ l * (n - m) \in Nat
    OBVIOUS
  <2> QED
    BY <2>1
<1>3. k * m \in Nat /\ l * m \in Nat /\ l * n \in Nat
  OBVIOUS
<1> QED
  BY <1>1, <1>2, <1>3

\* The grant of one more executor.
LEMMA OneMore ==
    ASSUME NEW k \in Nat, NEW m \in Nat, NEW n \in Nat, NEW grant \in Nat,
           NEW total \in Nat, total <= k * m, m <= n, grant <= n
    PROVE  total + grant <= (k + 1) * n
<1>1. k * m <= k * n
  BY ProductGrows
<1>2. (k + 1) * n = k * n + n
  OBVIOUS
<1>3. k * m \in Nat /\ k * n \in Nat
  OBVIOUS
<1> QED
  BY <1>1, <1>2, <1>3

LEMMA FoundTyped ==
    ASSUME ConfigurationTypeOK, NEW a \in Argument, PolicyFor(a).defined
    PROVE  PolicyFor(a).max_attempts \in Int
<1>1. CASE a.symbol
  <2>1. policies[a.name] \in PolicyType
    BY <1>1 DEF Argument, PolicyFor, ConfigurationTypeOK, Undefined
  <2> QED
    BY <1>1, <2>1 DEF PolicyFor, PolicyType
<1>2. CASE ~a.symbol
  <2>1. policies[Default].max_attempts \in Int
    BY DEF ConfigurationTypeOK, PolicyType
  <2>2. a.options.max_attempts \subseteq Int
    BY DEF Argument, OptionType
  <2>3. Value(a.options.max_attempts, policies[Default].max_attempts) \in Int
    BY <2>1, <2>2 DEF Value
  <2> QED
    BY <1>2, <2>3 DEF PolicyFor, Merge, Policy
<1> QED
  BY <1>1, <1>2 DEF Argument

\* A new executor may make at least one attempt.
LEMMA NewWithin ==
    ASSUME NEW max \in Int
    PROVE  Within(max, AtLeastOne(max), "ready", 0, "None")
BY DEF Within, AtLeastOne

LEMMA InitNestedInv == Init => NestedInv
<1> SUFFICES ASSUME Init PROVE NestedInv
    OBVIOUS
<1>1. ConfigurationInv
  BY InitConfigurationInv DEF Init
<1>2. GrantsKept
  BY DEF Init, GrantsKept, Outer!NotRaised, Inner!NotRaised, Outer!Raised,
         Inner!Raised
<1>3. ExecutorsCounted /\ InterruptLeaves /\ EndingKept
  BY DEF Init, ExecutorsCounted, InterruptLeaves, EndingKept,
         LastEndingReported
<1> QED
  BY <1>1, <1>2, <1>3 DEF Init, NestedInv

-----------------------------------------------------------------------------
\* The inner executor.

LEMMA InnerBody ==
    ASSUME InnerWithin, iSevere = {}, NEW e,
           Inner!YieldRaises(e) \/ Inner!YieldReturns,
           UNCHANGED <<iPolicy, granted>>
    PROVE  /\ InnerWithin' /\ iAttempts' = iAttempts + 1
           /\ iSevere' # {} => iPc' = "raised" /\ iRaised'.via = "Escaped"
                               /\ iSevere' = {iRaised'.error}
                               /\ iRaised'.error \in Severe
BY NestedAssumption
   DEF InnerWithin, Within, AtLeastOne, Standard, Inner!YieldRaises,
       Inner!YieldReturns, Inner!BodyRaises, Inner!Escapes, Inner!Raised

LEMMA InnerRest ==
    ASSUME InnerWithin, iSevere = {},
           \/ Inner!Call \/ Inner!OnSuccess \/ Inner!Return
           \/ Inner!NotRetryable \/ Inner!Exhausted
           \/ Inner!HandleFinalFailure \/ Inner!CalculateDelay
           \/ Inner!OnRetry \/ Inner!RobustSleep,
           UNCHANGED <<iPolicy, granted>>
    PROVE  /\ InnerWithin' /\ iAttempts' = iAttempts
           /\ iSevere' # {} => iPc' = "raised" /\ iRaised'.via = "Escaped"
                               /\ iSevere' = {iRaised'.error}
                               /\ iRaised'.error \in Severe
<1>1. CASE Inner!Call \/ Inner!OnSuccess \/ Inner!Return
  BY <1>1 DEF InnerWithin, Within, AtLeastOne, Settings, Inner!Call,
              Inner!OnSuccess, Inner!Return
<1>2. CASE Inner!NotRetryable \/ Inner!Exhausted
  BY <1>2 DEF InnerWithin, Within, AtLeastOne, Settings, Inner!NotRetryable,
              Inner!Exhausted, Inner!FinalFailure, Inner!Raised
<1>3. CASE Inner!HandleFinalFailure \/ Inner!OnRetry
  BY <1>3 DEF InnerWithin, Within, AtLeastOne, Settings,
              Inner!HandleFinalFailure, Inner!OnRetry
<1>4. CASE Inner!CalculateDelay
  BY <1>4, NestedAssumption
     DEF InnerWithin, Within, AtLeastOne, Settings, Inner!CalculateDelay
<1>5. CASE Inner!RobustSleep
  BY <1>5 DEF InnerWithin, Within, AtLeastOne, Settings, Inner!RobustSleep,
              Inner!Escapes, Inner!Raised
<1> QED
  BY <1>1, <1>2, <1>3, <1>4, <1>5

LEMMA InnerStepInv ==
    ASSUME NestedInv, InnerStep PROVE NestedInv'
<1>1. /\ stage = "inner" /\ stage' = stage /\ iSevere = {}
      /\ UNCHANGED <<configuration, argument, outer, iPolicy, granted, made,
                     paid, ending>>
  <2>1. iPc # "raised"
    BY DEF InnerStep, Inner!Yield, Inner!YieldReturns, Inner!YieldRaises,
           Inner!Call, Inner!OnSuccess, Inner!Return, Inner!NotRetryable,
           Inner!Exhausted, Inner!HandleFinalFailure, Inner!CalculateDelay,
           Inner!OnRetry, Inner!RobustSleep
  <2> QED
    BY <2>1 DEF InnerStep, NestedInv, InterruptLeaves
<1>2. InnerWithin /\ runs + (granted.inner - iAttempts) <= paid
  BY <1>1 DEF NestedInv, GrantsKept
<1>3. /\ InnerWithin'
      /\ \/ iAttempts' = iAttempts + 1 /\ runs' = runs + 1
         \/ iAttempts' = iAttempts /\ runs' = runs
      /\ iSevere' # {} => iPc' = "raised" /\ iRaised'.via = "Escaped"
                          /\ iSevere' = {iRaised'.error}
                          /\ iRaised'.error \in Severe
  <2>1. CASE Inner!Yield /\ runs' = runs + 1
    BY <1>1, <1>2, <2>1, InnerBody DEF Inner!Yield
  <2>2. CASE /\ \/ Inner!Call \/ Inner!OnSuccess \/ Inner!Return
                \/ Inner!NotRetryable \/ Inner!Exhausted
                \/ Inner!HandleFinalFailure \/ Inner!CalculateDelay
                \/ Inner!OnRetry \/ Inner!RobustSleep
             /\ UNCHANGED runs
    BY <1>1, <1>2, <2>2, InnerRest
  <2> QED
    BY <2>1, <2>2 DEF InnerStep
<1>4. GrantsKept'
  <2>1. OuterWithin' = OuterWithin
    BY <1>1 DEF OuterWithin, outer
  <2>2. /\ runs' \in Nat /\ paid' \in Nat
        /\ runs' + (granted'.inner - iAttempts') <= paid'
    BY <1>1, <1>2, <1>3 DEF NestedInv, GrantsKept, InnerWithin, Within
  <2>3. granted'.inner \in Nat /\ iAttempts' \in Nat
        /\ iAttempts' <= granted'.inner
    BY <1>1, <1>3 DEF NestedInv, GrantsKept, InnerWithin, Within
  <2>4. runs' <= paid'
    BY <2>2, <2>3
  <2> QED
    BY <1>1, <1>3, <2>1, <2>2, <2>4 DEF NestedInv, GrantsKept
<1>5. InterruptLeaves'
  BY <1>1, <1>3 DEF InterruptLeaves
<1>6. EndingKept'
  BY <1>1 DEF NestedInv, EndingKept, LastEndingReported, outer
<1>7. ExecutorsCounted'
  BY <1>1 DEF NestedInv, ExecutorsCounted, outer
<1>8. ConfigurationInv' /\ argument' \in InnerArguments
  BY <1>1, NextConfigurationInv DEF NestedInv
<1> QED
  BY <1>4, <1>5, <1>6, <1>7, <1>8 DEF NestedInv

-----------------------------------------------------------------------------
\* The outer executor.

LEMMA OuterStepInv ==
    ASSUME NestedInv, OuterStep PROVE NestedInv'
<1>1. /\ stage = "outer" /\ stage' = stage /\ iSevere = {}
      /\ UNCHANGED <<configuration, argument, policy, inner, observer>>
  <2>1. pc # "raised"
    BY DEF OuterStep, Outer!Call, Outer!OnSuccess, Outer!Return,
           Outer!NotRetryable, Outer!Exhausted, Outer!HandleFinalFailure,
           Outer!CalculateDelay, Outer!OnRetry, Outer!RobustSleep
  <2> QED
    BY <2>1 DEF OuterStep, NestedInv, InterruptLeaves
<1>2. OuterWithin /\ EndingKept
  BY <1>1 DEF NestedInv, GrantsKept
<1>3. OuterWithin' /\ EndingKept'
  <2>0. policy' = policy /\ granted' = granted /\ ending' = ending
    BY <1>1 DEF observer
  <2>1. CASE Outer!Call \/ Outer!OnSuccess \/ Outer!Return
    BY <1>2, <2>0, <2>1
       DEF OuterWithin, Within, AtLeastOne, Settings, EndingKept,
           LastEndingReported, Outer!Call, Outer!OnSuccess, Outer!Return
  <2>2. CASE Outer!NotRetryable \/ Outer!Exhausted
    BY <1>2, <2>0, <2>2
       DEF OuterWithin, Within, AtLeastOne, Settings, EndingKept,
           LastEndingReported, Outer!NotRetryable, Outer!Exhausted,
           Outer!FinalFailure, Outer!Raised
  <2>3. CASE Outer!HandleFinalFailure \/ Outer!OnRetry
    BY <1>2, <2>0, <2>3
       DEF OuterWithin, Within, AtLeastOne, Settings, EndingKept,
           LastEndingReported, Outer!HandleFinalFailure, Outer!OnRetry
  <2>4. CASE Outer!CalculateDelay
    BY <1>2, <2>0, <2>4, NestedAssumption
       DEF OuterWithin, Within, AtLeastOne, Settings, EndingKept,
           LastEndingReported, Outer!CalculateDelay
  <2>5. CASE Outer!RobustSleep
    BY <1>2, <2>0, <2>5
       DEF OuterWithin, Within, AtLeastOne, Settings, EndingKept,
           LastEndingReported, Outer!RobustSleep, Outer!Escapes, Outer!Raised
  <2> QED
    BY <2>1, <2>2, <2>3, <2>4, <2>5 DEF OuterStep
<1>4. GrantsKept'
  BY <1>1, <1>3 DEF NestedInv, GrantsKept, InnerWithin, inner, observer
<1>5. InterruptLeaves'
  BY <1>1 DEF InterruptLeaves, inner
<1>6. ExecutorsCounted'
  <2>1. attempts' = attempts
    BY DEF OuterStep, Outer!Call, Outer!OnSuccess, Outer!Return,
           Outer!NotRetryable, Outer!Exhausted, Outer!FinalFailure,
           Outer!HandleFinalFailure, Outer!CalculateDelay, Outer!OnRetry,
           Outer!RobustSleep
  <2> QED
    BY <1>1, <2>1 DEF NestedInv, ExecutorsCounted, observer
<1>7. ConfigurationInv' /\ argument' \in InnerArguments
  BY <1>1, NextConfigurationInv DEF NestedInv
<1> QED
  BY <1>3, <1>4, <1>5, <1>6, <1>7 DEF NestedInv

\* The attempt of the outer executor ends.
LEMMA BlockEnds ==
    ASSUME OuterWithin, EndingKept,
           NEW e, BlockReturns \/ BlockRaises(e),
           policy' = policy, granted' = granted
    PROVE  OuterWithin' /\ EndingKept' /\ attempts' = attempts + 1
<1>1. CASE BlockReturns
  BY <1>1 DEF OuterWithin, Within, AtLeastOne, EndingKept, LastEndingReported,
              BlockReturns, Outer!YieldReturns
<1>2. CASE BlockRaises(e)
  BY <1>2, NestedAssumption
     DEF OuterWithin, Within, AtLeastOne, EndingKept, LastEndingReported,
         BlockRaises, Outer!YieldRaises, Outer!BodyRaises, Outer!Escapes,
         Outer!Raised, Standard
<1> QED
  BY <1>1, <1>2

LEMMA InnerMissingInv ==
    ASSUME NestedInv, InnerMissing PROVE NestedInv'
<1>1. /\ stage = "outer" /\ stage' = stage /\ pc = "yield"
      /\ UNCHANGED <<configuration, argument, policy, inner, granted, made,
                     runs, paid>>
      /\ BlockRaises(BadArgument)
  BY DEF InnerMissing
<1>2. OuterWithin /\ EndingKept /\ iSevere = {}
  BY <1>1 DEF NestedInv, GrantsKept, InterruptLeaves
<1>3. OuterWithin' /\ EndingKept' /\ attempts' = attempts + 1
  BY <1>1, <1>2, BlockEnds
<1>4. GrantsKept'
  BY <1>1, <1>3 DEF NestedInv, GrantsKept, InnerWithin, inner
<1>5. InterruptLeaves'
  BY <1>1, <1>2 DEF InterruptLeaves, inner
<1>6. ExecutorsCounted'
  BY <1>1, <1>3 DEF NestedInv, ExecutorsCounted
<1>7. ConfigurationInv' /\ argument' \in InnerArguments
  BY <1>1, NextConfigurationInv DEF NestedInv
<1> QED
  BY <1>3, <1>4, <1>5, <1>6, <1>7 DEF NestedInv

LEMMA InnerRetryInv ==
    ASSUME NestedInv, InnerRetry PROVE NestedInv'
<1> DEFINE max == PolicyFor(argument).max_attempts
<1>1. max \in Int
  BY FoundTyped, NestedAssumption
     DEF NestedInv, ConfigurationInv, InnerRetry
<1>2. /\ stage = "outer" /\ stage' = "inner" /\ pc = "yield"
      /\ UNCHANGED <<configuration, argument, outer, runs, ending>>
      /\ iPolicy'.max_attempts = max /\ iPc' = "ready" /\ iAttempts' = 0
      /\ iRaised'.via = "None" /\ iSevere' = {}
      /\ granted' = [granted EXCEPT !.inner = AtLeastOne(max),
                         !.most = IF @ < AtLeastOne(max) THEN AtLeastOne(max)
                                                         ELSE @]
      /\ made' = made + 1 /\ paid' = paid + AtLeastOne(max)
  BY DEF InnerRetry, Inner!NotRaised, Inner!Raised
<1> HIDE DEF max
<1>3. AtLeastOne(max) \in Nat
  BY <1>1 DEF AtLeastOne
<1>4. /\ granted'.outer = granted.outer /\ granted'.inner = AtLeastOne(max)
      /\ granted.most <= granted'.most /\ AtLeastOne(max) <= granted'.most
      /\ granted \in [outer : Nat, inner : Nat, most : Nat]
      /\ granted' \in [outer : Nat, inner : Nat, most : Nat]
  <2> DEFINE budget == AtLeastOne(max)
             most == IF granted.most < budget THEN budget ELSE granted.most
  <2>1. granted \in [outer : Nat, inner : Nat, most : Nat]
    BY DEF NestedInv, GrantsKept
  <2>2. most \in Nat /\ granted.most <= most /\ budget <= most
    BY <1>3, <2>1
  <2>3. granted' = [granted EXCEPT !.inner = budget, !.most = most]
    BY <1>2
  <2> HIDE DEF budget, most
  <2>4. /\ granted'.outer = granted.outer /\ granted'.inner = budget
        /\ granted'.most = most
    BY <2>1, <2>3
  <2>5. budget \in Nat
    BY <1>3 DEF budget
  <2>6. granted' \in [outer : Nat, inner : Nat, most : Nat]
    BY <2>1, <2>2, <2>3, <2>5
  <2> QED
    BY <2>1, <2>2, <2>4, <2>6 DEF budget
<1>5. InnerWithin'
  BY <1>1, <1>2, <1>4, NewWithin DEF InnerWithin
<1>6. OuterWithin' = OuterWithin
  BY <1>2, <1>4 DEF OuterWithin, outer
<1>7. GrantsKept'
  BY <1>2, <1>3, <1>4, <1>5, <1>6 DEF NestedInv, GrantsKept
<1>8. InterruptLeaves' /\ EndingKept'
  BY <1>2 DEF NestedInv, InterruptLeaves, EndingKept, LastEndingReported, outer
<1>9. ExecutorsCounted'
  <2>1. /\ made \in Nat /\ attempts \in Nat /\ paid \in Nat
        /\ made <= attempts /\ paid <= made * granted.most
    BY <1>2 DEF NestedInv, GrantsKept, ExecutorsCounted
  <2>2. paid + AtLeastOne(max) <= (made + 1) * granted'.most
    BY <1>3, <1>4, <2>1, OneMore
  <2> QED
    BY <1>2, <2>1, <2>2 DEF ExecutorsCounted, outer
<1>10. ConfigurationInv' /\ argument' \in InnerArguments
  BY <1>2, NextConfigurationInv DEF NestedInv
<1> QED
  BY <1>7, <1>8, <1>9, <1>10 DEF NestedInv

LEMMA InnerEndsInv ==
    ASSUME NestedInv, InnerEnds PROVE NestedInv'
<1> DEFINE e == IF iRaised.via = "Exhausted" THEN MaxRetries ELSE iRaised.error
<1>1. /\ stage = "inner" /\ stage' = "outer"
      /\ UNCHANGED <<configuration, argument, policy, inner, granted, made,
                     runs, paid>>
      /\ \/ iPc = "returned" /\ BlockReturns
         \/ iPc = "raised" /\ BlockRaises(e)
  BY DEF InnerEnds
<1>2. OuterWithin /\ EndingKept
  BY <1>1 DEF NestedInv, GrantsKept
<1>3. OuterWithin' /\ EndingKept' /\ attempts' = attempts + 1
  BY <1>1, <1>2, BlockEnds
<1>4. GrantsKept'
  BY <1>1, <1>3 DEF NestedInv, GrantsKept, InnerWithin, inner
<1>5. InterruptLeaves'
  <2>1. CASE iSevere = {}
    BY <1>1, <2>1 DEF InterruptLeaves, inner
  <2>2. CASE iSevere # {}
    <3>1. /\ iPc = "raised" /\ iRaised.via = "Escaped"
          /\ iSevere = {iRaised.error} /\ iRaised.error \in Severe
      BY <2>2 DEF NestedInv, InterruptLeaves
    <3>2. /\ pc' = "raised" /\ raised'.via = "Escaped"
          /\ raised'.error = iRaised.error
      BY <1>1, <3>1
         DEF BlockRaises, Outer!YieldRaises, Outer!BodyRaises, Outer!Escapes,
             Outer!Raised, Standard
    <3> QED
      BY <1>1, <3>1, <3>2 DEF InterruptLeaves, inner
  <2> QED
    BY <2>1, <2>2
<1>6. ExecutorsCounted'
  BY <1>1, <1>3 DEF NestedInv, ExecutorsCounted
<1>7. ConfigurationInv' /\ argument' \in InnerArguments
  BY <1>1, NextConfigurationInv DEF NestedInv
<1> QED
  BY <1>3, <1>4, <1>5, <1>6, <1>7 DEF NestedInv

LEMMA RetryInv ==
    ASSUME NestedInv, NEW a \in OuterArguments, Retry(a) PROVE NestedInv'
<1>1. /\ stage = "out"
      /\ UNCHANGED <<configuration, argument, pc, attempts, error, delay, raised,
                     finished, notices, fallbacks, severe, inner,
                     made, runs, paid, ending>>
  BY DEF Retry
<1>2. GrantsKept'
  <2>1. CASE PolicyFor(a).defined
    <3> DEFINE max == PolicyFor(a).max_attempts
    <3>1. max \in Int
      BY <2>1, FoundTyped, NestedAssumption DEF NestedInv, ConfigurationInv
    <3>2. /\ policy'.max_attempts = max /\ stage' = "outer"
          /\ granted' = [granted EXCEPT !.outer = AtLeastOne(max)]
      BY <2>1 DEF Retry
    <3> HIDE DEF max
    <3>3. AtLeastOne(max) \in Nat
      BY <3>1 DEF AtLeastOne
    <3>4. /\ granted'.inner = granted.inner /\ granted'.outer = AtLeastOne(max)
          /\ granted' \in [outer : Nat, inner : Nat, most : Nat]
      BY <3>2, <3>3 DEF NestedInv, GrantsKept
    <3>5. OuterWithin'
      BY <1>1, <3>1, <3>2, <3>4, NewWithin
         DEF NestedInv, GrantsKept, OuterWithin
    <3> QED
      BY <1>1, <3>2, <3>4, <3>5 DEF NestedInv, GrantsKept, InnerWithin, inner
  <2>2. CASE ~PolicyFor(a).defined
    BY <1>1, <2>2 DEF Retry, NestedInv, GrantsKept, InnerWithin, inner
  <2> QED
    BY <2>1, <2>2
<1>3. iSevere = {}
  BY <1>1 DEF NestedInv, GrantsKept, InterruptLeaves
<1>4. InterruptLeaves' /\ EndingKept'
  BY <1>1, <1>3
     DEF NestedInv, InterruptLeaves, EndingKept, LastEndingReported, inner
<1>5. ExecutorsCounted'
  <2>1. stage' \in {"outer", "over"} /\ granted'.most = granted.most
    BY <1>1 DEF Retry, NestedInv, GrantsKept
  <2> QED
    BY <1>1, <2>1 DEF NestedInv, ExecutorsCounted
<1>6. ConfigurationInv' /\ argument' \in InnerArguments
  BY <1>1, NextConfigurationInv DEF NestedInv
<1> QED
  BY <1>2, <1>4, <1>5, <1>6 DEF NestedInv

-----------------------------------------------------------------------------

\* A step leaves the configuration alone or is one of its own.
LEMMA ConfigurationStep ==
    [Next]_vars => [Reconfigure]_configuration
BY DEF Next, Retry, CallStep, OuterStep, InnerMissing, InnerRetry, InnerStep,
       InnerEnds, Change, Done, vars

LEMMA NextNestedInv == NestedInv /\ [Next]_vars => NestedInv'
<1> SUFFICES ASSUME NestedInv, [Next]_vars PROVE NestedInv'
    OBVIOUS
<1>1. CASE UNCHANGED <<stage, argument, outer, inner, observer>>
  <2>1. ConfigurationInv'
    BY ConfigurationStep, NextConfigurationInv DEF NestedInv
  <2>2. GrantsKept' /\ ExecutorsCounted'
    BY <1>1 DEF NestedInv, GrantsKept, ExecutorsCounted, OuterWithin,
                InnerWithin, outer, inner, observer
  <2>3. InterruptLeaves' /\ EndingKept'
    BY <1>1 DEF NestedInv, InterruptLeaves, EndingKept, LastEndingReported,
                outer, inner, observer
  <2> QED
    BY <1>1, <2>1, <2>2, <2>3 DEF NestedInv
<1>2. CASE CallStep
  BY <1>2, OuterStepInv, InnerMissingInv, InnerRetryInv, InnerStepInv,
     InnerEndsInv DEF CallStep
<1>3. CASE \E a \in OuterArguments : Retry(a)
  BY <1>3, RetryInv
<1> QED
  BY <1>1, <1>2, <1>3 DEF Next, Change, Done, vars

THEOREM NestedInvariance == Spec => []NestedInv
<1> QED
  BY InitNestedInv, NextNestedInv, PTL DEF Spec

\* Nested retries make the attempts of the policies they found, whatever is
\* defined, replaced or extended meanwhile: one inner executor for an attempt
\* of the outer one, and no more runs of the inner block than the product of
\* the outer grant and the largest inner one.
THEOREM BudgetsAlwaysMultiply == Spec => []BudgetsMultiply
<1>1. NestedInv => BudgetsMultiply
  <2> SUFFICES ASSUME NestedInv PROVE BudgetsMultiply
      OBVIOUS
  <2>1. /\ made <= IF stage = "inner" THEN attempts + 1 ELSE attempts
        /\ made \in Nat /\ paid <= made * granted.most
    BY DEF NestedInv, ExecutorsCounted
  <2>2. /\ attempts <= granted.outer /\ iAttempts <= granted.inner
        /\ raised.via = "Exhausted" => attempts = granted.outer
        /\ iRaised.via = "Exhausted" => iAttempts = granted.inner
        /\ runs \in Nat /\ paid \in Nat /\ runs <= paid
        /\ granted.outer \in Nat /\ granted.most \in Nat
    BY DEF NestedInv, GrantsKept, OuterWithin, InnerWithin, Within
  <2>3. made <= granted.outer
    <3>1. CASE stage = "inner"
      <4>1. attempts \in Nat /\ attempts < granted.outer
        BY <3>1 DEF NestedInv, GrantsKept, ExecutorsCounted, OuterWithin, Within
      <4> QED
        BY <2>1, <2>2, <3>1, <4>1
    <3>2. CASE stage # "inner"
      <4>1. attempts \in Nat
        BY DEF NestedInv, ExecutorsCounted
      <4> QED
        BY <2>1, <2>2, <3>2, <4>1
    <3> QED
      BY <3>1, <3>2
  <2>4. runs <= granted.outer * granted.most
    <3>1. made * granted.most <= granted.outer * granted.most
      BY <2>1, <2>2, <2>3, ProductGrows
    <3>2. /\ made * granted.most \in Nat
          /\ granted.outer * granted.most \in Nat
      BY <2>1, <2>2
    <3> QED
      BY <2>1, <2>2, <3>1, <3>2
  <2> QED
    BY <2>1, <2>2, <2>3, <2>4 DEF BudgetsMultiply
<1> QED
  BY <1>1, NestedInvariance, PTL

\* An Interrupt of the inner block passes through the rescue of both calls.
THEOREM InterruptsEndBoth == Spec => []InterruptEndsBoth
<1>1. NestedInv => InterruptEndsBoth
  BY DEF NestedInv, InterruptLeaves, InterruptEndsBoth
<1> QED
  BY <1>1, NestedInvariance, PTL

\* The caller of the outer retry learns how its last attempt ended.
THEOREM LastEndingAlwaysReported == Spec => []LastEndingReported
<1>1. NestedInv => LastEndingReported
  BY DEF NestedInv, EndingKept
<1> QED
  BY <1>1, NestedInvariance, PTL

\* Policies stand on their own while calls run, as they do without calls.
THEOREM PoliciesStandAloneUnderCalls == Spec => ChangesAreLocal
<1>1. Init => NewConfiguration
  BY DEF Init
<1>2. Spec => ConfigurationSpec
  BY <1>1, ConfigurationStep, PTL DEF Spec, ConfigurationSpec
<1> QED
  BY <1>2, PoliciesStandAlone

-----------------------------------------------------------------------------
\* The ranking behind the termination of a nested call.

\* A step of an executor that was granted its attempts uses up one of the
\* steps it has left, and leaves its settings alone.
LEMMA OuterDescends ==
    ASSUME OuterWithin, policy' = policy,
           \/ Outer!Call \/ Outer!Step \/ BlockReturns
           \/ \E e : BlockRaises(e)
    PROVE  Outer!StepsLeft' \in 0..(Outer!StepsLeft - 1)
<1> DEFINE left == Outer!Budget - attempts
<1>1. /\ attempts \in Nat /\ Outer!Budget \in Nat
      /\ attempts <= Outer!Budget
      /\ pc \in {"yield"} => attempts < Outer!Budget
  BY DEF OuterWithin, Within, AtLeastOne, Outer!Budget, Settings
<1>2. left \in Nat /\ (pc = "yield" => left > 0)
  BY <1>1
<1>3. Outer!Budget' = Outer!Budget
  BY DEF Outer!Budget, Settings
<1>4. CASE pc = "yield"
  <2>1. pc' \in {"succeeded", "rescue", "raised"} /\ attempts' = attempts + 1
    BY <1>4 DEF BlockReturns, BlockRaises, Outer!YieldReturns,
         Outer!YieldRaises, Outer!BodyRaises, Outer!Escapes, Outer!Call,
         Outer!Step, Outer!Yield, Outer!OnSuccess, Outer!Return,
         Outer!NotRetryable, Outer!Exhausted, Outer!HandleFinalFailure,
         Outer!CalculateDelay, Outer!OnRetry, Outer!RobustSleep,
         Outer!AsyncSleep
  <2>2. left' = left - 1
    BY <1>1, <1>3, <2>1
  <2> QED
    BY <1>2, <1>4, <2>1, <2>2 DEF Outer!StepsLeft
<1>5. CASE pc # "yield"
  <2>1. /\ attempts' = attempts
        /\ \/ pc = "ready" /\ pc' = "yield"
           \/ pc = "succeeded" /\ pc' \in {"return", "rescue", "raised"}
           \/ pc = "return" /\ pc' = "returned"
           \/ pc = "rescue" /\ pc' \in {"final", "on_retry", "raised"}
           \/ pc = "final" /\ pc' = "raised"
           \/ pc = "on_retry" /\ pc' \in {"sleep", "raised"}
           \/ pc = "sleep" /\ pc' \in {"yield", "raised"}
    BY <1>5 DEF BlockReturns, BlockRaises, Outer!YieldReturns,
         Outer!YieldRaises, Outer!BodyRaises, Outer!Escapes, Outer!Call,
         Outer!Step, Outer!Yield, Outer!OnSuccess, Outer!Return,
         Outer!NotRetryable, Outer!Exhausted, Outer!FinalFailure,
         Outer!HandleFinalFailure, Outer!CalculateDelay, Outer!OnRetry,
         Outer!RobustSleep, Outer!AsyncSleep
  <2>2. left' = left
    BY <1>3, <2>1
  <2> QED
    BY <1>2, <2>1, <2>2 DEF Outer!StepsLeft
<1> QED
  BY <1>4, <1>5

LEMMA InnerDescends ==
    ASSUME InnerWithin, iPolicy' = iPolicy, Inner!Call \/ Inner!Step
    PROVE  Inner!StepsLeft' \in 0..(Inner!StepsLeft - 1)
<1> DEFINE left == Inner!Budget - iAttempts
<1>1. /\ iAttempts \in Nat /\ Inner!Budget \in Nat
      /\ iAttempts <= Inner!Budget
      /\ iPc = "yield" => iAttempts < Inner!Budget
  BY DEF InnerWithin, Within, AtLeastOne, Inner!Budget, Settings
<1>2. left \in Nat /\ (iPc = "yield" => left > 0)
  BY <1>1
<1>3. Inner!Budget' = Inner!Budget
  BY DEF Inner!Budget, Settings
<1>4. CASE iPc = "yield"
  <2>1. /\ iPc' \in {"succeeded", "rescue", "raised"}
        /\ iAttempts' = iAttempts + 1
    BY <1>4 DEF Inner!YieldReturns, Inner!YieldRaises, Inner!BodyRaises,
         Inner!Escapes, Inner!Call, Inner!Step, Inner!Yield, Inner!OnSuccess,
         Inner!Return, Inner!NotRetryable, Inner!Exhausted,
         Inner!HandleFinalFailure, Inner!CalculateDelay, Inner!OnRetry,
         Inner!RobustSleep, Inner!AsyncSleep
  <2>2. left' = left - 1
    BY <1>1, <1>3, <2>1
  <2> QED
    BY <1>2, <1>4, <2>1, <2>2 DEF Inner!StepsLeft
<1>5. CASE iPc # "yield"
  <2>1. /\ iAttempts' = iAttempts
        /\ \/ iPc = "ready" /\ iPc' = "yield"
           \/ iPc = "succeeded" /\ iPc' \in {"return", "rescue", "raised"}
           \/ iPc = "return" /\ iPc' = "returned"
           \/ iPc = "rescue" /\ iPc' \in {"final", "on_retry", "raised"}
           \/ iPc = "final" /\ iPc' = "raised"
           \/ iPc = "on_retry" /\ iPc' \in {"sleep", "raised"}
           \/ iPc = "sleep" /\ iPc' \in {"yield", "raised"}
    BY <1>5 DEF Inner!YieldReturns, Inner!YieldRaises, Inner!BodyRaises,
         Inner!Escapes, Inner!Call, Inner!Step, Inner!Yield, Inner!OnSuccess,
         Inner!Return, Inner!NotRetryable, Inner!Exhausted,
         Inner!FinalFailure, Inner!HandleFinalFailure, Inner!CalculateDelay,
         Inner!OnRetry, Inner!RobustSleep, Inner!AsyncSleep
  <2>2. left' = left
    BY <1>3, <2>1
  <2> QED
    BY <1>2, <2>1, <2>2 DEF Inner!StepsLeft
<1> QED
  BY <1>4, <1>5

\* A nested call ends: no definition, and no list that grows meanwhile, gives
\* either executor a step more than it had.
THEOREM NestedCallsDescend == Spec => NestedCallDescends
<1> DEFINE Descends ==
        \/ Outer!StepsLeft' \in 0..(Outer!StepsLeft - 1)
        \/ /\ UNCHANGED Outer!StepsLeft
           /\ \/ stage = "outer" /\ stage' = "inner"
              \/ /\ UNCHANGED stage
                 /\ \/ Inner!StepsLeft' \in 0..(Inner!StepsLeft - 1)
                    \/ UNCHANGED <<outer, inner, Inner!StepsLeft>>
<1>1. NestedInv /\ [Next]_vars
          => [(stage \in {"outer", "inner"}) => Descends]_vars
  <2> SUFFICES ASSUME NestedInv, Next, stage \in {"outer", "inner"}
               PROVE  Descends
      OBVIOUS
  <2>1. OuterWithin /\ (stage = "inner" => InnerWithin)
    BY DEF NestedInv, GrantsKept
  <2>2. CASE OuterStep \/ InnerMissing \/ InnerEnds
    <3>1. /\ policy' = policy
          /\ \/ Outer!Call \/ Outer!Step \/ BlockReturns
             \/ \E e : BlockRaises(e)
      BY <2>2 DEF OuterStep, InnerMissing, InnerEnds, Outer!Step
    <3> QED
      BY <2>1, <3>1, OuterDescends
  <2>3. CASE InnerRetry
    <3>1. /\ stage = "outer" /\ stage' = "inner"
          /\ policy' = policy /\ pc' = pc /\ attempts' = attempts
      BY <2>3 DEF InnerRetry, outer
    <3>2. UNCHANGED Outer!StepsLeft
      BY <3>1 DEF Outer!StepsLeft, Outer!Budget, Settings
    <3> QED
      BY <3>1, <3>2
  <2>4. CASE InnerStep
    <3>1. /\ stage = "inner" /\ stage' = stage /\ iPolicy' = iPolicy
          /\ policy' = policy /\ pc' = pc /\ attempts' = attempts
          /\ Inner!Call \/ Inner!Step
      BY <2>4 DEF InnerStep, outer, Inner!Step
    <3>2. UNCHANGED Outer!StepsLeft
      BY <3>1 DEF Outer!StepsLeft, Outer!Budget, Settings
    <3>3. Inner!StepsLeft' \in 0..(Inner!StepsLeft - 1)
      BY <2>1, <3>1, InnerDescends
    <3> QED
      BY <3>1, <3>2, <3>3
  <2>5. CASE UNCHANGED <<stage, outer, inner>>
    <3>1. UNCHANGED <<Outer!StepsLeft, Inner!StepsLeft>>
      BY <2>5 DEF outer, inner, Outer!StepsLeft, Outer!Budget,
                  Inner!StepsLeft, Inner!Budget, Settings
    <3> QED
      BY <2>5, <3>1
  <2> QED
    BY <2>2, <2>3, <2>4, <2>5 DEF Next, Retry, CallStep, Change, Done, vars
<1> QED
  BY <1>1, NestedInvariance, PTL DEF Spec, NestedCallDescends
=============================================================================
