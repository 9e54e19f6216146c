----------------------------- MODULE NestedCalls -----------------------------
(***************************************************************************)
(* A call of ChronoMachines.retry whose block calls ChronoMachines.retry   *)
(* (lib/chrono_machines.rb): two executors (Executor) of one thread, made  *)
(* from the configuration (Configuration) as it is at that moment, while   *)
(* the configuration goes on changing.  Each attempt of the outer executor *)
(* makes a new inner one.                                                  *)
(***************************************************************************)
EXTENDS Configuration

CONSTANTS Severe, NoException, BadArgument,     \* as in Executor
          MaxRetries,           \* MaxRetriesExceededError
          OuterArguments, InnerArguments,       \* of ChronoMachines.retry
          Delays                \* what calculate_delay may answer

Standard == AllExceptions \ Severe

\* A symbol names a policy; a hash gives options.
Argument == [symbol : BOOLEAN, name : Names, options : OptionType]

ASSUME NestedAssumption ==
    /\ Severe \subseteq AllExceptions
    /\ {BadArgument, MaxRetries} \subseteq Standard
    /\ NoException \notin AllExceptions
    /\ OuterArguments \cup InnerArguments \subseteq Argument
    /\ Delays \subseteq Int /\ Delays # {}

VARIABLES stage,        \* which executor runs
          argument,     \* what the block passes to the inner retry
          \* The outer executor: its policy and its call (see Executor).
          policy, pc, attempts, error, delay, raised,
          finished, notices, fallbacks, severe,
          \* The inner executor of the current attempt.
          iPolicy, iPc, iAttempts, iError, iDelay, iRaised,
          iFinished, iNotices, iFallbacks, iSevere,
          \* What an observer saw (not program state):
          granted,      \* max_attempts when each executor was made, and the
                        \* most of them that an inner one had
          made,         \* inner executors made
          runs, paid,   \* runs of the inner block, and the sum of the budgets
                        \* of the inner executors
          ending        \* what the last attempt of the outer block raised

outer == <<policy, pc, attempts, error, delay, raised,
           finished, notices, fallbacks, severe>>
inner == <<iPolicy, iPc, iAttempts, iError, iDelay, iRaised,
           iFinished, iNotices, iFallbacks, iSevere>>
observer == <<granted, made, runs, paid, ending>>
vars == <<configuration, stage, argument, outer, inner, observer>>

\* mutant: the executor asks the configuration again
SettingsNow(p) ==
    [max_attempts |-> IF policies[Default].defined
                      THEN policies[Default].max_attempts ELSE p.max_attempts,
     retryable |-> arrays[p.retryable],
     delays |-> Delays, hooks |-> {}, async |-> FALSE]
\* An executor copies the values of its policy; its list is the policy's.
Settings(p) ==
    [max_attempts |-> p.max_attempts, retryable |-> arrays[p.retryable],
     delays |-> Delays, hooks |-> {}, async |-> FALSE]

Outer == INSTANCE Executor WITH Options <- {}, options <- Settings(policy)
Inner == INSTANCE Executor
    WITH Options <- {}, options <- Settings(iPolicy), pc <- iPc,
         attempts <- iAttempts, error <- iError, delay <- iDelay,
         raised <- iRaised, finished <- iFinished, notices <- iNotices,
         fallbacks <- iFallbacks, severe <- iSevere

AtLeastOne(n) == IF n < 1 THEN 1 ELSE n

Nowhere == Policy(1, 1)     \* before an executor is made

Init ==
    /\ NewConfiguration
    /\ stage = "out"
    /\ argument \in InnerArguments
    /\ policy = Nowhere /\ pc = "ready" /\ attempts = 0
    /\ error = NoException /\ delay = 0 /\ raised = Outer!NotRaised
    /\ finished = 0 /\ notices = 0 /\ fallbacks = 0 /\ severe = {}
    /\ iPolicy = Nowhere /\ iPc = "ready" /\ iAttempts = 0
    /\ iError = NoException /\ iDelay = 0 /\ iRaised = Inner!NotRaised
    /\ iFinished = 0 /\ iNotices = 0 /\ iFallbacks = 0 /\ iSevere = {}
    /\ granted = [outer |-> 0, inner |-> 0, most |-> 0]
    /\ made = 0 /\ runs = 0 /\ paid = 0 /\ ending = NoException

-----------------------------------------------------------------------------
\* The outer call.

\* ChronoMachines.retry(outer): Executor.new, which raises ArgumentError for
\* an unknown name, then call.
Retry(outer_argument) ==
    /\ stage = "out"
    /\ LET found == PolicyFor(outer_argument)
       IN  IF found.defined
           THEN /\ policy' = found
                /\ stage' = "outer"
                /\ granted' = [granted EXCEPT !.outer =
                                   AtLeastOne(found.max_attempts)]
           ELSE stage' = "over" /\ UNCHANGED <<policy, granted>>
    /\ UNCHANGED <<configuration, argument, pc, attempts, error, delay, raised,
                   finished, notices, fallbacks, severe, inner,
                   made, runs, paid, ending>>

\* What the executor does outside its block.
OuterStep ==
    /\ stage = "outer"
    /\ UNCHANGED <<configuration, stage, argument, policy, inner, observer>>
    /\ \/ Outer!Call \/ Outer!OnSuccess \/ Outer!Return
       \/ Outer!NotRetryable \/ Outer!Exhausted \/ Outer!HandleFinalFailure
       \/ Outer!CalculateDelay \/ Outer!OnRetry \/ Outer!RobustSleep

\* mutant: an exhausted inner call does not use up an attempt
BlockRaisesUncounted(e) ==
    /\ Outer!BodyRaises(e) /\ ending' = e
    /\ attempts' = IF e = MaxRetries THEN attempts ELSE attempts + 1
    /\ UNCHANGED <<delay, notices, fallbacks>>
\* The attempt of the outer executor ends as its block does.
BlockRaises(e) == Outer!YieldRaises(e) /\ ending' = e
BlockReturns == Outer!YieldReturns /\ ending' = NoException

-----------------------------------------------------------------------------
\* The inner call, in the block of the outer one.

\* mutant: a policy that is not there is waited for
InnerMissingWaits ==
    /\ stage = "outer" /\ pc = "yield"
    /\ ~PolicyFor(argument).defined
    /\ UNCHANGED vars
\* Executor.new raises ArgumentError, which is the block's.
InnerMissing ==
    /\ stage = "outer" /\ pc = "yield"
    /\ ~PolicyFor(argument).defined
    /\ UNCHANGED <<configuration, stage, argument, policy, inner,
                   granted, made, runs, paid>>
    /\ BlockRaises(BadArgument)

InnerRetry ==
    /\ stage = "outer" /\ pc = "yield"
    /\ PolicyFor(argument).defined
    /\ stage' = "inner"
    /\ iPolicy' = PolicyFor(argument)
    /\ iPc' = "ready" /\ iAttempts' = 0 /\ iError' = NoException /\ iDelay' = 0
    /\ iRaised' = Inner!NotRaised
    /\ iFinished' = 0 /\ iNotices' = 0 /\ iFallbacks' = 0 /\ iSevere' = {}
    /\ LET budget == AtLeastOne(PolicyFor(argument).max_attempts)
       IN  /\ granted' = [granted EXCEPT !.inner = budget,
                              !.most = IF @ < budget THEN budget ELSE @]
           /\ made' = made + 1
           /\ paid' = paid + budget
    /\ UNCHANGED <<configuration, argument, outer, runs, ending>>

InnerStep ==
    /\ stage = "inner"
    /\ UNCHANGED <<configuration, stage, argument, outer, iPolicy,
                   granted, made, paid, ending>>
    /\ \/ Inner!Yield /\ runs' = runs + 1
       \/ /\ \/ Inner!Call \/ Inner!OnSuccess \/ Inner!Return
             \/ Inner!NotRetryable \/ Inner!Exhausted
             \/ Inner!HandleFinalFailure \/ Inner!CalculateDelay
             \/ Inner!OnRetry \/ Inner!RobustSleep
          /\ UNCHANGED runs

\* The inner call returns or raises into the block: MaxRetriesExceededError
\* when its attempts are spent, or else the exception itself.
InnerEnds ==
    /\ stage = "inner" /\ iPc \in {"returned", "raised"}
    /\ stage' = "outer"
    /\ UNCHANGED <<configuration, argument, policy, inner,
                   granted, made, runs, paid>>
    /\ IF iPc = "returned"
       THEN BlockReturns
       ELSE BlockRaises(IF iRaised.via = "Exhausted" THEN MaxRetries
                                                     ELSE iRaised.error)

-----------------------------------------------------------------------------

Ended == stage = "over" \/ pc \in {"returned", "raised"}
Done == Ended /\ UNCHANGED vars

CallStep == OuterStep \/ InnerMissing \/ InnerRetry \/ InnerStep \/ InnerEnds

\* Another thread, or the block, changes the configuration.
Change == ~Ended /\ Reconfigure
          /\ UNCHANGED <<stage, argument, outer, inner, observer>>

Next == \/ \E outer_argument \in OuterArguments : Retry(outer_argument)
        \/ CallStep \/ Change \/ Done

\* A call that has begun keeps running, however often the configuration is
\* changed meanwhile.
Spec == Init /\ [][Next]_vars /\ WF_vars(CallStep)

-----------------------------------------------------------------------------
\* Properties.

\* Nested retries multiply, and no further.  An attempt of the outer call
\* makes at most one inner executor, so there are no more of them than the
\* outer call was granted attempts.  Each executor makes the attempts of the
\* policy it found when it was made, whatever was defined or added since, so
\* the inner block runs at most the sum of what the inner executors were
\* granted, and at most the product of the outer grant and the largest inner
\* one.  A call that reports exhaustion has spent its whole grant.
BudgetsMultiply ==
    /\ made <= IF stage = "inner" THEN attempts + 1 ELSE attempts
    /\ made <= granted.outer
    /\ runs <= paid
    /\ runs <= granted.outer * granted.most
    /\ attempts <= granted.outer
    /\ iAttempts <= granted.inner
    /\ raised.via = "Exhausted" => attempts = granted.outer
    /\ iRaised.via = "Exhausted" => iAttempts = granted.inner

\* An Interrupt in the inner block ends both calls: neither runs its block
\* again, and the caller gets the Interrupt.
InterruptEndsBoth ==
    iSevere # {} /\ stage # "inner" =>
        pc = "raised" /\ raised.via = "Escaped" /\ {raised.error} = iSevere

\* The caller of the outer retry learns how its last attempt ended: the
\* ArgumentError of a policy that is gone, the inner MaxRetriesExceededError
\* or an exception of the inner block, and never that of an earlier attempt.
\* Only an Interrupt of the sleep between two attempts takes its place.
LastEndingReported ==
    /\ pc = "raised" => raised.error = ending \/ raised.error \in Severe
    /\ pc = "returned" => ending = NoException

\* The outer call ends, however often inner calls and changes intervene.
NestedCallEnds == stage = "outer" ~> Ended

\* Why: no step of a call, and no change of the configuration, gives an
\* executor more to do than it had.  The outer one moves on, or waits while
\* an inner one is made, once in an attempt, and moves on.
NestedCallDescends ==
    [][(stage \in {"outer", "inner"}) =>
           \/ Outer!StepsLeft' \in 0..(Outer!StepsLeft - 1)
           \/ /\ UNCHANGED Outer!StepsLeft
              /\ \/ stage = "outer" /\ stage' = "inner"
                 \/ /\ UNCHANGED stage
                    /\ \/ Inner!StepsLeft' \in 0..(Inner!StepsLeft - 1)
                       \/ UNCHANGED <<outer, inner, Inner!StepsLeft>>]_vars
=============================================================================
