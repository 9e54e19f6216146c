----------------------------- MODULE PolicyRetry -----------------------------
(***************************************************************************)
(* The DSL of the Rust core (core/src/dsl.rs): a thread that retries       *)
(* operations under names of the global registry (GlobalRegistry) with the *)
(* retry loop (RetryLoop), while the other threads, and the operations     *)
(* themselves, call the registry.                                          *)
(***************************************************************************)
EXTENDS GlobalRegistry, Widths

CONSTANTS Caller,               \* the thread that retries
          Requests,             \* the names it may retry under, in turn,
                                \* in each of the programs
          Settings,             \* the callbacks that may be set on a builder
          Nested,               \* what an operation may call the registry for
          StrategyFor,          \* the BackoffPolicy that each policy is
          Errors, NoError, Strategies, MaxCalls     \* as in RetryLoop

ASSUME PolicyRetryAssumption ==
    /\ Caller \in Threads
    /\ Policies # {}
    /\ Requests \in [Programs -> SUBSET Seq(Names)]
    /\ Settings \subseteq {"notify", "on_success", "on_failure"}
    /\ Nested \subseteq Seq(Operation)
    /\ StrategyFor \in [Policies -> Strategies]

VARIABLES phase,                \* where the caller is in retry_with_policy
          wants,                \* the names it has still to retry under
          \* The builder and its call (see RetryLoop):
          strategy, accepts, hooks, pc, attempt, cumulative_delay_ms, result,
          delay, outcome, calls, slept, notices, heard

Loop == INSTANCE RetryLoop

ASSUME LoopAssumption ==
    /\ NoError \notin Errors
    /\ Strategies \subseteq Loop!StrategyType

loop == <<strategy, accepts, hooks, pc, attempt, cumulative_delay_ms, result,
          delay, outcome, calls, slept, notices, heard>>
allVars == <<vars, phase, wants, loop>>

PRInit ==
    /\ Init
    /\ phase = "ready"
    /\ wants \in Requests[todo]
    /\ Loop!Init

-----------------------------------------------------------------------------
\* retry_with_policy.

Idle == stage[Caller] = "idle" /\ todo[Caller] = <<>>

\* get_global_policy: the caller takes the lock like any other thread.
Lookup ==
    /\ phase = "ready" /\ wants # <<>> /\ Idle
    /\ phase' = "looking"
    /\ todo' = [todo EXCEPT ![Caller] =
                    <<[op |-> "get", name |-> Head(wants),
                       policy |-> CHOOSE p \in Policies : TRUE,
                       panics |-> FALSE]>>]
    /\ UNCHANGED <<registry, stage, position, lock, answers, wants, loop>>

\* The policy the lookup cloned.
Answered == answers[Caller][Len(answers[Caller])].policy

PolicyMissing ==
    /\ phase = "looking" /\ Idle
    /\ Answered = Absent
    /\ phase' = "ready"
    /\ wants' = Tail(wants)
    /\ UNCHANGED <<vars, loop>>

\* operation.retry(policy): a new builder, which owns the strategy.
NewBuilder(s) ==
    /\ strategy' = s
    /\ accepts' = Errors /\ hooks' = {} /\ pc' = "build"
    /\ attempt' = 1 /\ cumulative_delay_ms' = 0
    /\ result' = NoError /\ delay' = 0 /\ outcome' = Loop!NoOutcome
    /\ calls' = 0 /\ slept' = 0 /\ notices' = 0 /\ heard' = Loop!NoContext

\* mutant: the name is resolved again when the builder is made
BuilderReadsAgain ==
    /\ phase = "looking" /\ Idle
    /\ Answered # Absent
    /\ LET now == PolicyAt(Position(Head(wants)))
       IN  NewBuilder(StrategyFor[IF now = Absent THEN Answered ELSE now])
    /\ phase' = "retrying"
    /\ UNCHANGED <<vars, wants>>
\* mutant: the builder is made, and called, before the guard is dropped
BuilderUnderGuard ==
    /\ phase = "looking" /\ stage[Caller] = "found" /\ position[Caller] # 0
    /\ NewBuilder(StrategyFor[entries[position[Caller]].policy])
    /\ phase' = "retrying"
    /\ UNCHANGED <<vars, wants>>
BuilderForPolicy ==
    /\ phase = "looking" /\ Idle
    /\ Answered # Absent
    /\ NewBuilder(StrategyFor[Answered])
    /\ phase' = "retrying"
    /\ UNCHANGED <<vars, wants>>

\* What the caller of builder_for_policy may set before the call;
\* retry_with_policy sets nothing.
Configure ==
    /\ phase = "retrying"
    /\ \/ \E predicate \in SUBSET Errors : Loop!When(predicate)
       \/ \E hook \in Settings : Loop!SetHook(hook)
    /\ UNCHANGED <<vars, phase, wants>>

\* The loop outside the operation.
LoopStep ==
    /\ phase = "retrying"
    /\ \/ Loop!Call \/ Loop!Succeed \/ Loop!Reject \/ Loop!Exhaust
       \/ Loop!GiveUp \/ Loop!Backoff \/ Loop!Notify \/ Loop!Sleep
       \/ Loop!Fail
    /\ UNCHANGED <<vars, phase, wants>>

\* The operation begins, and may call the registry before it returns.
StartOperation ==
    /\ phase = "retrying" /\ pc = "operate" /\ calls < MaxCalls
    /\ phase' = "operating"
    /\ \E program \in Nested : todo' = [todo EXCEPT ![Caller] = program]
    /\ UNCHANGED <<registry, stage, position, lock, answers, wants, loop>>

FinishOperation ==
    /\ phase = "operating" /\ Idle
    /\ Loop!Operate
    /\ phase' = "retrying"
    /\ UNCHANGED <<vars, wants>>

\* The call returns Ok or DslError::Execution.
ReturnOutcome ==
    /\ phase = "retrying" /\ pc = "done"
    /\ phase' = "ready"
    /\ wants' = Tail(wants)
    /\ UNCHANGED <<vars, loop>>

\* The lookup finds the lock poisoned.
LookupPanics ==
    /\ phase = "looking" /\ stage[Caller] = "panicked"
    /\ phase' = "ended"
    /\ UNCHANGED <<vars, wants, loop>>

\* A registry call of the operation panics, and the loop unwinds.
OperationPanics ==
    /\ phase = "operating" /\ stage[Caller] = "panicked"
    /\ Loop!Unwind
    /\ phase' = "ended"
    /\ UNCHANGED <<vars, wants>>

\* Other code of the caller panics.
Unwind ==
    /\ phase = "retrying" /\ Loop!Unwind
    /\ phase' = "ended"
    /\ UNCHANGED <<vars, wants>>

CallerStep == \/ Lookup \/ PolicyMissing \/ BuilderForPolicy \/ LoopStep
              \/ StartOperation \/ FinishOperation \/ ReturnOutcome
              \/ LookupPanics \/ OperationPanics

GlobalCall(t) == Step(t) /\ UNCHANGED <<phase, wants, loop>>

Over == /\ Finished
        /\ \/ phase = "ready" /\ (wants = <<>> \/ stage[Caller] = "panicked")
           \/ phase = "ended"
PRDone == Over /\ UNCHANGED allVars

PRNext == \/ CallerStep \/ Configure \/ Unwind
          \/ \E t \in Threads : GlobalCall(t)
          \/ PRDone

\* The threads keep running; the operation and the sleeper return; the lock
\* need not be fair.
PRSpec == /\ PRInit /\ [][PRNext]_allVars
          /\ WF_allVars(CallerStep)
          /\ \A t \in Threads : WF_allVars(GlobalCall(t))

-----------------------------------------------------------------------------
\* Properties.

\* No code of the caller runs while it holds the registry's lock: what it
\* retries, its predicates and its callbacks may call the registry, and a
\* panic there leaves the lock sound.
CallsWithoutLock ==
    phase = "retrying" => Caller \notin readers /\ writer # Caller

\* Why: between the lookup and the next operation the caller has no call of
\* the registry pending.
PRInv == /\ GlobalInv
         /\ wants \in Seq(Names)
         /\ phase # "ready" => wants # <<>>
         /\ phase = "retrying" => Idle

Asking == phase = "looking" /\ Idle     \* the lookup has answered
Calling == phase \in {"retrying", "operating"} \/ pc = "unwound"
Attempts == [p \in Policies |-> IF StrategyFor[p].max = 0
                                THEN 1 ELSE StrategyFor[p].max]

\* What the caller sees of the retry it is in, if any.
WantsLeft == IF Asking \/ Calling THEN Tail(wants) ELSE wants
BudgetSeen == IF Calling THEN Loop!Budget
              ELSE IF Asking /\ Answered # Absent THEN Attempts[Answered] ELSE 0
CallsSeen == IF Calling THEN calls ELSE 0
LastSeen == IF Calling THEN Loop!Last ELSE "none"
VerdictSeen == IF Calling
               THEN IF pc = "build" THEN "running" ELSE Loop!Verdict
               ELSE IF Asking
               THEN IF Answered = Absent THEN "missing" ELSE "running"
               ELSE IF phase = "ended" THEN "aborted" ELSE "idle"

Named == INSTANCE NamedRetry
    WITH table <- TableOf(entries), wants <- WantsLeft, budget <- BudgetSeen,
         calls <- CallsSeen, last <- LastSeen, verdict <- VerdictSeen

\* A retry is bounded by the policy registered under its name at one moment
\* between the call and the first attempt.  What other threads or the
\* operation itself register, remove or clear later does not touch it, and
\* under a name that is missing then the operation is never called.
ImplementsNamedRetry == Named!Spec

\* Every retry ends, and every thread gets through its calls or panics,
\* whatever the operations call the registry for.
AllEnd == <>Over
=============================================================================
