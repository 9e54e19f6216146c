--------------------------- MODULE RetryLoopProofs ---------------------------
(***************************************************************************)
(* Proofs about RetryLoop, for every set of errors and strategies and all  *)
(* widths of the counters.                                                 *)
(***************************************************************************)
EXTENDS RetryLoop, TLAPS

\* Saturating at every step is saturating the exact sum: the reason why the
\* counters, which saturate as they go, agree with what was observed.
LEMMA SaturatingSum ==
    ASSUME NEW n \in Nat, NEW d \in Nat, NEW top \in Nat
    PROVE  SaturatingAdd(AtMost(n, top), d, top) = AtMost(n + d, top)
BY DEF SaturatingAdd, AtMost

\* A drawn delay and a reported limit are in their Rust widths.
LEMMA StrategyTyped ==
    ASSUME TypeOK
    PROVE  /\ strategy.max \in 0..AttemptMax
           /\ strategy.retries \subseteq 1..AttemptMax
           /\ \A a \in 1..AttemptMax : strategy.delays[a] \subseteq 0..U64Max
BY ConstantsAssumption, WidthsAssumption DEF TypeOK, StrategyType

LEMMA FinishedTyped ==
    ASSUME TypeOK,
           NEW kind \in {"Ok", "Exhausted", "PredicateRejected"}
    PROVE  Finished(kind) \in Outcomes
BY StrategyTyped, ConstantsAssumption, WidthsAssumption DEF TypeOK, Finished, Outcomes

LEMMA ContextTyped ==
    ASSUME TypeOK, NEW hook \in Hooks, NEW next \in SUBSET (0..U64Max)
    PROVE  Context(hook, next) \in Contexts
BY ConstantsAssumption, WidthsAssumption DEF TypeOK, Context, Contexts

LEMMA InitIInv == Init => IInv
<1> SUFFICES ASSUME Init PROVE IInv
    OBVIOUS
<1>1. TypeOK
  <2>1. NoOutcome \in Outcomes /\ NoContext \in Contexts
    BY ConstantsAssumption, WidthsAssumption
       DEF NoOutcome, Outcomes, NoContext, Contexts, Results
  <2> QED
    BY <2>1, ConstantsAssumption, WidthsAssumption DEF Init, TypeOK, Results, Hooks
<1>2. CountersAgree
  BY ConstantsAssumption, WidthsAssumption DEF Init, CountersAgree, AtMost, Between
<1>3. ResultAgrees
  BY DEF Init, ResultAgrees, Judging
<1> QED
  BY <1>1, <1>2, <1>3 DEF IInv

-----------------------------------------------------------------------------
\* Each step of a call keeps the inductive invariant.

LEMMA BuilderIInv ==
    ASSUME IInv, \/ \E predicate \in SUBSET Errors : When(predicate)
                 \/ \E hook \in Hooks : SetHook(hook)
                 \/ Call
    PROVE  IInv'
<1>1. CASE \E predicate \in SUBSET Errors : When(predicate)
  BY <1>1 DEF IInv, TypeOK, CountersAgree, ResultAgrees, When, observer,
              Between, Judging, Running
<1>2. CASE \E hook \in Hooks : SetHook(hook)
  BY <1>2 DEF IInv, TypeOK, CountersAgree, ResultAgrees, SetHook, observer,
              Between, Judging, Running
<1>3. CASE Call
  BY <1>3, ConstantsAssumption, WidthsAssumption
     DEF IInv, TypeOK, CountersAgree, ResultAgrees, Call, observer,
         Between, Judging, Running, AtMost
<1> QED
  BY <1>1, <1>2, <1>3

LEMMA OperateIInv ==
    ASSUME IInv, Operate PROVE IInv'
<1>1. TypeOK'
  BY DEF IInv, TypeOK, Operate, Running
<1>2. CountersAgree'
  BY DEF IInv, TypeOK, CountersAgree, Operate, Between
<1>3. ResultAgrees'
  BY DEF IInv, TypeOK, ResultAgrees, Operate, Judging
<1> QED
  BY <1>1, <1>2, <1>3 DEF IInv

LEMMA SucceedIInv ==
    ASSUME IInv, Succeed PROVE IInv'
<1>1. TypeOK'
  <2>1. Finished("Ok") \in Outcomes
    BY FinishedTyped DEF IInv
  <2>2. Context("on_success", {}) \in Contexts
    BY ContextTyped DEF IInv, Hooks
  <2> QED
    BY <2>1, <2>2 DEF IInv, TypeOK, Succeed, Running
<1>2. CountersAgree'
  BY DEF IInv, CountersAgree, Succeed, Between
<1>3. ResultAgrees'
  BY DEF IInv, ResultAgrees, Succeed, Judging, Finished, Kind
<1> QED
  BY <1>1, <1>2, <1>3 DEF IInv

\* Reject, Exhaust and GiveUp differ only in why they stop.
LEMMA FinalizeIInv ==
    ASSUME IInv, Reject \/ Exhaust \/ GiveUp PROVE IInv'
<1> DEFINE kinds == {"Ok", "Exhausted", "PredicateRejected"}
<1>1. /\ pc = "judge"
      /\ Kind \in kinds
      /\ Finalize(Kind)
  BY DEF IInv, ResultAgrees, Judging, Kind, Reject, Exhaust, GiveUp
<1>2. Finished(Kind) \in Outcomes
  BY <1>1, FinishedTyped DEF IInv
<1>3. TypeOK'
  BY <1>1, <1>2 DEF IInv, TypeOK, Finalize, observer, Running
<1>4. CountersAgree'
  BY <1>1 DEF IInv, CountersAgree, Finalize, observer, Between
<1>5. ResultAgrees'
  BY <1>1 DEF IInv, ResultAgrees, Finalize, Judging, Finished, Kind
<1> QED
  BY <1>3, <1>4, <1>5 DEF IInv

LEMMA BackoffIInv ==
    ASSUME IInv, Backoff PROVE IInv'
<1>1. TypeOK'
  BY StrategyTyped DEF IInv, TypeOK, Backoff, observer, Running
<1>2. CountersAgree'
  BY DEF IInv, CountersAgree, Backoff, observer, Between
<1>3. ResultAgrees'
  BY DEF IInv, CountersAgree, ResultAgrees, Backoff, observer, Between, Judging
<1> QED
  BY <1>1, <1>2, <1>3 DEF IInv

LEMMA NotifyIInv ==
    ASSUME IInv, Notify PROVE IInv'
<1>1. TypeOK'
  <2>1. Context("notify", {delay}) \in Contexts
    BY ContextTyped DEF IInv, TypeOK, Hooks
  <2> QED
    BY <2>1 DEF IInv, TypeOK, Notify, program, Running
<1>2. CountersAgree'
  BY DEF IInv, CountersAgree, Notify, program, Between
<1>3. ResultAgrees'
  BY DEF IInv, ResultAgrees, Notify, program, Judging
<1> QED
  BY <1>1, <1>2, <1>3 DEF IInv

\* The only step that moves the counters.
LEMMA SleepIInv ==
    ASSUME IInv, Sleep PROVE IInv'
<1>1. /\ attempt = AtMost(calls, AttemptMax)
      /\ cumulative_delay_ms = AtMost(slept, U64Max)
      /\ calls \in Nat /\ slept \in Nat /\ delay \in Nat
      /\ AttemptMax \in Nat \ {0} /\ U64Max \in Nat
  BY ConstantsAssumption, WidthsAssumption DEF IInv, TypeOK, CountersAgree, Sleep, Between
<1>2. /\ attempt' = AtMost(calls + 1, AttemptMax)
      /\ cumulative_delay_ms' = AtMost(slept + delay, U64Max)
  BY <1>1, SaturatingSum DEF Sleep
<1>3. TypeOK'
  <2>1. attempt' \in 1..AttemptMax /\ cumulative_delay_ms' \in 0..U64Max
    BY <1>1, <1>2 DEF AtMost
  <2> QED
    BY <1>1, <2>1 DEF IInv, TypeOK, Sleep, Running
<1>4. CountersAgree'
  BY <1>2 DEF IInv, CountersAgree, Sleep, Between
<1>5. ResultAgrees'
  BY DEF IInv, ResultAgrees, Sleep, Judging
<1> QED
  BY <1>3, <1>4, <1>5 DEF IInv

LEMMA FailIInv ==
    ASSUME IInv, Fail PROVE IInv'
<1>1. TypeOK'
  <2>1. Context("on_failure", {}) \in Contexts
    BY ContextTyped DEF IInv, Hooks
  <2> QED
    BY <2>1 DEF IInv, TypeOK, Fail, program, Running
<1>2. CountersAgree'
  BY DEF IInv, CountersAgree, Fail, program, Between
<1>3. ResultAgrees'
  BY DEF IInv, ResultAgrees, Fail, program, Judging, Finished, Kind
<1> QED
  BY <1>1, <1>2, <1>3 DEF IInv

LEMMA UnwindIInv ==
    ASSUME IInv, Unwind PROVE IInv'
<1>1. NoOutcome \in Outcomes
  BY ConstantsAssumption, WidthsAssumption DEF NoOutcome, Outcomes, Results
<1> QED
  BY <1>1 DEF IInv, TypeOK, CountersAgree, ResultAgrees, Unwind, observer,
              Between, Judging, Running

LEMMA StutterIInv ==
    ASSUME IInv, UNCHANGED vars PROVE IInv'
BY DEF IInv, TypeOK, CountersAgree, ResultAgrees, vars, program, observer,
       Finished, Kind

LEMMA NextIInv == IInv /\ [Next]_vars => IInv'
<1> SUFFICES ASSUME IInv, [Next]_vars PROVE IInv'
    OBVIOUS
<1>1. CASE \/ \E predicate \in SUBSET Errors : When(predicate)
           \/ \E hook \in Hooks : SetHook(hook)
           \/ Call
  BY <1>1, BuilderIInv
<1>2. CASE Step
  BY <1>2, OperateIInv, SucceedIInv, FinalizeIInv, BackoffIInv, NotifyIInv,
     SleepIInv, FailIInv DEF Step
<1>3. CASE Unwind
  BY <1>3, UnwindIInv
<1>4. CASE Done \/ UNCHANGED vars
  BY <1>4, StutterIInv DEF Done
<1> QED
  BY <1>1, <1>2, <1>3, <1>4 DEF Next

\* The inductive invariant holds in every state of a call.
THEOREM Invariance == Spec => []IInv
<1> QED
  BY InitIInv, NextIInv, PTL DEF Spec

\* Every counter and every reported value stays in its Rust width.
THEOREM TypeCorrect == Spec => []TypeOK
<1>1. IInv => TypeOK
  BY DEF IInv
<1> QED
  BY <1>1, Invariance, PTL

\* The outcome reports the calls that were made and the time that was slept,
\* whatever strategy, predicate and callbacks the builder was given.
THEOREM OutcomesAreFaithful == Spec => []FaithfulOutcome
<1>1. IInv => FaithfulOutcome
  BY DEF IInv, CountersAgree, ResultAgrees, FaithfulOutcome, Finished, Between
<1> QED
  BY <1>1, Invariance, PTL

\* A retry follows an accepted error and an attempt the strategy retries.
THEOREM RetriesJustified == Spec => RetriesAreJustified
<1>1. IInv /\ [Next]_vars =>
          [calls' > calls /\ calls > 0 =>
               /\ result \in accepts
               /\ AtMost(calls, AttemptMax) \in strategy.retries]_vars
  <2> SUFFICES ASSUME IInv, Next, calls' > calls, calls > 0
               PROVE  /\ result \in accepts
                      /\ AtMost(calls, AttemptMax) \in strategy.retries
      OBVIOUS
  <2>1. pc = "operate"
    BY DEF IInv, TypeOK, Next, Step, When, SetHook, Call, Operate, Succeed,
           Reject, Exhaust, GiveUp, Finalize, Backoff, Notify, Sleep, Fail,
           Unwind, Done, vars, program, observer
  <2> QED
    BY <2>1 DEF IInv, ResultAgrees
<1> QED
  BY <1>1, Invariance, PTL DEF Spec, RetriesAreJustified

-----------------------------------------------------------------------------
\* The callbacks.

LEMMA NextNoticeInv == IInv /\ NoticeInv /\ [Next]_vars => NoticeInv'
<1> SUFFICES ASSUME IInv, NoticeInv, [Next]_vars PROVE NoticeInv'
    OBVIOUS
<1> USE DEF NoticeInv, Heard, AnnouncedRetries
<1>1. CASE \E predicate \in SUBSET Errors : When(predicate)
  BY <1>1 DEF When, observer
<1>2. CASE \E hook \in Hooks : SetHook(hook)
  BY <1>2 DEF IInv, CountersAgree, SetHook, observer
<1>3. CASE Call
  BY <1>3 DEF IInv, CountersAgree, Call, observer
<1>4. CASE Operate
  BY <1>4 DEF IInv, TypeOK, Operate
<1>5. CASE Succeed \/ Reject \/ Exhaust \/ GiveUp \/ Backoff \/ Fail \/ Unwind
  BY <1>5 DEF Succeed, Reject, Exhaust, GiveUp, Finalize, Backoff, Fail,
              Unwind, program, observer
<1>6. CASE Notify
  BY <1>6 DEF IInv, TypeOK, CountersAgree, Notify, program, Context, Between
<1>7. CASE Sleep
  <2>1. \A d \in 0..U64Max, n \in Nat :
            AtMost(AtMost(n, U64Max) + d, U64Max) = AtMost(n + d, U64Max)
    BY ConstantsAssumption, WidthsAssumption DEF AtMost
  <2>2. delay \in 0..U64Max /\ slept \in Nat
    BY DEF IInv, TypeOK
  <2>3. ASSUME "notify" \in hooks
        PROVE  /\ notices = calls
               /\ heard.hook = "notify"
               /\ heard.attempt = AtMost(calls, AttemptMax)
               /\ delay \in heard.next
               /\ heard.cumulative = AtMost(slept, U64Max)
    BY <1>7, <2>3 DEF Sleep
  <2>4. AtMost(AtMost(slept, U64Max) + delay, U64Max)
            = AtMost(slept + delay, U64Max)
    BY <2>1, <2>2
  <2> QED
    BY <1>7, <2>3, <2>4 DEF Sleep
<1>8. CASE Done \/ UNCHANGED vars
  BY <1>8 DEF Done, vars, program, observer
<1> QED
  BY <1>1, <1>2, <1>3, <1>4, <1>5, <1>6, <1>7, <1>8 DEF Next, Step

\* Every retry was announced once, with the delay it then waited.
THEOREM RetriesAnnounced == Spec => []AnnouncedRetries
<1>1. Init => NoticeInv
  BY DEF Init, NoticeInv, AnnouncedRetries
<1>2. NoticeInv => AnnouncedRetries
  BY DEF NoticeInv, AnnouncedRetries
<1> QED
  BY <1>1, <1>2, NextNoticeInv, Invariance, PTL DEF Spec

\* The caller's callback was told the outcome that the caller is given.
THEOREM TerminalReported == Spec => []TerminalCallback
<1>1. Init => TerminalCallback
  BY DEF Init, TerminalCallback, NoContext
<1>2. IInv /\ TerminalCallback /\ [Next]_vars => TerminalCallback'
  <2> SUFFICES ASSUME IInv, TerminalCallback, [Next]_vars
               PROVE  TerminalCallback'
      OBVIOUS
  <2> USE DEF TerminalCallback, Heard
  <2>1. CASE \/ \E predicate \in SUBSET Errors : When(predicate)
             \/ \E hook \in Hooks : SetHook(hook)
             \/ Call \/ Operate \/ Sleep
    BY <2>1 DEF When, SetHook, Call, Operate, Sleep, observer
  <2>2. CASE Reject \/ Exhaust \/ GiveUp \/ Backoff \/ Unwind
    BY <2>2 DEF Reject, Exhaust, GiveUp, Finalize, Backoff, Unwind, observer,
                Running
  <2>3. CASE Notify
    BY <2>3 DEF Notify, Context, program
  <2>4. CASE Succeed
    BY <2>4 DEF IInv, CountersAgree, ResultAgrees, Succeed, Context, Between
  <2>5. CASE Fail
    BY <2>5 DEF IInv, CountersAgree, ResultAgrees, Fail, Context, Between,
                program
  <2>6. CASE Done \/ UNCHANGED vars
    BY <2>6 DEF Done, vars, program, observer
  <2> QED
    BY <2>1, <2>2, <2>3, <2>4, <2>5, <2>6 DEF Next, Step
<1> QED
  BY <1>1, <1>2, Invariance, PTL DEF Spec

-----------------------------------------------------------------------------
\* The budget, and the contract.  Both need built-in strategies.

\* The assumption of these theorems is met by what the three strategies are:
\* limits that draw some delay for every attempt below max_attempts.
THEOREM BuiltInsQualify ==
    ASSUME NEW max \in 0..AttemptMax,
           NEW delays \in [1..AttemptMax -> (SUBSET (0..U64Max)) \ {{}}]
    PROVE  /\ BuiltIn(max, delays) \in StrategyType
           /\ IsBuiltIn(BuiltIn(max, delays))
<1>1. BuiltIn(max, delays).delays \in [1..AttemptMax -> SUBSET (0..U64Max)]
  BY DEF BuiltIn
<1>2. BuiltIn(max, delays) \in StrategyType
  BY <1>1 DEF BuiltIn, StrategyType
<1>3. IsBuiltIn(BuiltIn(max, delays))
  BY DEF BuiltIn, IsBuiltIn
<1> QED
  BY <1>2, <1>3

\* Before a retry there is budget left.
LEMMA BudgetLeft ==
    ASSUME BuiltInStrategies, IInv
    PROVE  /\ Budget \in Nat \ {0}
           /\ pc = "operate" => calls < Budget
           /\ pc = "judge" /\ attempt \notin strategy.retries =>
                  calls >= Budget
           /\ pc = "judge" /\ attempt \in strategy.retries =>
                  strategy.delays[attempt] # {}
<1>1. /\ calls \in Nat /\ attempt \in 1..AttemptMax
      /\ strategy.max \in 0..AttemptMax /\ AttemptMax \in Nat \ {0}
  BY StrategyTyped, ConstantsAssumption, WidthsAssumption DEF IInv, TypeOK
<1>2. \A a \in 1..AttemptMax : /\ a \in strategy.retries <=> a < strategy.max
                               /\ strategy.delays[a] # {} <=> a < strategy.max
  BY DEF BuiltInStrategies, IsBuiltIn, IInv, TypeOK
<1>3. Budget \in Nat \ {0}
  BY <1>1 DEF Budget
<1>4. ASSUME pc = "operate" PROVE calls < Budget
  <2>1. CASE calls = 0
    BY <1>3, <2>1
  <2>2. CASE calls > 0
    <3>1. AtMost(calls, AttemptMax) \in strategy.retries
      BY <1>4, <2>2 DEF IInv, ResultAgrees
    <3>2. AtMost(calls, AttemptMax) \in 1..AttemptMax
      BY <1>1, <2>2 DEF AtMost
    <3> QED
      BY <1>1, <1>2, <3>1, <3>2 DEF AtMost, Budget
  <2> QED
    BY <1>1, <2>1, <2>2
<1>5. ASSUME pc = "judge" PROVE attempt = AtMost(calls, AttemptMax) /\ calls > 0
  BY <1>5 DEF IInv, CountersAgree, Between
<1> QED
  BY <1>1, <1>2, <1>3, <1>4, <1>5 DEF AtMost, Budget

LEMMA InitBudgetInv == BuiltInStrategies /\ Init => BudgetInv
<1>1. BuiltInStrategies /\ Init => Budget \in Nat \ {0}
  BY BudgetLeft, InitIInv
<1> QED
  BY <1>1 DEF Init, BudgetInv, CallBudget

LEMMA NextBudgetInv ==
    BuiltInStrategies /\ IInv /\ BudgetInv /\ [Next]_vars => BudgetInv'
<1> SUFFICES ASSUME BuiltInStrategies, IInv, BudgetInv, [Next]_vars
             PROVE  BudgetInv'
    OBVIOUS
<1>1. calls \in Nat /\ Budget \in Nat
  BY BudgetLeft DEF IInv, TypeOK
<1> USE DEF BudgetInv, CallBudget, Budget
<1>2. CASE \/ \E predicate \in SUBSET Errors : When(predicate)
           \/ \E hook \in Hooks : SetHook(hook)
           \/ Call
  BY <1>2 DEF When, SetHook, Call, observer
<1>3. CASE Operate
  BY <1>1, <1>3, BudgetLeft DEF Operate
<1>4. CASE Exhaust
  BY <1>1, <1>4, BudgetLeft DEF Exhaust, Finalize, observer
<1>5. CASE Reject \/ GiveUp
  BY <1>5, BudgetLeft DEF Reject, GiveUp, Finalize, observer
<1>6. CASE Succeed \/ Backoff \/ Notify \/ Sleep \/ Fail \/ Unwind
  BY <1>6 DEF Succeed, Backoff, Notify, Sleep, Fail, Unwind, program, observer
<1>7. CASE Done \/ UNCHANGED vars
  BY <1>7 DEF Done, vars, program, observer
<1> QED
  BY <1>2, <1>3, <1>4, <1>5, <1>6, <1>7 DEF Next, Step

LEMMA BudgetInvariance ==
    ASSUME BuiltInStrategies
    PROVE  Spec => []BudgetInv
<1>1. Init => BudgetInv
  BY InitBudgetInv
<1>2. IInv /\ BudgetInv /\ [Next]_vars => BudgetInv'
  BY NextBudgetInv
<1> QED
  BY <1>1, <1>2, Invariance, PTL DEF Spec

\* A built-in strategy never allows more than max_attempts calls (one if
\* max_attempts is 0).
THEOREM CallsWithinBudget ==
    ASSUME BuiltInStrategies
    PROVE  Spec => []CallBudget
<1>1. BudgetInv => CallBudget
  BY DEF BudgetInv
<1> QED
  BY <1>1, BudgetInvariance, PTL

\* Each step of the loop is a step of the contract or leaves it unchanged.
LEMMA NextContract ==
    BuiltInStrategies /\ IInv /\ BudgetInv /\ IInv' /\ [Next]_vars
        => [Contract!Next]_Contract!vars
<1> SUFFICES ASSUME BuiltInStrategies, IInv, BudgetInv, IInv', [Next]_vars
             PROVE  [Contract!Next]_Contract!vars
    OBVIOUS
<1>1. Budget' = Budget
  BY DEF Next, Step, When, SetHook, Call, Operate, Succeed, Reject, Exhaust,
         GiveUp, Finalize, Backoff, Notify, Sleep, Fail, Unwind, Done, vars,
         program, observer, Budget
<1>2. CASE (\E predicate \in SUBSET Errors : When(predicate))
           \/ (\E hook \in Hooks : SetHook(hook))
  <2>1. UNCHANGED <<pc, calls, outcome>> /\ pc = "build" /\ calls = 0
    BY <1>2 DEF When, SetHook, observer, IInv, CountersAgree
  <2> QED
    BY <1>1, <2>1 DEF Contract!vars, Last, Verdict
<1>3. CASE Call
  <2>1. Contract!Begin
    BY <1>1, <1>3 DEF Call, observer, Contract!Begin, Last, Verdict, Told, IInv,
                      CountersAgree
  <2> QED
    BY <2>1 DEF Contract!Next
<1>4. CASE Operate
  <2>1. calls < Budget
    BY <1>4, BudgetLeft DEF Operate
  <2>2. calls \in Nat
    BY DEF IInv, TypeOK
  <2>3. Last \in {"none", "retryable"}
    BY <1>4, <2>2, ConstantsAssumption, WidthsAssumption
       DEF Operate, Last, IInv, ResultAgrees, TypeOK, Results
  <2>4. Last' \in Contract!Endings \ {"none"}
    BY <1>4, <2>2 DEF Operate, Last, Contract!Endings
  <2>5. Verdict = "running" /\ Verdict' = "running"
    BY <1>4 DEF Operate, Verdict
  <2>6. Contract!Attempt
    BY <1>1, <1>4, <2>1, <2>3, <2>4, <2>5 DEF Operate, Contract!Attempt
  <2> QED
    BY <2>6 DEF Contract!Next
<1>5. CASE Succeed \/ Fail
  <2>1. /\ UNCHANGED <<calls, result, accepts>>
        /\ pc \in {"succeed", "fail"} /\ pc' = "done"
    BY <1>5 DEF Succeed, Fail, program
  <2>2. calls > 0 /\ calls \in Nat
    BY <2>1 DEF IInv, CountersAgree, TypeOK, Between
  <2>3. Verdict = "running"
    BY <2>1 DEF Verdict
  <2>4. outcome'.kind = Kind
    BY <2>1 DEF IInv, ResultAgrees, Finished, Kind
  <2>5. /\ Kind = "Ok" => Last = "ok" /\ Verdict' = "ok"
        /\ Kind = "Exhausted" => Last = "retryable" /\ Verdict' = "exhausted"
        /\ Kind = "PredicateRejected" =>
               Last = "fatal" /\ Verdict' = "rejected"
        /\ Kind \in {"Ok", "Exhausted", "PredicateRejected"}
    BY <2>1, <2>2, <2>4 DEF Kind, Last, Verdict, Told
  <2>6. Kind = "Exhausted" => calls = Budget
    BY <2>1 DEF Kind, BudgetInv, IInv, ResultAgrees
  <2>7. Last' = Last
    BY <2>1 DEF Last
  <2>8. Contract!Conclude
    BY <1>1, <2>1, <2>3, <2>5, <2>6, <2>7 DEF Contract!Conclude
  <2> QED
    BY <2>8 DEF Contract!Next
<1>6. CASE Reject \/ Exhaust \/ GiveUp \/ Backoff \/ Notify \/ Sleep
  <2>1. /\ UNCHANGED <<calls, result, accepts>>
        /\ pc \in Judging /\ pc' \in {"fail", "notify", "sleep", "operate"}
    BY <1>6 DEF Reject, Exhaust, GiveUp, Finalize, Backoff, Notify, Sleep,
                program, observer, Judging
  <2> QED
    BY <1>1, <2>1 DEF Contract!vars, Last, Verdict, Told, Judging
<1>7. CASE Unwind
  <2>1. Contract!Abort
    BY <1>1, <1>7 DEF Unwind, observer, Running, Contract!Abort, Last, Verdict,
                      Told
  <2> QED
    BY <2>1 DEF Contract!Next
<1>8. CASE Done \/ UNCHANGED vars
  BY <1>1, <1>8 DEF Done, vars, program, observer, Contract!vars, Last, Verdict,
                    Told
<1> QED
  BY <1>2, <1>3, <1>4, <1>5, <1>6, <1>7, <1>8 DEF Next, Step

\* With built-in strategies the loop implements the safety part of the
\* contract: nothing is attempted after a success or a rejected error, nothing
\* beyond the budget, and the verdict tells how the last attempt ended.
THEOREM ContractSafety ==
    ASSUME BuiltInStrategies
    PROVE  Spec => Contract!Init /\ [][Contract!Next]_Contract!vars
<1>1. Init => Contract!Init
  <2>1. Init => Budget \in Nat \ {0}
    BY BudgetLeft, InitIInv
  <2> QED
    BY <2>1 DEF Init, Contract!Init, Last, Verdict, Told
<1>2. IInv /\ BudgetInv /\ IInv' /\ [Next]_vars => [Contract!Next]_Contract!vars
  BY NextContract
<1> QED
  BY <1>1, <1>2, Invariance, BudgetInvariance, PTL DEF Spec

-----------------------------------------------------------------------------
\* The ranking behind the termination of a call.

\* With built-in strategies a call has at most four steps for each attempt of
\* its budget, and every step uses one up.
THEOREM CallsDescend ==
    ASSUME BuiltInStrategies PROVE Spec => CallDescends
<1>1. IInv /\ BudgetInv /\ [Next]_vars
          => [(pc \in Running) => StepsLeft' \in 0..(StepsLeft - 1)]_vars
  <2> SUFFICES ASSUME IInv, BudgetInv, Next, pc \in Running
               PROVE  StepsLeft' \in 0..(StepsLeft - 1)
      BY DEF vars
  <2> DEFINE left == Budget - calls
  <2>1. /\ calls \in Nat /\ Budget \in Nat /\ calls <= Budget
        /\ pc = "operate" => calls < Budget
    BY BudgetLeft DEF IInv, TypeOK, BudgetInv, CallBudget
  <2>2. left \in Nat /\ (pc = "operate" => left > 0)
    BY <2>1
  <2>3. Budget' = Budget
    BY DEF Next, Step, When, SetHook, Call, Operate, Succeed, Reject, Exhaust,
           GiveUp, Finalize, Backoff, Notify, Sleep, Fail, Unwind, Done, vars,
           program, observer, Budget
  <2>4. CASE Operate
    <3>1. left' = left - 1 /\ pc = "operate" /\ pc' \in {"succeed", "judge"}
      BY <2>1, <2>3, <2>4 DEF Operate
    <3> QED
      BY <2>2, <3>1 DEF StepsLeft
  <2>5. CASE /\ ~Operate
             /\ ~\E predicate \in SUBSET Errors : When(predicate)
             /\ ~\E hook \in Hooks : SetHook(hook)
             /\ ~Call /\ ~Done
    <3>1. /\ calls' = calls
          /\ \/ pc \in {"succeed", "fail"} /\ pc' = "done"
             \/ pc = "judge" /\ pc' \in {"fail", "notify"}
             \/ pc = "notify" /\ pc' = "sleep"
             \/ pc = "sleep" /\ pc' = "operate"
             \/ pc \in Running /\ pc' = "unwound"
      BY <2>5 DEF Next, Step, Succeed, Reject, Exhaust, GiveUp, Finalize,
                  Backoff, Notify, Sleep, Fail, Unwind, program, observer
    <3>2. left' = left
      BY <2>3, <3>1
    <3> QED
      BY <2>2, <3>1, <3>2 DEF StepsLeft, Running
  <2>6. CASE \/ \E predicate \in SUBSET Errors : When(predicate)
             \/ \E hook \in Hooks : SetHook(hook)
             \/ Call \/ Done
    BY <2>6 DEF When, SetHook, Call, Done, Running
  <2> QED
    BY <2>4, <2>5, <2>6
<1> QED
  BY <1>1, Invariance, BudgetInvariance, PTL DEF Spec, CallDescends
=============================================================================
