--------------------------- MODULE ExecutorProofs ---------------------------
(***************************************************************************)
(* Proofs about Executor, for every set of exceptions and settings.        *)
(***************************************************************************)
EXTENDS Executor, TLAPS

LEMMA BudgetTyped ==
    ASSUME TypeOK
    PROVE  /\ Budget \in Nat \ {0}
           /\ options \in OptionType /\ options.max_attempts \in Int
           /\ options.retryable \subseteq Exceptions
           /\ options.hooks \subseteq Hooks
BY ExecutorAssumption DEF TypeOK, Budget, OptionType

LEMMA InitIInv == Init => IInv
<1> SUFFICES ASSUME Init PROVE IInv
    OBVIOUS
<1>1. TypeOK
  BY DEF Init, TypeOK, NotRaised, Raised
<1>2. AttemptsAgree /\ FailureAgrees /\ NoticesAgree
  BY DEF Init, AttemptsAgree, FailureAgrees, NoticesAgree, Failed
<1>3. BudgetAgrees
  BY <1>1, BudgetTyped DEF Init, BudgetAgrees, Failed
<1> QED
  BY <1>1, <1>2, <1>3 DEF IInv

-----------------------------------------------------------------------------
\* Each step of a call keeps the inductive invariant.

LEMMA CallIInv ==
    ASSUME IInv, Call PROVE IInv'
<1> USE BudgetTyped DEF IInv, Call
<1>1. TypeOK'
  BY DEF TypeOK
<1>2. AttemptsAgree' /\ NoticesAgree'
  BY DEF AttemptsAgree, NoticesAgree, Failed
<1>3. BudgetAgrees'
  BY DEF AttemptsAgree, BudgetAgrees, Failed, Budget
<1>4. FailureAgrees'
  BY DEF FailureAgrees
<1> QED
  BY <1>1, <1>2, <1>3, <1>4

LEMMA YieldIInv ==
    ASSUME IInv, Yield PROVE IInv'
<1> USE ExecutorAssumption, BudgetTyped
    DEF IInv, Yield, YieldReturns, YieldRaises, BodyRaises, Escapes,
        Exceptions, Raised
<1>1. TypeOK'
  BY DEF TypeOK
<1>2. AttemptsAgree'
  BY DEF TypeOK, AttemptsAgree, Failed
<1>3. BudgetAgrees'
  BY DEF TypeOK, AttemptsAgree, BudgetAgrees, Failed, Budget
<1>4. FailureAgrees'
  BY DEF TypeOK, AttemptsAgree, BudgetAgrees, FailureAgrees, Failed, Decided,
         Budget
<1>5. NoticesAgree'
  BY DEF TypeOK, AttemptsAgree, NoticesAgree
<1> QED
  BY <1>1, <1>2, <1>3, <1>4, <1>5

LEMMA OnSuccessIInv ==
    ASSUME IInv, OnSuccess PROVE IInv'
<1> USE ExecutorAssumption, BudgetTyped
    DEF IInv, OnSuccess, BodyRaises, Escapes, Exceptions, Raised
<1>1. TypeOK'
  BY DEF TypeOK
<1>2. AttemptsAgree'
  BY DEF TypeOK, AttemptsAgree, Failed
<1>3. BudgetAgrees'
  BY DEF TypeOK, AttemptsAgree, BudgetAgrees, Failed, Budget
<1>4. FailureAgrees'
  BY DEF TypeOK, AttemptsAgree, BudgetAgrees, FailureAgrees, Failed, Decided,
         Budget
<1>5. NoticesAgree'
  BY DEF TypeOK, AttemptsAgree, NoticesAgree
<1> QED
  BY <1>1, <1>2, <1>3, <1>4, <1>5

LEMMA ReturnIInv ==
    ASSUME IInv, Return PROVE IInv'
<1> USE ExecutorAssumption, BudgetTyped
    DEF IInv, Return, Exceptions, Raised
<1>1. TypeOK'
  BY DEF TypeOK
<1>2. AttemptsAgree'
  BY DEF TypeOK, AttemptsAgree, Failed
<1>3. BudgetAgrees'
  BY DEF TypeOK, AttemptsAgree, BudgetAgrees, Failed, Budget
<1>4. FailureAgrees'
  BY DEF TypeOK, AttemptsAgree, BudgetAgrees, FailureAgrees, Failed, Decided,
         Budget
<1>5. NoticesAgree'
  BY DEF TypeOK, AttemptsAgree, NoticesAgree
<1> QED
  BY <1>1, <1>2, <1>3, <1>4, <1>5

LEMMA NotRetryableIInv ==
    ASSUME IInv, NotRetryable PROVE IInv'
<1> USE ExecutorAssumption, BudgetTyped
    DEF IInv, NotRetryable, FinalFailure, Exceptions, Raised
<1>1. TypeOK'
  BY DEF TypeOK
<1>2. AttemptsAgree'
  BY DEF TypeOK, AttemptsAgree, Failed
<1>3. BudgetAgrees'
  BY DEF TypeOK, AttemptsAgree, BudgetAgrees, Failed, Budget
<1>4. FailureAgrees'
  BY DEF TypeOK, AttemptsAgree, BudgetAgrees, FailureAgrees, Failed, Decided,
         Budget
<1>5. NoticesAgree'
  BY DEF TypeOK, AttemptsAgree, NoticesAgree
<1> QED
  BY <1>1, <1>2, <1>3, <1>4, <1>5

LEMMA ExhaustedIInv ==
    ASSUME IInv, Exhausted PROVE IInv'
<1> USE ExecutorAssumption, BudgetTyped
    DEF IInv, Exhausted, FinalFailure, Exceptions, Raised
<1>1. TypeOK'
  BY DEF TypeOK
<1>2. AttemptsAgree'
  BY DEF TypeOK, AttemptsAgree, Failed
<1>3. BudgetAgrees'
  BY DEF TypeOK, AttemptsAgree, BudgetAgrees, Failed, Budget
<1>4. FailureAgrees'
  BY DEF TypeOK, AttemptsAgree, BudgetAgrees, FailureAgrees, Failed, Decided,
         Budget
<1>5. NoticesAgree'
  BY DEF TypeOK, AttemptsAgree, NoticesAgree
<1> QED
  BY <1>1, <1>2, <1>3, <1>4, <1>5

LEMMA HandleFinalFailureIInv ==
    ASSUME IInv, HandleFinalFailure PROVE IInv'
<1> USE ExecutorAssumption, BudgetTyped
    DEF IInv, HandleFinalFailure, Escapes, Exceptions, Raised
<1>1. TypeOK'
  BY DEF TypeOK, FailureAgrees
<1>2. AttemptsAgree'
  BY DEF TypeOK, AttemptsAgree, Failed
<1>3. BudgetAgrees'
  BY DEF TypeOK, AttemptsAgree, BudgetAgrees, Failed, Budget
<1>4. FailureAgrees'
  BY DEF TypeOK, AttemptsAgree, BudgetAgrees, FailureAgrees, Failed, Decided,
         Budget
<1>5. NoticesAgree'
  BY DEF TypeOK, AttemptsAgree, NoticesAgree
<1> QED
  BY <1>1, <1>2, <1>3, <1>4, <1>5

LEMMA CalculateDelayIInv ==
    ASSUME IInv, CalculateDelay PROVE IInv'
<1> USE ExecutorAssumption, BudgetTyped
    DEF IInv, CalculateDelay, Escapes, Exceptions, Raised
<1>1. TypeOK'
  <2>1. options' = options /\ delay' \in options.delays \cup {0}
    BY DEF TypeOK
  <2>2. raised' \in [via : {"None", "Exhausted", "NotRetryable", "Escaped"},
                     error : Exceptions \cup {NoException},
                     from : {"ready", "yield", "succeeded", "rescue", "final",
                             "on_retry", "sleep"}]
    BY DEF TypeOK
  <2> QED
    BY <2>1, <2>2 DEF TypeOK
<1>2. AttemptsAgree'
  BY DEF TypeOK, AttemptsAgree, Failed
<1>3. BudgetAgrees'
  BY DEF TypeOK, AttemptsAgree, BudgetAgrees, Failed, Budget
<1>4. FailureAgrees'
  BY DEF TypeOK, AttemptsAgree, BudgetAgrees, FailureAgrees, Failed, Decided,
         Budget
<1>5. NoticesAgree'
  BY DEF TypeOK, AttemptsAgree, NoticesAgree
<1> QED
  BY <1>1, <1>2, <1>3, <1>4, <1>5

LEMMA OnRetryIInv ==
    ASSUME IInv, OnRetry PROVE IInv'
<1> USE ExecutorAssumption, BudgetTyped
    DEF IInv, OnRetry, Escapes, Exceptions, Raised
<1>1. TypeOK'
  BY DEF TypeOK
<1>2. AttemptsAgree'
  BY DEF TypeOK, AttemptsAgree, Failed
<1>3. BudgetAgrees'
  BY DEF TypeOK, AttemptsAgree, BudgetAgrees, Failed, Budget
<1>4. FailureAgrees'
  BY DEF TypeOK, AttemptsAgree, BudgetAgrees, FailureAgrees, Failed, Decided,
         Budget
<1>5. NoticesAgree'
  BY DEF TypeOK, AttemptsAgree, NoticesAgree
<1> QED
  BY <1>1, <1>2, <1>3, <1>4, <1>5

LEMMA RobustSleepIInv ==
    ASSUME IInv, RobustSleep PROVE IInv'
<1> USE ExecutorAssumption, BudgetTyped
    DEF IInv, RobustSleep, Escapes, Exceptions, Raised
<1>1. TypeOK'
  BY DEF TypeOK
<1>2. AttemptsAgree'
  BY DEF TypeOK, AttemptsAgree, Failed
<1>3. BudgetAgrees'
  BY DEF TypeOK, AttemptsAgree, BudgetAgrees, Failed, Budget
<1>4. FailureAgrees'
  BY DEF TypeOK, AttemptsAgree, BudgetAgrees, FailureAgrees, Failed, Decided,
         Budget
<1>5. NoticesAgree'
  BY DEF TypeOK, AttemptsAgree, NoticesAgree
<1> QED
  BY <1>1, <1>2, <1>3, <1>4, <1>5

LEMMA AsyncSleepIInv ==
    ASSUME IInv, AsyncSleep PROVE IInv'
<1> USE ExecutorAssumption, BudgetTyped
    DEF IInv, AsyncSleep, Escapes, Exceptions, Raised
<1>1. TypeOK'
  BY DEF TypeOK
<1>2. AttemptsAgree'
  BY DEF TypeOK, AttemptsAgree, Failed
<1>3. BudgetAgrees'
  BY DEF TypeOK, AttemptsAgree, BudgetAgrees, Failed, Budget
<1>4. FailureAgrees'
  BY DEF TypeOK, AttemptsAgree, BudgetAgrees, FailureAgrees, Failed, Decided,
         Budget
<1>5. NoticesAgree'
  BY DEF TypeOK, AttemptsAgree, NoticesAgree
<1> QED
  BY <1>1, <1>2, <1>3, <1>4, <1>5

LEMMA NextIInv == IInv /\ [Next]_vars => IInv'
<1> SUFFICES ASSUME IInv, [Next]_vars PROVE IInv'
    OBVIOUS
<1>1. CASE Call
  BY <1>1, CallIInv
<1>2. CASE Step
  BY <1>2, YieldIInv, OnSuccessIInv, ReturnIInv, NotRetryableIInv,
     ExhaustedIInv, HandleFinalFailureIInv, CalculateDelayIInv, OnRetryIInv,
     RobustSleepIInv, AsyncSleepIInv DEF Step
<1>3. CASE Done \/ UNCHANGED vars
  <2> USE <1>3 DEF Done, vars, IInv
  <2>1. TypeOK' /\ AttemptsAgree' /\ NoticesAgree'
    BY DEF TypeOK, AttemptsAgree, NoticesAgree, Failed
  <2>2. BudgetAgrees' /\ FailureAgrees'
    BY DEF BudgetAgrees, FailureAgrees, Failed, Decided, Raised, Budget
  <2> QED
    BY <2>1, <2>2
<1> QED
  BY <1>1, <1>2, <1>3 DEF Next

\* The inductive invariant holds in every state of a call.
THEOREM Invariance == Spec => []IInv
<1> QED
  BY InitIInv, NextIInv, PTL DEF Spec

\* The locals of a call, and what its observer counts, keep their types.
THEOREM TypeCorrect == Spec => []TypeOK
<1>1. IInv => TypeOK
  BY DEF IInv
<1> QED
  BY <1>1, Invariance, PTL

\* The fallback is called exactly once for a failure the executor gives up
\* on, and never for a call that another exception breaks off.
THEOREM FallbackCalledOnce == Spec => []FallbackOnce
<1>1. IInv => FallbackOnce
  BY DEF IInv, TypeOK, FailureAgrees, Decided, Raised, FallbackOnce
<1> QED
  BY <1>1, Invariance, PTL

\* No Interrupt is swallowed.
THEOREM InterruptsEscape == Spec => []SevereEscapes
<1>1. IInv => SevereEscapes
  BY DEF IInv, FailureAgrees, SevereEscapes
<1> QED
  BY <1>1, Invariance, PTL

\* An error of the fallback does not mask the failure.
THEOREM FailuresKept == Spec => []FailureKept
<1>1. IInv => FailureKept
  BY DEF IInv, FailureAgrees, FailureKept, Decided
<1> QED
  BY <1>1, Invariance, PTL

\* Every retry is announced once.
THEOREM AllRetriesAnnounced == Spec => []RetriesAnnounced
<1>1. IInv => RetriesAnnounced
  BY DEF IInv, NoticesAgree, RetriesAnnounced
<1> QED
  BY <1>1, Invariance, PTL

-----------------------------------------------------------------------------
\* The contract.

\* The end of an attempt is the contract's Attempt.
LEMMA AttemptStep ==
    ASSUME IInv, Yield \/ OnSuccess, finished' # finished
    PROVE  Contract!Attempt
<1>1. /\ pc \in {"yield", "succeeded"}
      /\ UNCHANGED options
      /\ finished' = finished + 1
      /\ pc' \in {"return", "rescue"}
      /\ finished \in Nat
  BY DEF Yield, YieldReturns, YieldRaises, OnSuccess, BodyRaises, IInv, TypeOK
<1>2. finished < Budget /\ Last \in {"none", "retryable"}
  BY <1>1 DEF IInv, BudgetAgrees, Last, TypeOK
<1>3. Last' \in Contract!Endings \ {"none"}
  BY <1>1 DEF Last, Contract!Endings
<1> QED
  BY <1>1, <1>2, <1>3 DEF Contract!Attempt, Verdict, Budget

\* An exception that is not rescued is the contract's Abort.
LEMMA EscapeStep ==
    ASSUME IInv, NEW e \in Exceptions, Escapes(e),
           pc \notin {"ready", "returned", "raised", "return"},
           UNCHANGED <<options, finished, error>>
    PROVE  Contract!Abort
BY DEF Escapes, Raised, Contract!Abort, Verdict, Verdicts, Last, Budget

LEMMA NextContract ==
    ASSUME IInv, IInv', [Next]_vars
    PROVE  [Contract!Next]_Contract!vars
<1> USE DEF Contract!Next
<1>1. CASE Call
  <2>1. Contract!Begin
    BY <1>1 DEF Call, Contract!Begin, Verdict, Last, Budget
  <2> QED
    BY <2>1
<1>2. CASE Yield \/ OnSuccess
  <2>1. CASE finished' # finished
    BY <1>2, <2>1, AttemptStep
  <2>2. CASE finished' = finished
    <3>1. CASE \E e \in Exceptions : Escapes(e)
      BY <1>2, <2>2, <3>1, EscapeStep
         DEF Yield, YieldReturns, YieldRaises, OnSuccess, BodyRaises, IInv,
             TypeOK
    <3>2. CASE ~\E e \in Exceptions : Escapes(e)
      BY <1>2, <2>2, <3>2
         DEF Yield, YieldReturns, YieldRaises, OnSuccess, BodyRaises, IInv,
             TypeOK, Exceptions, Contract!vars, Verdict, Last, Budget
    <3> QED
      BY <3>1, <3>2
  <2> QED
    BY <2>1, <2>2
<1>3. CASE Return
  <2>1. Contract!Conclude
    BY <1>3 DEF Return, Contract!Conclude, Verdict, Last, Budget, IInv,
                AttemptsAgree, TypeOK
  <2> QED
    BY <2>1
<1>4. CASE NotRetryable \/ Exhausted
  BY <1>4 DEF NotRetryable, Exhausted, FinalFailure, Contract!vars, Verdict,
              Last, Budget
<1>5. CASE HandleFinalFailure
  <2>1. CASE \E e \in Severe : Escapes(e)
    BY <1>5, <2>1, EscapeStep DEF HandleFinalFailure, Exceptions
  <2>2. CASE ~\E e \in Severe : Escapes(e)
    <3>1. /\ pc = "final" /\ pc' = "raised"
          /\ UNCHANGED <<options, error, finished, raised>>
      BY <1>5, <2>2 DEF HandleFinalFailure
    <3>2. /\ Decided(raised) /\ finished > 0
          /\ error \in options.retryable => finished = Budget
      BY <3>1 DEF IInv, FailureAgrees, AttemptsAgree, TypeOK, Failed
    <3>3. Contract!Conclude
      BY <3>1, <3>2 DEF Contract!Conclude, Verdict, Verdicts, Last, Budget,
                        Decided, Raised
    <3> QED
      BY <3>3
  <2> QED
    BY <2>1, <2>2
<1>6. CASE CalculateDelay \/ OnRetry \/ RobustSleep \/ AsyncSleep
  <2>1. /\ pc \in {"rescue", "on_retry", "sleep"}
        /\ UNCHANGED <<options, error, finished>>
        /\ \/ \E e \in Exceptions : Escapes(e)
           \/ pc' \in {"on_retry", "sleep", "yield"}
    BY <1>6, ExecutorAssumption
       DEF CalculateDelay, OnRetry, RobustSleep, AsyncSleep, Exceptions
  <2>2. CASE \E e \in Exceptions : Escapes(e)
    BY <2>1, <2>2, EscapeStep
  <2>3. CASE pc' \in {"on_retry", "sleep", "yield"}
    BY <2>1, <2>3 DEF Contract!vars, Verdict, Last, Budget
  <2> QED
    BY <2>1, <2>2, <2>3
<1>7. CASE Done \/ UNCHANGED vars
  BY <1>7 DEF Done, vars, Contract!vars, Verdict, Last, Budget
<1> QED
  BY <1>1, <1>2, <1>3, <1>4, <1>5, <1>6, <1>7 DEF Next, Step

\* Every call is a bounded retry: no attempt after a success or an exception
\* that is not retryable, none beyond max_attempts, and the exception that is
\* raised tells how the last attempt ended.
THEOREM ContractSafety ==
    Spec => Contract!Init /\ [][Contract!Next]_Contract!vars
<1>1. Init => Contract!Init
  <2>1. Init => Budget \in Nat \ {0}
    BY BudgetTyped, InitIInv DEF IInv
  <2> QED
    BY <2>1 DEF Init, Contract!Init, Last, Verdict
<1>2. IInv /\ IInv' /\ [Next]_vars => [Contract!Next]_Contract!vars
  BY NextContract
<1> QED
  BY <1>1, <1>2, Invariance, PTL DEF Spec

-----------------------------------------------------------------------------
\* The ranking behind the termination of a call: at most five steps for each
\* attempt of its budget and one more, and every step uses one up.
THEOREM CallsDescend == Spec => CallDescends
<1>1. IInv /\ [Next]_vars => [StepsLeft' \in 0..(StepsLeft - 1)]_vars
  <2> SUFFICES ASSUME IInv, Call \/ Step
               PROVE  StepsLeft' \in 0..(StepsLeft - 1)
      BY DEF Next, Done
  <2> DEFINE left == Budget - attempts
  <2>1. /\ attempts \in Nat /\ Budget \in Nat
        /\ pc \in {"yield", "on_retry", "sleep", "ready"} => attempts < Budget
        /\ pc \notin {"returned", "raised"} => attempts <= Budget
    BY BudgetTyped
       DEF IInv, TypeOK, AttemptsAgree, BudgetAgrees, Failed, Budget
  <2>2. left \in Nat /\ (pc = "yield" => left > 0)
    BY <2>1 DEF Call, Step, Yield, YieldReturns, YieldRaises, OnSuccess,
       Return, NotRetryable, Exhausted, HandleFinalFailure, CalculateDelay,
       OnRetry, RobustSleep, AsyncSleep
  <2>3. options' = options
    BY DEF Call, Step, Yield, YieldReturns, YieldRaises, OnSuccess, Return,
           NotRetryable, Exhausted, FinalFailure, HandleFinalFailure,
           CalculateDelay, OnRetry, RobustSleep, AsyncSleep
  <2>4. Budget' = Budget
    BY <2>3 DEF Budget
  <2>5. CASE Yield
    <3>1. /\ pc = "yield" /\ pc' \in {"succeeded", "rescue", "raised"}
          /\ attempts' = attempts + 1
      BY <2>5 DEF Yield, YieldReturns, YieldRaises, BodyRaises, Escapes
    <3>2. left' = left - 1
      BY <2>1, <2>4, <3>1
    <3> QED
      BY <2>2, <3>1, <3>2 DEF StepsLeft
  <2>6. CASE ~Yield
    <3>1. /\ attempts' = attempts
          /\ \/ pc = "ready" /\ pc' = "yield"
             \/ pc = "succeeded" /\ pc' \in {"return", "rescue", "raised"}
             \/ pc = "return" /\ pc' = "returned"
             \/ pc = "rescue" /\ pc' \in {"final", "on_retry", "raised"}
             \/ pc = "final" /\ pc' = "raised"
             \/ pc = "on_retry" /\ pc' \in {"sleep", "raised"}
             \/ pc = "sleep" /\ pc' \in {"yield", "raised"}
      BY <2>6 DEF Call, Step, OnSuccess, BodyRaises, Return, NotRetryable,
                  Exhausted, FinalFailure, HandleFinalFailure,
                  CalculateDelay, OnRetry, RobustSleep, AsyncSleep, Escapes
    <3>2. left' = left
      BY <2>4, <3>1
    <3> QED
      BY <2>2, <3>1, <3>2 DEF StepsLeft
  <2> QED
    BY <2>5, <2>6
<1> QED
  BY <1>1, Invariance, PTL DEF Spec, CallDescends
=============================================================================
