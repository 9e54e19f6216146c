-------------------------- MODULE PolicyRetryProofs --------------------------
(***************************************************************************)
(* The DSL: proofs for any threads, any programs and any operations that   *)
(* call the registry themselves.  The registry stays a map and its lock is *)
(* free of the caller while operations are retried under its names; and a  *)
(* retry implements NamedRetry, bounded by the one policy it looked up.    *)
(***************************************************************************)
EXTENDS PolicyRetry, RegistryProofs

LEMMA InitPRInv == PRInit => PRInv
<1> SUFFICES ASSUME PRInit PROVE PRInv
    OBVIOUS
<1>1. Init /\ phase = "ready"
  BY DEF PRInit
<1>2. wants \in Seq(Names)
  BY PolicyRetryAssumption DEF PRInit, Init
<1> QED
  BY <1>1, <1>2, InitGlobalInv DEF PRInv

\* The caller begins a new sequence of calls of the registry.
LEMMA BeginsProgram ==
    ASSUME GlobalInv, Idle, NEW program \in Seq(Operation),
           todo' = [todo EXCEPT ![Caller] = program],
           UNCHANGED <<registry, stage, position, lock, answers>>
    PROVE  GlobalInv'
<1>1. TypeOK'
  BY PolicyRetryAssumption DEF GlobalInv, TypeOK, RegistryTypeOK, registry, lock
<1>2. UniqueNames'
  BY DEF GlobalInv, UniqueNames, registry
<1>3. LockInv'
  BY PolicyRetryAssumption
     DEF GlobalInv, TypeOK, LockInv, Idle, Holds, Writes, Current, lock
<1>4. SearchesStayRight'
  BY PolicyRetryAssumption
     DEF GlobalInv, TypeOK, SearchesStayRight, Idle, Position, Current,
         registry
<1> QED
  BY <1>1, <1>2, <1>3, <1>4 DEF GlobalInv

LEMMA LookupInv ==
    ASSUME PRInv, Lookup PROVE PRInv'
<1> DEFINE get == [op |-> "get", name |-> Head(wants),
                   policy |-> CHOOSE p \in Policies : TRUE, panics |-> FALSE]
<1>1. get \in Operation
  BY PolicyRetryAssumption DEF PRInv, Lookup, Operation
<1>2. <<get>> \in Seq(Operation)
  BY <1>1
<1>3. GlobalInv'
  BY <1>2, BeginsProgram DEF PRInv, Lookup
<1> QED
  BY <1>3 DEF PRInv, Lookup

LEMMA StartOperationInv ==
    ASSUME PRInv, StartOperation PROVE PRInv'
<1>1. PICK program \in Nested : todo' = [todo EXCEPT ![Caller] = program]
  BY DEF StartOperation
<1>2. program \in Seq(Operation)
  BY PolicyRetryAssumption
<1>3. GlobalInv'
  BY <1>1, <1>2, BeginsProgram DEF PRInv, StartOperation
<1> QED
  BY <1>3 DEF PRInv, StartOperation

\* A step that leaves the registry alone.
LEMMA QuietGlobalInv ==
    ASSUME GlobalInv, UNCHANGED vars PROVE GlobalInv'
BY NextGlobalInv DEF vars

\* The caller's steps outside the registry begin a retry only after the
\* lookup, or after the operation, has nothing left to call.
LEMMA CallerInv ==
    ASSUME PRInv, CallerStep \/ Configure \/ Unwind PROVE PRInv'
<1>1. CASE Lookup
  BY <1>1, LookupInv
<1>2. CASE StartOperation
  BY <1>2, StartOperationInv
<1>3. CASE PolicyMissing \/ ReturnOutcome
  <2>1. /\ UNCHANGED vars /\ phase # "ready" /\ phase' = "ready"
        /\ wants' = Tail(wants)
    BY <1>3 DEF PolicyMissing, ReturnOutcome
  <2>2. Tail(wants) \in Seq(Names)
    BY <2>1 DEF PRInv
  <2> QED
    BY <2>1, <2>2, QuietGlobalInv DEF PRInv
<1>4. CASE \/ BuilderForPolicy \/ LoopStep \/ FinishOperation \/ LookupPanics
           \/ OperationPanics \/ Configure \/ Unwind
  <2>1. /\ UNCHANGED vars /\ wants' = wants /\ phase # "ready"
        /\ phase' = "retrying" => Idle
    BY <1>4 DEF BuilderForPolicy, LoopStep, FinishOperation, LookupPanics,
                OperationPanics, Configure, Unwind, PRInv
  <2>2. Idle' = Idle
    BY <2>1 DEF Idle, vars
  <2> QED
    BY <2>1, <2>2, QuietGlobalInv DEF PRInv
<1> QED
  BY <1>1, <1>2, <1>3, <1>4 DEF CallerStep

\* A caller with no call pending takes no step in the registry, and the
\* others' steps give it none.
LEMMA IdleStays ==
    ASSUME GlobalInv, Idle, NEW t \in Threads, Step(t) PROVE Idle'
<1>1. t # Caller
  BY DEF Step, Acquire, Refuse, Panic, Search, ActOnEntry, ActOnAll, Idle
<1>2. todo'[Caller] = todo[Caller] /\ stage'[Caller] = stage[Caller]
  BY <1>1, PolicyRetryAssumption
     DEF Step, Acquire, Refuse, Panic, Search, ActOnEntry, ActOnAll, Return,
         GlobalInv, TypeOK
<1> QED
  BY <1>2 DEF Idle

LEMMA GlobalCallInv ==
    ASSUME PRInv, NEW t \in Threads, GlobalCall(t) PROVE PRInv'
<1>1. GlobalInv'
  BY NextGlobalInv DEF PRInv, GlobalCall, Next
<1>2. phase = "retrying" => Idle'
  BY IdleStays DEF PRInv, GlobalCall
<1> QED
  BY <1>1, <1>2 DEF PRInv, GlobalCall

LEMMA NextPRInv == PRInv /\ [PRNext]_allVars => PRInv'
<1> SUFFICES ASSUME PRInv, [PRNext]_allVars PROVE PRInv'
    OBVIOUS
<1>1. CASE PRDone \/ UNCHANGED allVars
  <2>1. UNCHANGED <<vars, phase, wants>>
    BY <1>1 DEF PRDone, allVars
  <2>2. Idle' = Idle
    BY <2>1 DEF Idle, vars
  <2> QED
    BY <2>1, <2>2, QuietGlobalInv DEF PRInv
<1> QED
  BY <1>1, CallerInv, GlobalCallInv DEF PRNext

\* The registry keeps its invariant while operations are retried under its
\* names and call it.
THEOREM PRInvariance == PRSpec => []PRInv
<1> QED
  BY InitPRInv, NextPRInv, PTL DEF PRSpec

\* The types of the registry and of the lock.
THEOREM TypesKept == PRSpec => []TypeOK
<1>1. PRInv => TypeOK
  BY DEF PRInv, GlobalInv
<1> QED
  BY <1>1, PRInvariance, PTL

\* The lock is held for what it was taken for, by many readers or one writer.
THEOREM LockKept == PRSpec => []LockInv
<1>1. PRInv => LockInv
  BY DEF PRInv, GlobalInv
<1> QED
  BY <1>1, PRInvariance, PTL

\* A name keeps a single entry, whatever the operations register.
THEOREM NamesStayUniqueUnderRetries == PRSpec => []UniqueNames
<1>1. PRInv => UniqueNames
  BY DEF PRInv, GlobalInv
<1> QED
  BY <1>1, PRInvariance, PTL

\* What a search answered, the lookup's of a retry included, is still right
\* when the method acts on it.
THEOREM LookupsStayRight == PRSpec => []SearchesStayRight
<1>1. PRInv => SearchesStayRight
  BY DEF PRInv, GlobalInv
<1> QED
  BY <1>1, PRInvariance, PTL

\* After a panic under the lock no lookup is answered and no policy changes,
\* however many retries still run.
THEOREM PoisonFreezesRetries == PRSpec => PoisonedFrozen
<1>1. PRInv /\ [PRNext]_allVars
          => [poisoned => UNCHANGED <<entries, answers>>]_vars
  <2> SUFFICES ASSUME PRInv, poisoned, PRNext
               PROVE  UNCHANGED <<entries, answers>>
      BY DEF allVars, vars
  <2>1. CASE \E t \in Threads : GlobalCall(t)
    BY <2>1, PoisonStops DEF PRInv, GlobalCall
  <2> QED
    BY <2>1 DEF PRNext, CallerStep, Lookup, PolicyMissing, BuilderForPolicy,
                LoopStep, StartOperation, FinishOperation, ReturnOutcome,
                LookupPanics, OperationPanics, Configure, Unwind, PRDone,
                allVars, vars, registry
<1> QED
  BY <1>1, PRInvariance, PTL DEF PRSpec, PoisonedFrozen

\* No code of the caller ever runs under the lock.
THEOREM NoCodeUnderLock == PRSpec => []CallsWithoutLock
<1>1. PRInv => CallsWithoutLock
  BY PolicyRetryAssumption, GlobalAssumption
     DEF PRInv, GlobalInv, LockInv, Idle, Holds, CallsWithoutLock
<1> QED
  BY <1>1, PRInvariance, PTL

\* The registry that retries use is one map, whatever the threads and the
\* operations do.
THEOREM RetriesUseAMap == PRSpec => ImplementsMap
<1>1. PRInit => Map!Init
  BY RegistryInitInv DEF PRInit, Init
<1>2. PRInv /\ [PRNext]_allVars => [Map!Next]_Map!vars
  <2> SUFFICES ASSUME PRInv, [PRNext]_allVars PROVE [Map!Next]_Map!vars
      OBVIOUS
  <2>1. [RegistryNext]_registry
    <3>1. CASE \E t \in Threads : GlobalCall(t)
      BY <3>1, ActIsRegistryStep
         DEF PRInv, GlobalCall, Step, Acquire, Refuse, Panic, Search,
             registry
    <3> QED
      BY <3>1 DEF PRNext, CallerStep, Lookup, PolicyMissing, BuilderForPolicy,
                  LoopStep, StartOperation, FinishOperation, ReturnOutcome,
                  LookupPanics, OperationPanics, Configure, Unwind, PRDone,
                  allVars, vars
  <2> QED
    BY <2>1, RegistryStep DEF PRInv, GlobalInv, TypeOK, RegistryInv
<1> QED
  BY <1>1, <1>2, PRInvariance, PTL DEF PRSpec, ImplementsMap, Map!Spec

-----------------------------------------------------------------------------
\* The refinement.  What is known of the loop, of a lookup that is pending,
\* and of how the phases of the caller go with the points of the loop.
LoopInv ==
    /\ strategy \in Strategies
    /\ calls \in Nat /\ calls <= Loop!Budget
    /\ pc \in Loop!Running \cup {"build", "done", "unwound"}
    /\ pc = "build" => calls = 0
    /\ pc = "operate" =>
           /\ attempt = calls + 1 /\ calls < Loop!Budget
           /\ calls > 0 => result \in accepts /\ result # NoError
    /\ pc \in {"judge", "notify", "sleep"} =>
           /\ attempt = calls /\ result # NoError
           /\ pc # "judge" => result \in accepts /\ attempt < strategy.max
    /\ pc \in {"succeed", "judge", "notify", "sleep", "fail", "done"} =>
           calls > 0
    /\ pc = "succeed" => result = NoError
    /\ pc = "fail" => result # NoError
    /\ pc \in {"fail", "done"} =>
           /\ outcome.kind = Loop!Kind
           /\ Loop!Kind = "Exhausted" => calls = Loop!Budget

LookupPending ==
    phase = "looking" =>
        \/ Idle /\ answers[Caller] # <<>>
        \/ /\ todo[Caller] # <<>> /\ Tail(todo[Caller]) = <<>>
           /\ Current(Caller).op = "get" /\ Current(Caller).name = Head(wants)
           /\ stage[Caller] \in {"idle", "locked", "found"}
        \/ stage[Caller] = "panicked"

PhasesAgree ==
    /\ phase \in {"ready", "looking", "retrying", "operating", "ended"}
    /\ phase = "operating" => pc = "operate"
    /\ pc = "unwound" => phase = "ended"

NamedInv == PRInv /\ LoopInv /\ LookupPending /\ PhasesAgree

\* What the strategies of the policies are known to be.
LEMMA LoopStrategy ==
    ASSUME Loop!BuiltInStrategies, NEW s \in Strategies
    PROVE  /\ s.max \in 0..AttemptMax /\ AttemptMax \in Nat \ {0}
           /\ \A a \in 1..AttemptMax : /\ a \in s.retries <=> a < s.max
                                       /\ s.delays[a] # {} <=> a < s.max
BY LoopAssumption, WidthsAssumption
   DEF Loop!StrategyType, Loop!BuiltInStrategies, Loop!IsBuiltIn

LEMMA BudgetTyped ==
    ASSUME Loop!BuiltInStrategies, LoopInv
    PROVE  /\ Loop!Budget \in Nat \ {0}
           /\ strategy.max \in 0..AttemptMax /\ AttemptMax \in Nat \ {0}
BY LoopStrategy DEF LoopInv, Loop!Budget

LEMMA NewBuilderInv ==
    ASSUME Loop!BuiltInStrategies, NEW s \in Strategies, NewBuilder(s)
    PROVE  LoopInv'
<1>1. Loop!Budget' \in Nat
  BY LoopStrategy DEF NewBuilder, Loop!Budget
<1> QED
  BY <1>1 DEF NewBuilder, LoopInv, Loop!Budget

LEMMA OperateInv ==
    ASSUME Loop!BuiltInStrategies, LoopInv, Loop!Operate
    PROVE  LoopInv'
<1>1. Loop!Budget' = Loop!Budget /\ Loop!Budget \in Nat
  BY BudgetTyped DEF Loop!Operate, Loop!Budget
<1> QED
  BY <1>1 DEF Loop!Operate, LoopInv, Loop!Running

LEMMA LoopStepInv ==
    ASSUME Loop!BuiltInStrategies, LoopInv,
           LoopStep \/ Configure \/ Loop!Unwind
    PROVE  LoopInv'
<1>1. /\ Loop!Budget \in Nat \ {0} /\ strategy \in Strategies
      /\ strategy.max \in 0..AttemptMax /\ AttemptMax \in Nat \ {0}
  BY BudgetTyped DEF LoopInv
<1>2. CASE Configure
  BY <1>1, <1>2
     DEF Configure, Loop!When, Loop!SetHook, Loop!observer, LoopInv, Loop!Budget
<1>3. CASE Loop!Call
  BY <1>1, <1>3
     DEF Loop!Call, Loop!observer, LoopInv, Loop!Budget, Loop!Running
<1>4. CASE Loop!Succeed
  BY <1>1, <1>4
     DEF Loop!Succeed, Loop!Finished, LoopInv, Loop!Budget, Loop!Kind
<1>5. CASE Loop!Reject \/ Loop!Exhaust \/ Loop!GiveUp
  <2>1. attempt \in 1..AttemptMax /\ attempt = calls /\ result # NoError
    BY <1>1, <1>5
       DEF Loop!Reject, Loop!Exhaust, Loop!GiveUp, LoopInv, Loop!Budget
  <2>2. Loop!Kind = "Exhausted" => calls = Loop!Budget
    BY <1>1, <1>5, <2>1, LoopStrategy
       DEF Loop!Reject, Loop!Exhaust, Loop!GiveUp, LoopInv, Loop!Budget,
           Loop!Kind
  <2> QED
    BY <1>1, <1>5, <2>1, <2>2
       DEF Loop!Reject, Loop!Exhaust, Loop!GiveUp, Loop!Finalize,
           Loop!Finished, Loop!observer, LoopInv, Loop!Budget, Loop!Kind,
           Loop!Running
<1>6. CASE Loop!Backoff
  <2>1. attempt \in 1..AttemptMax /\ attempt = calls
    BY <1>1, <1>6 DEF Loop!Backoff, LoopInv, Loop!Budget
  <2>2. attempt < strategy.max
    BY <1>1, <1>6, <2>1, LoopStrategy DEF Loop!Backoff
  <2> QED
    BY <1>1, <1>6, <2>1, <2>2
       DEF Loop!Backoff, Loop!observer, LoopInv, Loop!Budget, Loop!Running
<1>7. CASE Loop!Notify
  BY <1>1, <1>7
     DEF Loop!Notify, Loop!program, LoopInv, Loop!Budget, Loop!Running
<1>8. CASE Loop!Sleep
  <2>1. attempt' = calls + 1 /\ calls < strategy.max
    BY <1>1, <1>8
       DEF Loop!Sleep, Loop!SaturatingAdd, LoopInv
  <2> QED
    BY <1>1, <1>8, <2>1 DEF Loop!Sleep, LoopInv, Loop!Budget, Loop!Running
<1>9. CASE Loop!Fail
  BY <1>1, <1>9
     DEF Loop!Fail, Loop!program, LoopInv, Loop!Budget, Loop!Kind, Loop!Running
<1>10. CASE Loop!Unwind
  BY <1>1, <1>10
     DEF Loop!Unwind, Loop!observer, LoopInv, Loop!Budget, Loop!Running
<1> QED
  BY <1>2, <1>3, <1>4, <1>5, <1>6, <1>7, <1>8, <1>9, <1>10 DEF LoopStep

LEMMA InitNamedInv ==
    ASSUME Loop!BuiltInStrategies PROVE PRInit => NamedInv
<1> SUFFICES ASSUME PRInit PROVE NamedInv
    OBVIOUS
<1>1. LoopInv
  BY LoopStrategy DEF PRInit, Loop!Init, LoopInv, Loop!Budget
<1> QED
  BY <1>1, InitPRInv DEF PRInit, Loop!Init, NamedInv, LookupPending, PhasesAgree

LEMMA AnswerOfLookup ==
    ASSUME PRInv, LookupPending, phase = "looking", Idle
    PROVE  Answered \in Policies \cup {Absent}
<1>1. answers[Caller] \in Seq(Replies) /\ answers[Caller] # <<>>
  BY PolicyRetryAssumption
     DEF PRInv, GlobalInv, TypeOK, LookupPending, Idle
<1>2. answers[Caller][Len(answers[Caller])] \in Replies
  BY <1>1
<1> QED
  BY <1>2 DEF Answered, Replies

\* The caller's steps keep what is known of it.
LEMMA CallerNamedInv ==
    ASSUME Loop!BuiltInStrategies, NamedInv, CallerStep \/ Configure \/ Unwind
    PROVE  NamedInv'
<1>1. PRInv'
  BY CallerInv DEF NamedInv
<1>2. CASE Lookup
  <2>1. LoopInv'
    BY <1>2 DEF Lookup, loop, NamedInv, LoopInv, Loop!Budget, Loop!Kind
  <2>2. /\ phase' = "looking" /\ stage' = stage /\ wants' = wants
        /\ stage[Caller] = "idle"
        /\ Len(todo'[Caller]) = 1 /\ todo'[Caller][1].op = "get"
        /\ todo'[Caller][1].name = Head(wants)
    BY <1>2, PolicyRetryAssumption
       DEF Lookup, Idle, NamedInv, PRInv, GlobalInv, TypeOK
  <2>3. todo'[Caller] # <<>> /\ Tail(todo'[Caller]) = <<>>
    BY <1>2, PolicyRetryAssumption
       DEF Lookup, NamedInv, PRInv, GlobalInv, TypeOK
  <2>4. /\ Current(Caller)'.op = "get"
        /\ Current(Caller)'.name = Head(wants)
    BY <1>2, PolicyRetryAssumption
       DEF Lookup, Current, NamedInv, PRInv, GlobalInv, TypeOK
  <2> QED
    BY <1>1, <1>2, <2>1, <2>2, <2>3, <2>4
       DEF Lookup, loop, NamedInv, LookupPending, PhasesAgree
<1>3. CASE BuilderForPolicy
  <2>1. Answered \in Policies
    BY <1>3, AnswerOfLookup DEF BuilderForPolicy, NamedInv
  <2>2. StrategyFor[Answered] \in Strategies
    BY <2>1, PolicyRetryAssumption
  <2>3. LoopInv'
    BY <1>3, <2>2, NewBuilderInv DEF BuilderForPolicy
  <2> QED
    BY <1>1, <1>3, <2>3
       DEF BuilderForPolicy, NewBuilder, NamedInv, LookupPending, PhasesAgree
<1>4. CASE LoopStep \/ Configure \/ Unwind
  <2>1. LoopInv'
    BY <1>4, LoopStepInv DEF NamedInv, Unwind
  <2>2. /\ phase \in {"retrying"} /\ phase' \in {"retrying", "ended"}
        /\ pc' = "unwound" => phase' = "ended" \/ pc = "unwound"
    BY <1>4 DEF LoopStep, Configure, Unwind, Loop!Call, Loop!Succeed,
         Loop!Reject, Loop!Exhaust, Loop!GiveUp, Loop!Finalize, Loop!Backoff,
         Loop!Notify, Loop!Sleep, Loop!Fail, Loop!When, Loop!SetHook
  <2> QED
    BY <1>1, <2>1, <2>2 DEF NamedInv, LookupPending, PhasesAgree
<1>5. CASE FinishOperation
  BY <1>1, <1>5, OperateInv
     DEF FinishOperation, Loop!Operate, NamedInv, LookupPending, PhasesAgree
<1>6. CASE OperationPanics
  BY <1>1, <1>6, LoopStepInv
     DEF OperationPanics, Loop!Unwind, NamedInv, LookupPending, PhasesAgree
<1>7. CASE PolicyMissing \/ StartOperation \/ ReturnOutcome \/ LookupPanics
  <2>1. LoopInv'
    BY <1>7
       DEF PolicyMissing, StartOperation, ReturnOutcome, LookupPanics, loop,
           NamedInv, LoopInv, Loop!Budget, Loop!Kind
  <2> QED
    BY <1>1, <1>7, <2>1
       DEF PolicyMissing, StartOperation, ReturnOutcome, LookupPanics, loop,
           NamedInv, LookupPending, PhasesAgree
<1> QED
  BY <1>2, <1>3, <1>4, <1>5, <1>6, <1>7 DEF CallerStep

\* What another thread's call leaves of the caller.
LEMMA OthersLeaveCaller ==
    ASSUME GlobalInv, NEW t \in Threads, Step(t), t # Caller
    PROVE  /\ todo'[Caller] = todo[Caller] /\ stage'[Caller] = stage[Caller]
           /\ answers'[Caller] = answers[Caller]
BY PolicyRetryAssumption
   DEF Step, Acquire, Refuse, Panic, Search, ActOnEntry, ActOnAll, Return,
       GlobalInv, TypeOK

\* The lookup of the caller: it takes the lock, or is refused, searches, and
\* answers.
LEMMA LookupSteps ==
    ASSUME PRInv, LookupPending, phase = "looking", Step(Caller)
    PROVE  /\ UNCHANGED entries /\ ~Idle
           /\ \/ /\ todo' = todo /\ stage'[Caller] \in {"locked", "found"}
              \/ stage'[Caller] = "panicked"
              \/ /\ Idle' /\ answers'[Caller] # <<>>
                 /\ Answered' = TableOf(entries)[Head(wants)]
<1>1. /\ ~Idle /\ todo[Caller] # <<>> /\ Tail(todo[Caller]) = <<>>
      /\ Current(Caller).op = "get" /\ Current(Caller).name = Head(wants)
  BY DEF LookupPending, Step, Acquire, Refuse, Panic, Search, ActOnEntry,
         ActOnAll, Idle
<1>2. CASE Acquire(Caller) \/ Search(Caller) \/ Refuse(Caller)
  BY <1>1, <1>2, PolicyRetryAssumption
     DEF Acquire, Search, Refuse, registry, PRInv, GlobalInv, TypeOK
<1>3. ~Panic(Caller) /\ ~ActOnAll(Caller)
  BY <1>1 DEF Panic, ActOnAll
<1>4. CASE ActOnEntry(Caller)
  <2>1. GetAt(position[Caller]) /\ Return(Caller) /\ stage[Caller] = "found"
    BY <1>1, <1>4 DEF ActOnEntry
  <2>2. position[Caller] = Position(Head(wants)) /\ Head(wants) \in Names
    BY <1>1, <2>1, PolicyRetryAssumption
       DEF PRInv, GlobalInv, SearchesStayRight
  <2>3. reply'.policy = TableOf(entries)[Head(wants)]
    BY <2>1, <2>2, TableAt
       DEF GetAt, Answer, PRInv, GlobalInv, TypeOK, RegistryInv
  <2>4. /\ answers'[Caller] = Append(answers[Caller], reply')
        /\ todo'[Caller] = <<>> /\ stage'[Caller] = "idle"
    BY <1>1, <2>1, PolicyRetryAssumption
       DEF Return, PRInv, GlobalInv, TypeOK
  <2>5. answers[Caller] \in Seq(Replies)
    BY PolicyRetryAssumption DEF PRInv, GlobalInv, TypeOK
  <2>6. reply' \in Replies
    BY <1>4, ActInv, PolicyRetryAssumption
       DEF PRInv, GlobalInv, TypeOK, RegistryTypeOK
  <2>7. /\ answers'[Caller] # <<>>
        /\ answers'[Caller][Len(answers'[Caller])] = reply'
    BY <2>4, <2>5, <2>6
  <2> QED
    BY <1>1, <2>1, <2>3, <2>4, <2>7 DEF GetAt, Idle, Answered
<1> QED
  BY <1>2, <1>3, <1>4 DEF Step

LEMMA GlobalNamedInv ==
    ASSUME NamedInv, NEW t \in Threads, GlobalCall(t)
    PROVE  NamedInv'
<1>1. PRInv'
  BY GlobalCallInv DEF NamedInv
<1>2. LoopInv' /\ PhasesAgree'
  BY DEF GlobalCall, loop, NamedInv, LoopInv, Loop!Budget, Loop!Kind,
         PhasesAgree
<1>3. LookupPending'
  <2> SUFFICES ASSUME phase = "looking" PROVE LookupPending'
      BY DEF LookupPending, GlobalCall
  <2>1. CASE t # Caller
    BY <2>1, OthersLeaveCaller
       DEF GlobalCall, NamedInv, PRInv, LookupPending, Current, Idle
  <2>2. CASE t = Caller
    <3>1. Step(Caller) /\ wants' = wants
      BY <2>2 DEF GlobalCall
    <3>2. CASE todo' = todo /\ stage'[Caller] \in {"locked", "found"}
      <4>1. /\ todo[Caller] # <<>> /\ Tail(todo[Caller]) = <<>>
            /\ Current(Caller).op = "get"
            /\ Current(Caller).name = Head(wants)
        BY <3>1, LookupSteps DEF NamedInv, LookupPending, Step, Acquire,
           Refuse, Panic, Search, ActOnEntry, ActOnAll, Idle
      <4> QED
        BY <3>1, <3>2, <4>1 DEF LookupPending, Current
    <3> QED
      BY <3>1, <3>2, LookupSteps DEF NamedInv, LookupPending
  <2> QED
    BY <2>1, <2>2
<1> QED
  BY <1>1, <1>2, <1>3 DEF NamedInv

LEMMA NextNamedInv ==
    ASSUME Loop!BuiltInStrategies
    PROVE  NamedInv /\ [PRNext]_allVars => NamedInv'
<1> SUFFICES ASSUME NamedInv, [PRNext]_allVars PROVE NamedInv'
    OBVIOUS
<1>1. CASE PRDone \/ UNCHANGED allVars
  <2>1. UNCHANGED allVars
    BY <1>1 DEF PRDone
  <2>2. PRInv'
    BY <2>1, NextPRInv DEF NamedInv
  <2>3. LoopInv' /\ PhasesAgree'
    BY <2>1 DEF allVars, loop, NamedInv, LoopInv, Loop!Budget, Loop!Kind,
                PhasesAgree
  <2>4. LookupPending'
    BY <2>1 DEF allVars, vars, NamedInv, LookupPending, Idle, Current
  <2> QED
    BY <2>2, <2>3, <2>4 DEF NamedInv
<1> QED
  BY <1>1, CallerNamedInv, GlobalNamedInv DEF PRNext

\* What the caller sees depends on these alone.
seen == <<WantsLeft, BudgetSeen, CallsSeen, LastSeen, VerdictSeen>>

LEMMA SeenStays ==
    ASSUME UNCHANGED <<phase, wants, loop>>, Asking' = Asking,
           Asking => Answered' = Answered
    PROVE  UNCHANGED seen
BY DEF seen, WantsLeft, BudgetSeen, CallsSeen, LastSeen, VerdictSeen, Calling,
       loop, Loop!Budget, Loop!Last, Loop!Verdict

\* The table changes for one name, or is cleared.
LEMMA TableStep ==
    ASSUME GlobalInv, NEW t \in Threads, Step(t), UNCHANGED seen
    PROVE  [Named!Change]_Named!vars
<1>1. [RegistryNext]_registry
  BY ActIsRegistryStep
     DEF Step, Acquire, Refuse, Panic, Search, registry
<1>2. [Map!Next]_Map!vars
  BY <1>1, RegistryStep DEF GlobalInv, TypeOK, RegistryInv
<1> QED
  BY <1>2 DEF Map!Next, Map!vars, Map!Register, Map!Get, Map!Remove, Map!All,
              Map!Clear, Named!Change, Named!vars, Named!retry, seen

LEMMA GlobalCallMaps ==
    ASSUME NamedInv, NEW t \in Threads, GlobalCall(t)
    PROVE  [Named!Next]_Named!vars
<1>1. CASE phase # "looking"
  <2>1. UNCHANGED seen
    BY <1>1, SeenStays DEF GlobalCall, Asking
  <2> QED
    BY <2>1, TableStep DEF GlobalCall, NamedInv, PRInv, Named!Next
<1>2. CASE phase = "looking" /\ t # Caller
  <2>1. Asking' = Asking /\ Answered' = Answered
    BY <1>2, OthersLeaveCaller
       DEF GlobalCall, NamedInv, PRInv, Asking, Idle, Answered
  <2>2. UNCHANGED seen
    BY <2>1, SeenStays DEF GlobalCall
  <2> QED
    BY <2>2, TableStep DEF GlobalCall, NamedInv, PRInv, Named!Next
<1>3. CASE phase = "looking" /\ t = Caller
  <2>1. Step(Caller) /\ UNCHANGED <<entries, phase, wants, loop>> /\ ~Asking
    BY <1>3, LookupSteps DEF GlobalCall, NamedInv, Asking
  <2>2. CASE ~Asking'
    <3>1. Asking' = Asking
      BY <2>1, <2>2 DEF Asking
    <3>2. UNCHANGED seen
      BY <2>1, <3>1, SeenStays
    <3> QED
      BY <2>1, <3>2 DEF seen, Named!vars, Named!retry
  <2>3. CASE Asking'
    <3>1. Answered' = TableOf(entries)[Head(wants)]
      BY <1>3, <2>1, <2>3, LookupSteps DEF NamedInv, Asking, Idle
    <3>2. Answered' \in Policies \cup {Absent}
      BY <1>3, <3>1, TableAt, PolicyTyped
         DEF NamedInv, PRInv, GlobalInv, TypeOK, RegistryInv
    <3>3. ~Calling /\ ~Calling' /\ wants # <<>> /\ phase # "ended"
      BY <1>3, <2>1 DEF Calling, NamedInv, PRInv, PhasesAgree, loop
    <3> QED
      BY <2>1, <2>3, <3>1, <3>2, <3>3
         DEF Named!Next, Named!Ask, Named!NoRetry, WantsLeft, BudgetSeen,
             CallsSeen, LastSeen, VerdictSeen
  <2> QED
    BY <2>2, <2>3
<1> QED
  BY <1>1, <1>2, <1>3

\* The steps of the caller that its own caller does not see.
LEMMA HiddenStepMaps ==
    ASSUME Loop!BuiltInStrategies, NamedInv,
           \/ Lookup \/ BuilderForPolicy \/ Configure \/ StartOperation
           \/ phase = "retrying" /\ UNCHANGED <<vars, phase, wants>>
              /\ \/ Loop!Call \/ Loop!Reject \/ Loop!Exhaust \/ Loop!GiveUp
                 \/ Loop!Backoff \/ Loop!Notify \/ Loop!Sleep
    PROVE  UNCHANGED Named!vars
<1>1. CASE Lookup
  <2>1. UNCHANGED <<entries, wants, loop>> /\ ~Calling /\ ~Calling'
    BY <1>1 DEF Lookup, registry, Calling, loop, NamedInv, PhasesAgree
  <2>2. ~Asking /\ ~Asking'
    <3>1. todo'[Caller] # <<>>
      BY <1>1, PolicyRetryAssumption
         DEF Lookup, NamedInv, PRInv, GlobalInv, TypeOK
    <3> QED
      BY <1>1, <3>1 DEF Lookup, Asking, Idle
  <2> QED
    BY <1>1, <2>1, <2>2
       DEF Lookup, WantsLeft, BudgetSeen, CallsSeen, LastSeen, VerdictSeen,
           Named!vars, Named!retry
<1>2. CASE BuilderForPolicy
  <2>1. Answered \in Policies /\ StrategyFor[Answered] \in Strategies
    BY <1>2, AnswerOfLookup, PolicyRetryAssumption
       DEF BuilderForPolicy, NamedInv
  <2>2. /\ ~Calling /\ Calling' /\ Asking /\ UNCHANGED <<vars, wants>>
        /\ phase # "ended" /\ Answered # Absent
    BY <1>2 DEF BuilderForPolicy, NewBuilder, Calling, Asking, NamedInv,
                PhasesAgree
  <2>3. Loop!Budget' = Attempts[Answered] /\ pc' = "build" /\ calls' = 0
    BY <1>2, <2>1 DEF BuilderForPolicy, NewBuilder, Attempts, Loop!Budget
  <2> QED
    BY <2>2, <2>3
       DEF vars, registry, WantsLeft, BudgetSeen, CallsSeen, LastSeen,
           VerdictSeen, Loop!Last, Named!vars, Named!retry
<1>3. CASE Configure
  <2>1. calls = 0
    BY <1>3 DEF Configure, Loop!When, Loop!SetHook, NamedInv, LoopInv
  <2> QED
    BY <1>3, <2>1
       DEF Configure, Loop!When, Loop!SetHook, Loop!observer, vars, registry,
           Calling, WantsLeft, BudgetSeen, CallsSeen, LastSeen, VerdictSeen,
           Loop!Budget, Loop!Last, Named!vars, Named!retry
<1>4. CASE StartOperation
  BY <1>4
     DEF StartOperation, registry, loop, Calling, WantsLeft, BudgetSeen,
         CallsSeen, LastSeen, VerdictSeen, Loop!Budget, Loop!Last,
         Loop!Verdict, Named!vars, Named!retry
<1>5. CASE /\ phase = "retrying" /\ UNCHANGED <<vars, phase, wants>>
           /\ \/ Loop!Call \/ Loop!Reject \/ Loop!Exhaust \/ Loop!GiveUp
              \/ Loop!Backoff \/ Loop!Notify \/ Loop!Sleep
  <2>1. /\ UNCHANGED <<strategy, accepts, calls, result>>
        /\ \/ pc = "build" /\ pc' = "operate"
           \/ /\ pc \in {"judge", "notify", "sleep"}
              /\ pc' \in {"fail", "notify", "sleep", "operate"}
    BY <1>5
       DEF Loop!Call, Loop!Reject, Loop!Exhaust, Loop!GiveUp, Loop!Finalize,
           Loop!Backoff, Loop!Notify, Loop!Sleep, Loop!program,
           Loop!observer
  <2> QED
    BY <1>5, <2>1
       DEF vars, registry, Calling, WantsLeft, BudgetSeen, CallsSeen,
           LastSeen, VerdictSeen, Loop!Budget, Loop!Last, Loop!Verdict,
           Named!vars, Named!retry
<1> QED
  BY <1>1, <1>2, <1>3, <1>4, <1>5

\* The steps that its caller sees.
LEMMA SeenStepMaps ==
    ASSUME Loop!BuiltInStrategies, NamedInv,
           \/ PolicyMissing \/ FinishOperation \/ ReturnOutcome
           \/ LookupPanics \/ OperationPanics \/ Unwind
           \/ phase = "retrying" /\ UNCHANGED <<vars, phase, wants>>
              /\ (Loop!Succeed \/ Loop!Fail)
    PROVE  Named!Next
<1>0. LoopInv /\ Loop!Budget \in Nat \ {0}
  BY BudgetTyped DEF NamedInv
<1>1. CASE PolicyMissing
  <2>1. /\ Asking /\ ~Calling /\ ~Asking' /\ ~Calling' /\ Answered = Absent
        /\ phase # "ended" /\ phase' # "ended" /\ UNCHANGED entries
        /\ wants' = Tail(wants)
    BY <1>1
       DEF PolicyMissing, Asking, Calling, vars, registry, loop, NamedInv,
           PhasesAgree
  <2>2. Named!Return
    BY <2>1
       DEF Named!Return, Named!NoRetry, WantsLeft, BudgetSeen, CallsSeen,
           LastSeen, VerdictSeen
  <2> QED
    BY <2>2 DEF Named!Next
<1>2. CASE ReturnOutcome
  <2>1. /\ Calling /\ ~Asking /\ ~Asking' /\ ~Calling' /\ pc = "done"
        /\ phase' # "ended" /\ UNCHANGED entries /\ wants' = Tail(wants)
    BY <1>2
       DEF ReturnOutcome, Asking, Calling, vars, registry, loop
  <2>2. VerdictSeen \in {"ok", "exhausted", "rejected"}
    BY <1>0, <2>1
       DEF VerdictSeen, Loop!Verdict, Loop!Told, LoopInv, Loop!Kind
  <2>3. Named!Return
    BY <2>1, <2>2
       DEF Named!Return, Named!NoRetry, WantsLeft, BudgetSeen, CallsSeen,
           LastSeen, VerdictSeen
  <2> QED
    BY <2>3 DEF Named!Next
<1>3. CASE LookupPanics
  <2>1. /\ ~Asking /\ ~Calling /\ ~Asking' /\ ~Calling' /\ phase # "ended"
        /\ phase' = "ended" /\ UNCHANGED <<entries, wants>>
    BY <1>3
       DEF LookupPanics, Asking, Idle, Calling, vars, registry, loop,
           NamedInv, PhasesAgree
  <2>2. Named!Refuse
    BY <2>1
       DEF Named!Refuse, Named!NoRetry, WantsLeft, BudgetSeen, CallsSeen,
           LastSeen, VerdictSeen
  <2> QED
    BY <2>2 DEF Named!Next
<1>4. CASE FinishOperation
  <2>1. /\ Calling /\ Calling' /\ pc = "operate"
        /\ UNCHANGED <<entries, wants, strategy>>
    BY <1>4 DEF FinishOperation, Calling, vars, registry, Loop!Operate
  <2>2. /\ calls < Loop!Budget /\ calls' = calls + 1
        /\ Loop!Last \in {"none", "retryable"}
        /\ Loop!Last' \in {"ok", "retryable", "fatal"}
        /\ Loop!Budget' = Loop!Budget
        /\ pc' \in {"succeed", "judge"}
    BY <1>0, <1>4, <2>1
       DEF FinishOperation, Loop!Operate, LoopInv, Loop!Last, Loop!Budget
  <2>3. Named!Bounded!Attempt
    BY <2>1, <2>2
       DEF Named!Bounded!Attempt, Named!Bounded!Endings, BudgetSeen,
           CallsSeen, LastSeen, VerdictSeen, Loop!Verdict
  <2> QED
    BY <2>1, <2>3 DEF Named!Next, Named!Retry, WantsLeft
<1>5. CASE \/ OperationPanics \/ Unwind
  <2>1. /\ Calling /\ Calling' /\ pc \notin {"build", "done", "unwound"}
        /\ pc' = "unwound"
        /\ UNCHANGED <<entries, wants, strategy, accepts, result, calls>>
    BY <1>5
       DEF OperationPanics, Unwind, Loop!Unwind, Loop!Running, Calling, vars,
           registry, Loop!observer
  <2>2. Named!Bounded!Abort
    BY <2>1
       DEF Named!Bounded!Abort, BudgetSeen, CallsSeen, LastSeen,
           VerdictSeen, Loop!Verdict, Loop!Budget, Loop!Last
  <2> QED
    BY <2>1, <2>2 DEF Named!Next, Named!Retry, WantsLeft
<1>6. CASE /\ phase = "retrying" /\ UNCHANGED <<vars, phase, wants>>
           /\ (Loop!Succeed \/ Loop!Fail)
  <2>1. /\ Calling /\ Calling' /\ pc \in {"succeed", "fail"} /\ pc' = "done"
        /\ UNCHANGED <<entries, wants, strategy, accepts, result, calls>>
        /\ outcome'.kind = Loop!Kind
    BY <1>0, <1>6
       DEF Loop!Succeed, Loop!Fail, Loop!Finished, Loop!program, Calling,
           vars, registry, LoopInv, Loop!Kind
  <2>2. /\ calls > 0
        /\ Loop!Kind = "Exhausted" => calls = Loop!Budget
    BY <1>0, <2>1 DEF LoopInv, Loop!Kind
  <2>3. \/ Loop!Last = "ok" /\ VerdictSeen' = "ok"
        \/ Loop!Last = "fatal" /\ VerdictSeen' = "rejected"
        \/ /\ Loop!Last = "retryable" /\ calls = Loop!Budget
           /\ VerdictSeen' = "exhausted"
    BY <1>0, <2>1, <2>2
       DEF Loop!Last, Loop!Kind, VerdictSeen, Loop!Verdict, Loop!Told, LoopInv
  <2>4. Named!Bounded!Conclude
    BY <2>1, <2>3
       DEF Named!Bounded!Conclude, BudgetSeen, CallsSeen, LastSeen,
           VerdictSeen, Loop!Verdict, Loop!Budget, Loop!Last
  <2> QED
    BY <2>1, <2>4 DEF Named!Next, Named!Retry, WantsLeft
<1> QED
  BY <1>1, <1>2, <1>3, <1>4, <1>5, <1>6

\* With built-in strategies, a retry under a name is bounded by the policy
\* that the name had at one moment before the first attempt, whatever the
\* other threads and the operation do to the registry.
THEOREM RetriesAreNamedRetries ==
    ASSUME Loop!BuiltInStrategies PROVE PRSpec => ImplementsNamedRetry
<1>1. PRInit => Named!Init
  <2> SUFFICES ASSUME PRInit PROVE Named!Init
      OBVIOUS
  <2>1. TableOf(entries) = [n \in Names |-> Absent]
    BY EmptyTable DEF PRInit, Init, RegistryInit
  <2>2. wants \in Seq(Names) /\ ~Asking /\ ~Calling /\ phase # "ended"
    BY InitPRInv DEF PRInv, PRInit, Asking, Calling, Loop!Init
  <2> QED
    BY <2>1, <2>2
       DEF Named!Init, Named!NoRetry, WantsLeft, BudgetSeen, CallsSeen,
           LastSeen, VerdictSeen
<1>2. NamedInv /\ [PRNext]_allVars => [Named!Next]_Named!vars
  <2> SUFFICES ASSUME NamedInv, [PRNext]_allVars PROVE [Named!Next]_Named!vars
      OBVIOUS
  <2>1. CASE CallerStep \/ Configure \/ Unwind
    BY <2>1, HiddenStepMaps, SeenStepMaps DEF CallerStep, LoopStep
  <2>2. CASE \E t \in Threads : GlobalCall(t)
    BY <2>2, GlobalCallMaps
  <2>3. CASE PRDone \/ UNCHANGED allVars
    <3>1. UNCHANGED allVars
      BY <2>3 DEF PRDone
    <3>2. UNCHANGED seen
      BY <3>1, SeenStays DEF allVars, vars, Asking, Idle, Answered
    <3> QED
      BY <3>1, <3>2 DEF allVars, vars, registry, seen, Named!vars, Named!retry
  <2> QED
    BY <2>1, <2>2, <2>3 DEF PRNext
<1> QED
  BY <1>1, <1>2, InitNamedInv, NextNamedInv, PTL
     DEF PRSpec, ImplementsNamedRetry, Named!Spec
=============================================================================
