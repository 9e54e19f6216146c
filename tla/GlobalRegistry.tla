--------------------------- MODULE GlobalRegistry ---------------------------
(***************************************************************************)
(* The process-wide registry of policies (core/src/policy.rs): a           *)
(* PolicyRegistry behind an RwLock, used by threads that each run a        *)
(* program, a sequence of the five global functions.  Only the search for  *)
(* a name and the effect that follows it are told apart: what happens in   *)
(* between is what the lock is there to exclude.                           *)
(***************************************************************************)
EXTENDS PolicyRegistry, FiniteSets

CONSTANTS Threads,
          Nobody,               \* no thread holds the lock for writing
          Programs              \* the programs the threads may run

\* The argument of register is an Into<String>: code of the caller, which
\* may panic.  Operations without a name or a policy carry any.
Operation == [op : {"register", "get", "remove", "all", "clear"},
              name : Names, policy : Policies, panics : BOOLEAN]

ASSUME GlobalAssumption ==
    /\ Nobody \notin Threads
    /\ Programs \subseteq [Threads -> Seq(Operation)]

VARIABLES todo,                 \* what each thread has still to call
          stage,                \* where each thread is in its current call
          position,             \* what its search answered
          readers, writer,      \* who holds the lock
          poisoned,             \* the lock's poison flag
          answers               \* what each thread's calls returned (observer)

lock == <<readers, writer, poisoned>>
vars == <<registry, todo, stage, position, lock, answers>>

Current(t) == Head(todo[t])
\* mutant: register takes the lock for reading
WritesNoRegister(t) == Current(t).op \in {"remove", "clear"}
\* mutant: remove takes the lock for reading
WritesNoRemove(t) == Current(t).op \in {"register", "clear"}
Writes(t) == Current(t).op \in {"register", "remove", "clear"}

Init ==
    /\ RegistryInit
    /\ todo \in Programs
    /\ stage = [t \in Threads |-> "idle"]
    /\ position = [t \in Threads |-> 0]
    /\ readers = {}
    /\ writer = Nobody
    /\ poisoned = FALSE
    /\ answers = [t \in Threads |-> <<>>]

-----------------------------------------------------------------------------
\* The lock.

Granted(t) ==
    /\ writer = Nobody
    /\ Writes(t) => readers = {}

\* mutant: a poisoned lock is used all the same
AcquirePoisoned(t) ==
    /\ stage[t] = "idle" /\ todo[t] # <<>>
    /\ Granted(t)
    /\ stage' = [stage EXCEPT ![t] = "locked"]
    /\ IF Writes(t) THEN writer' = t /\ UNCHANGED readers
                    ELSE readers' = readers \cup {t} /\ UNCHANGED writer
    /\ UNCHANGED <<registry, todo, position, poisoned, answers>>

Acquire(t) ==
    /\ stage[t] = "idle" /\ todo[t] # <<>>
    /\ Granted(t)
    /\ ~poisoned
    /\ stage' = [stage EXCEPT ![t] = "locked"]
    /\ IF Writes(t) THEN writer' = t /\ UNCHANGED readers
                    ELSE readers' = readers \cup {t} /\ UNCHANGED writer
    /\ UNCHANGED <<registry, todo, position, poisoned, answers>>

Release(t) ==
    /\ readers' = readers \ {t}
    /\ writer' = IF writer = t THEN Nobody ELSE writer

\* mutant: the caller waits for the lock to be sound again
RefuseWaits(t) ==
    /\ stage[t] = "idle" /\ todo[t] # <<>>
    /\ Granted(t)
    /\ poisoned
    /\ UNCHANGED vars

\* The lock is poisoned: expect() panics in the caller, whatever it called.
Refuse(t) ==
    /\ stage[t] = "idle" /\ todo[t] # <<>>
    /\ Granted(t)
    /\ poisoned
    /\ stage' = [stage EXCEPT ![t] = "panicked"]
    /\ todo' = [todo EXCEPT ![t] = <<>>]
    /\ UNCHANGED <<registry, position, lock, answers>>

-----------------------------------------------------------------------------
\* The methods, under the lock.

\* register converts the name before it searches; a panic there drops the
\* write guard and poisons the lock.
Panic(t) ==
    /\ stage[t] = "locked"
    /\ Current(t).op = "register" /\ Current(t).panics
    /\ poisoned' = TRUE
    /\ Release(t)
    /\ stage' = [stage EXCEPT ![t] = "panicked"]
    /\ todo' = [todo EXCEPT ![t] = <<>>]
    /\ UNCHANGED <<registry, position, answers>>

Search(t) ==
    /\ stage[t] = "locked"
    /\ Current(t).op \in {"register", "get", "remove"}
    /\ ~(Current(t).op = "register" /\ Current(t).panics)
    /\ position' = [position EXCEPT ![t] = Position(Current(t).name)]
    /\ stage' = [stage EXCEPT ![t] = "found"]
    /\ UNCHANGED <<registry, todo, lock, answers>>

\* mutant: the guard outlives the function
ReturnHolding(t) ==
    /\ UNCHANGED <<readers, writer>>
    /\ answers' = [answers EXCEPT ![t] = Append(@, reply')]
    /\ todo' = [todo EXCEPT ![t] = Tail(@)]
    /\ stage' = [stage EXCEPT ![t] = "idle"]
    /\ UNCHANGED <<position, poisoned>>
\* The guard is dropped when the function returns.
Return(t) ==
    /\ Release(t)
    /\ answers' = [answers EXCEPT ![t] = Append(@, reply')]
    /\ todo' = [todo EXCEPT ![t] = Tail(@)]
    /\ stage' = [stage EXCEPT ![t] = "idle"]
    /\ UNCHANGED <<position, poisoned>>

ActOnEntry(t) ==
    /\ stage[t] = "found"
    /\ LET i == position[t]
           call == Current(t)
       IN  \/ call.op = "register" /\ RegisterAt(i, call.name, call.policy)
           \/ call.op = "get" /\ GetAt(i)
           \/ call.op = "remove" /\ RemoveAt(i)
    /\ Return(t)

ActOnAll(t) ==
    /\ stage[t] = "locked"
    /\ \/ Current(t).op = "all" /\ All
       \/ Current(t).op = "clear" /\ Clear
    /\ Return(t)

Step(t) == Acquire(t) \/ Refuse(t) \/ Panic(t) \/ Search(t)
           \/ ActOnEntry(t) \/ ActOnAll(t)

Finished == \A t \in Threads : todo[t] = <<>>
Done == Finished /\ UNCHANGED vars

Next == (\E t \in Threads : Step(t)) \/ Done

\* Every thread is scheduled; the lock need not be fair, because the threads
\* that keep it busy have finitely many calls to make.
Spec == Init /\ [][Next]_vars /\ \A t \in Threads : WF_vars(Step(t))

-----------------------------------------------------------------------------
\* Properties.

\* Every variable has the shape its Rust type and the lock give it.
TypeOK ==
    /\ RegistryTypeOK
    /\ todo \in [Threads -> Seq(Operation)]
    /\ stage \in [Threads -> {"idle", "locked", "found", "panicked"}]
    /\ position \in [Threads -> Nat]
    /\ readers \subseteq Threads
    /\ writer \in Threads \cup {Nobody}
    /\ poisoned \in BOOLEAN
    /\ answers \in [Threads -> Seq(Replies)]

\* What a search answered is still right when the method acts on it, whatever
\* the other threads did in between.
SearchesStayRight ==
    \A t \in Threads :
        stage[t] = "found" => position[t] = Position(Current(t).name)

\* Once a caller's conversion has panicked, no call returns any more and the
\* policies stay as they were: the panic left no half-made change behind.
PoisonedFrozen == [][poisoned => UNCHANGED <<entries, answers>>]_vars

\* Who holds the lock, and for what: the inductive invariant of the lock.
Holds(t) == stage[t] \in {"locked", "found"}
LockInv ==
    /\ \A t \in Threads : Holds(t) =>
           /\ todo[t] # <<>>
           /\ Writes(t) => writer = t
           /\ ~Writes(t) => t \in readers
    /\ writer # Nobody => Holds(writer) /\ Writes(writer) /\ readers = {}
    /\ \A t \in readers : Holds(t) /\ ~Writes(t)
    /\ poisoned => \A t \in Threads : ~Holds(t)

GlobalInv == TypeOK /\ UniqueNames /\ LockInv /\ SearchesStayRight
=============================================================================
