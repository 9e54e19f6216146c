----------------------------- MODULE NamedRetry -----------------------------
(***************************************************************************)
(* What a retry under the name of a registered policy promises its caller, *)
(* while others change the table of policies: the table is read once, the  *)
(* operation is never called if the name is missing, and otherwise the     *)
(* retry is bounded by the policy that was read, whatever becomes of it.   *)
(* PolicyRetry (the Rust DSL) is shown to implement it.                    *)
(***************************************************************************)
EXTENDS Naturals, Sequences

CONSTANTS Names, Policies, Absent,
          Attempts              \* the attempts each policy allows

VARIABLES table,                \* the policy of each name, or Absent
          wants,                \* the names to retry under, in turn
          budget, calls, last, verdict

retry == <<budget, calls, last, verdict>>
vars == <<table, wants, retry>>

Bounded == INSTANCE RetryContract

NoRetry(v) == budget = 0 /\ calls = 0 /\ last = "none" /\ verdict = v

Init ==
    /\ table = [n \in Names |-> Absent]
    /\ wants \in Seq(Names)
    /\ NoRetry("idle")

\* Someone registers or removes one policy, or clears the table.
Change ==
    /\ \/ \E n \in Names, p \in Policies \cup {Absent} :
              table' = [table EXCEPT ![n] = p]
       \/ table' = [n \in Names |-> Absent]
    /\ UNCHANGED <<wants, retry>>

\* The table is read for the next name.
Ask ==
    /\ verdict = "idle" /\ wants # <<>>
    /\ LET policy == table[Head(wants)]
       IN  IF policy = Absent
           THEN NoRetry("missing")'
           ELSE /\ verdict' = "running"
                /\ budget' = Attempts[policy] /\ calls' = 0 /\ last' = "none"
    /\ wants' = Tail(wants)
    /\ UNCHANGED table

\* The table cannot be read any more.
Refuse == verdict = "idle" /\ NoRetry("aborted")' /\ UNCHANGED <<table, wants>>

Retry == /\ Bounded!Attempt \/ Bounded!Conclude \/ Bounded!Abort
         /\ UNCHANGED <<table, wants>>

Return == /\ verdict \notin {"idle", "running", "aborted"}
          /\ NoRetry("idle")'
          /\ UNCHANGED <<table, wants>>

Next == Change \/ Ask \/ Refuse \/ Retry \/ Return

Spec == Init /\ [][Next]_vars
=============================================================================
