---------------------------- MODULE MCNestedCalls ----------------------------
(***************************************************************************)
(* A small instance of NestedCalls: the default policy and one more, one   *)
(* array of the callers', and room for two further arrays, so that two     *)
(* definitions, or one and a new configuration, fall anywhere in a call.   *)
(* What is added to a list in place can turn a failure that ends a call    *)
(* into one that is retried (Exceeded), or has no effect (Interrupt).      *)
(***************************************************************************)
EXTENDS NestedCalls

CONSTANTS default, inner_policy, NetworkError, ArgumentError, Exceeded, Interrupt

MCNames == {default, inner_policy}
MCExceptions == {NetworkError, ArgumentError, Exceeded, Interrupt}
MCSevere == {Interrupt}
MCStandardErrors == MCExceptions \ MCSevere
MCCallerLists == <<{NetworkError}>>
MCAdded == {Exceeded, Interrupt}
Chosen(max, list) == [max_attempts |-> max, retryable |-> list]
MCGiven == {Chosen({2}, {}), Chosen({1}, {1})}

Symbol(n) == [symbol |-> TRUE, name |-> n, options |-> Chosen({}, {})]
Hash(o) == [symbol |-> FALSE, name |-> default, options |-> o]
MCOuter == {Symbol(default), Symbol(inner_policy), Hash(Chosen({2}, {1}))}
MCInner == {Symbol(inner_policy), Hash(Chosen({2}, {}))}
=============================================================================
