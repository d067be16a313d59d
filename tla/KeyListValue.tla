---------------------------- MODULE KeyListValue ----------------------------
(***************************************************************************)
(* What a KeyListResult promises: it is a value.  A variable changes only  *)
(* when something is assigned to it or merged into it.                     *)
(***************************************************************************)
CONSTANTS
  Var,      \* the variables
  ListError \* errors of listings

NoError  == "NO_ERROR"
Canceled == "CANCELED"

\* Error::operator bool: a cancellation is none.
Failed(e) == e \notin {NoError, Canceled}

VARIABLE value \* of each variable

Value == [data : BOOLEAN, truncated : BOOLEAN, error : ListError]

IsNull(x) == ~x.data /\ ~Failed(x.error)

\* x after y is merged into it.
Merge(x, y) ==
  IF IsNull(y) THEN x
  ELSE IF IsNull(x) THEN y
  ELSE [data      |-> x.data \/ y.truncated,
        truncated |-> x.truncated \/ y.truncated,
        error     |-> IF Failed(x.error) THEN x.error ELSE y.error]

Init == value = [v \in Var |-> [data |-> FALSE, truncated |-> FALSE, error |-> NoError]]

\* A new result may say anything, what a merge gives included: which value that
\* is, KeyListResults adds to IsValue.
Next == \E v \in Var :
  \/ \E x \in Value : value' = [value EXCEPT ![v] = x]
  \/ \E w \in Var : value' = [value EXCEPT ![v] = value[w]]
  \/ \E w \in Var : value' = [value EXCEPT ![v] = Merge(value[v], value[w])]

Spec == Init /\ [][Next]_value
=============================================================================
