--------------------------- MODULE KeyListResults ---------------------------
(***************************************************************************)
(* GpgME::KeyListResult: variables share the copy of gpgme's result, and   *)
(* mergeWith() detaches before it changes one.                             *)
(***************************************************************************)
EXTENDS Naturals, FiniteSets

CONSTANTS
  Var,       \* the application's variables
  ListError, \* errors of listings
  Cell,      \* addresses of Private objects
  NoCell     \* a null pointer

NoError  == "NO_ERROR"
Canceled == "CANCELED"

\* The allocator finds an address that no variable's Private has.
ASSUME KeyListAssumption ==
  /\ {NoError, Canceled} \subseteq ListError
  /\ NoCell \notin Cell
  /\ \A f \in [Var -> Cell \cup {NoCell}] : \E c \in Cell : \A v \in Var : f[v] # c

VARIABLES
  d,         \* the shared_ptr of each variable
  error,     \* Result::mError
  truncated  \* what each Private says

listVars == <<d, error, truncated>>

\* Error::operator bool: a cancellation is none.
Failed(e) == e \notin {NoError, Canceled}

IsNullResult(v) == d[v] = NoCell /\ ~Failed(error[v])
IsTruncated(v)  == d[v] # NoCell /\ truncated[d[v]]
Unique(v)       == \A w \in Var \ {v} : d[w] # d[v]

HasError(v, e) == error' = [error EXCEPT ![v] = e]

\* The shared_ptrs are now ds; Private objects without one are destroyed.
Shared(ds, ts) ==
  /\ d' = ds
  /\ truncated' = [c \in Cell |-> ts[c] /\ \E v \in Var : ds[v] = c]

\* v = a new Private with the flag t, wherever the allocator puts it.
NewCell(v, t) ==
  LET c == CHOOSE c \in Cell : \A w \in Var : d[w] # c
  IN Shared([d EXCEPT ![v] = c], [truncated EXCEPT ![c] = t])

\* v = KeyListResult(ctx, error): a Private of its own if gpgme has a result.
ListResult(v) ==
  \E e \in ListError, t \in BOOLEAN :
    /\ HasError(v, e)
    /\ \/ NewCell(v, t)
       \/ ~t /\ Shared([d EXCEPT ![v] = NoCell], truncated)

Assigned(v, w) == Shared([d EXCEPT ![v] = d[w]], truncated) /\ HasError(v, error[w])

\* Mutant: the shared Private is changed.
MutDetach(v) ==
  IF d[v] # NoCell THEN truncated' = [truncated EXCEPT ![d[v]] = TRUE] /\ UNCHANGED d
  ELSE NewCell(v, TRUE)

\* detach(), or a copy of the other's Private, and truncated is set there.
Detach(v) ==
  IF d[v] # NoCell /\ Unique(v)
  THEN truncated' = [truncated EXCEPT ![d[v]] = TRUE] /\ UNCHANGED d
  ELSE NewCell(v, TRUE)

\* Mutant: the later error replaces the earlier one.
MutMergedError(v, w) == IF Failed(error[w]) THEN error[w] ELSE error[v]

\* v's mError after that of w is merged: only when there was none yet.
MergedError(v, w) == IF Failed(error[v]) THEN error[v] ELSE error[w]

\* v.mergeWith(w)
MergeList(v, w) ==
  /\ ~IsNullResult(w)
  /\ \/ IsNullResult(v) /\ Assigned(v, w)
     \/ /\ ~IsNullResult(v)
        /\ \/ IsTruncated(w) /\ ~IsTruncated(v) /\ Detach(v)
           \/ ~(IsTruncated(w) /\ ~IsTruncated(v)) /\ UNCHANGED <<d, truncated>>
        /\ HasError(v, MergedError(v, w))

ListInit ==
  /\ d = [v \in Var |-> NoCell]
  /\ error = [v \in Var |-> NoError]
  /\ truncated = [c \in Cell |-> FALSE]

ListNext == \E v \in Var :
  \/ ListResult(v)
  \/ \E w \in Var : Assigned(v, w) \/ MergeList(v, w)

ListSpec == ListInit /\ [][ListNext]_listVars

-----------------------------------------------------------------------------
ListTypeOK ==
  /\ d \in [Var -> Cell \cup {NoCell}]
  /\ error \in [Var -> ListError]
  /\ truncated \in [Cell -> BOOLEAN]

\* What the variables say.
Entries ==
  [v \in Var |-> [data |-> d[v] # NoCell, truncated |-> IsTruncated(v), error |-> error[v]]]

Values == INSTANCE KeyListValue WITH value <- Entries

\* What mergeWith() gives: truncated if either was, and with the first error,
\* unless that was none or a cancellation.
MergesByValue ==
  [][\A v, w \in Var : MergeList(v, w) =>
       Entries' = [Entries EXCEPT ![v] = Values!Merge(Entries[v], Entries[w])]]_listVars

\* Whatever is copied and merged, KeyListResult objects behave as values: a
\* merge is never seen through a copy that was made before, and what it gives is
\* what both objects said, whoever shares the Private of either.
IsValue == Values!Spec /\ MergesByValue
=============================================================================
