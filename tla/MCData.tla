-------------------------------- MODULE MCData --------------------------------
(***************************************************************************)
(* DataObjects and AssuanTransactions for TLC.  The two share nothing, so a *)
(* behaviour uses only one of them.  Data: two-byte calls on as many bytes *)
(* as an int counts that wraps at 4, a provider like                       *)
(* QByteArrayDataProvider and one like a QIODeviceDataProvider that is     *)
(* sequential.                                                             *)
(* Transactions: a version and two readers; status lines that are empty,   *)
(* plain, and with the characters that escaping is about, a zero byte too.  *)
(***************************************************************************)
EXTENDS DataObjects, AssuanTransactions, TLC

CONSTANTS d1, d2, h1, h2

MCOffsets  == {-3, -1, 0, 2, 7}
MCSupports == {Operation, Operation \ {"seek"}}

MCVersion == <<50, 46, 49>>
MCReader  == {<<82>>, <<67, 48>>}
MCPlain   == {<<>>, <<97, 32, 98>>, <<43, 127>>, <<37, 50, 66>>, <<47, 0, 10>>}

Interchangeable == {p @@ q : p \in Permutations({d1, d2}), q \in Permutations({h1, h2})}

\* Nothing was done with Data yet.
Untouched ==
  /\ supports = Operation /\ \A b \in Body : body[b] = Free
  /\ mOff = 0 /\ ret = 0 /\ out = <<>> /\ exists

MCInit == DataInit /\ AssuanInit

MCNext ==
  \/ class = "default" /\ uses = 0 /\ DataNext /\ UNCHANGED assuanVars
  \/ mArray = <<>> /\ Untouched /\ AssuanNext /\ UNCHANGED <<vars, dataVars>>

MCSpec == MCInit /\ [][MCNext]_<<vars, dataVars, assuanVars>>
===============================================================================
