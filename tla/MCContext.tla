----------------------------- MODULE MCContext -----------------------------
(***************************************************************************)
(* A context for TLC: its operations, its settings and the results it      *)
(* hands out.  The three share no state that the properties read, so a     *)
(* behaviour is about one of them, its subject, and about one kind of      *)
(* results at a time.  Settings are combined with an import by export of   *)
(* at most one key, and more keys are given to a context as it was made.   *)
(*                                                                         *)
(* Methods of every shape: with two results, with one, without one,        *)
(* listings, and the three that are given an object to call back.  Two     *)
(* objects are enough for one to be replaced by another.  The addresses of *)
(* results and the variables for them are interchangeable.                 *)
(***************************************************************************)
EXTENDS Context, Results, ContextSettings, TLC

CONSTANTS p1, p2, v1, v2

MCMethod == {"decryptAndVerify", "signAndEncrypt", "importKeys", "createVFS",
             "keyListing", "trustItemListing", "edit", "cardEdit", "assuanTransact"}
MCError  == {"NO_ERROR", "EOF", "INV_ARG", "INV_VALUE", "CANCELED"}

\* No notation data; a policy URL, a notation, and another policy URL.
MCNotes == {<<>>, <<"url", "named", "url">>}

MCEngines == <<"OpenPGP", "CMS", "G13">>

\* Null, complete, known by the key ID only, and with an empty fingerprint.
MCKeyObject ==
  {NullKey, [of |-> "alice", fpr |-> "full", keyid |-> "full"],
   [of |-> "bob", fpr |-> "null", keyid |-> "full"],
   [of |-> "carol", fpr |-> "empty", keyid |-> "full"]}

Interchangeable ==
  {f @@ g : f \in Permutations({p1, p2}), g \in Permutations({v1, v2})}

VARIABLE subject \* what a behaviour is about

contextVars == <<vars, resultVars, settingsVars, subject>>

KindsInUse == {priv[s].kind : s \in {s \in Slot : priv[s] # Dead}}

MCInit ==
  /\ Init /\ ResultsInit /\ SettingsInit
  /\ subject \in {"operations", "results", "settings", "keys"}

MCNext ==
  /\ \/ subject = "operations" /\ Next /\ UNCHANGED <<resultVars, settingsVars>>
     \/ /\ subject = "results" /\ ResultsNext /\ Cardinality(KindsInUse') <= 1
        /\ UNCHANGED <<vars, settingsVars>>
     \/ /\ subject = "settings" /\ SettingsNext /\ UNCHANGED <<vars, resultVars>>
        /\ Len(job'.keys) <= 1 /\ job'.kind \in {"none", "export", "import"}
     \/ /\ subject = "keys" /\ SettingsNext /\ UNCHANGED <<vars, resultVars>>
        /\ asked' = Untouched
  /\ UNCHANGED subject

MCSpec == MCInit /\ [][MCNext]_contextVars
=============================================================================
