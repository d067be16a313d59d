------------------------------ MODULE MCOwnership ------------------------------
(***************************************************************************)
(* Handles that share what gpgme allocated, for TLC: keys and their parts, *)
(* trust items, key list results.  The three share nothing, so a behaviour *)
(* is about one of them, its subject.                                      *)
(*                                                                         *)
(* gpgme finds the public and the secret half of a key, the latter on a    *)
(* card, and the same key as a server knows it, without a fingerprint.     *)
(* Control blocks are interchangeable.                                     *)
(***************************************************************************)
EXTENDS Keys, TrustItems, KeyListResults, TLC

CONSTANTS b1, b2, b3

Sub(f, k, c) == [fpr |-> f, keyid |-> k, card |-> c]

MCListed ==
  {[flags |-> {"can_sign"}, mode |-> {"local"}, uids |-> <<2>>,
    subkeys |-> <<Sub("F1", "K1", FALSE), Sub("F2", "K2", FALSE)>>],
   [flags |-> {"secret"}, mode |-> {"local"}, uids |-> <<>>,
    subkeys |-> <<Sub("F1", "K1", FALSE), Sub("F2", "K2", TRUE)>>],
   [flags |-> {"revoked"}, mode |-> {"extern"}, uids |-> <<1>>,
    subkeys |-> <<Sub(Null, "K1", FALSE)>>]}

Interchangeable == Permutations({b1, b2, b3})

VARIABLE subject \* what a behaviour is about

ownershipVars == <<keyVars, trustVars, listVars, subject>>

MCInit ==
  /\ KeysInit /\ TrustInit /\ ListInit
  /\ subject \in {"keys", "trust items", "key lists"}

MCNext ==
  /\ \/ subject = "keys" /\ KeysNext /\ UNCHANGED <<trustVars, listVars>>
     \/ subject = "trust items" /\ TrustNext /\ UNCHANGED <<keyVars, listVars>>
     \/ subject = "key lists" /\ ListNext /\ UNCHANGED <<keyVars, trustVars>>
  /\ UNCHANGED subject

MCSpec == MCInit /\ [][MCNext]_ownershipVars

\* gpgme frees a key or a trust item exactly when the last object of the
\* application that refers to it is gone, by the counts the objects keep; a
\* trust item has one reference too many and stays.
CountsBalanced == ReferencesBalanced /\ TrustReferences
================================================================================
