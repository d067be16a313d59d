------------------------------- MODULE Results -------------------------------
(***************************************************************************)
(* The results of operations (DecryptionResult, VerificationResult, ...),  *)
(* their elements (Signature, Import, ...) and notations.  gpgme frees its *)
(* result with the context's next operation, so every result object makes  *)
(* a copy: structures bit by bit, then the pointers in them one by one, as *)
(* the constructor of each Private decides.  Variables share the copy, and *)
(* the last one destroys it.  The texts behind the pointers do not matter, *)
(* only whose memory they are in.                                          *)
(***************************************************************************)
EXTENDS Naturals, Sequences, FiniteSets

CONSTANTS
  Slot,      \* addresses of Private objects
  ResultVar, \* the application's variables for results
  ElemVar,   \* its variables for elements of results
  NoSlot,    \* a null pointer
  Kind,      \* the kinds of results used, see AllKinds
  MaxElems,  \* longest list in a result of gpgme's (bound)
  NoteLists  \* the lists of notations of a signature: each with a name, or a
             \* policy URL without one

\* What becomes of the pointers and texts in a structure that is copied:
\* duplicated, part of the structure itself, or left pointing at gpgme's.
DecryptCopies ==
  [head |-> [unsupported_algorithm |-> "dup", file_name |-> "dup"],
   recipients |-> [keyid |-> "gpgme", internalKeyid |-> "inline"]]

\* Mutant: the address of the PKA entry is not duplicated.
MutVerifyCopies == [head |-> [file_name |-> "inline"],
                    sigs |-> [fpr |-> "dup", pka_address |-> "gpgme", notations |-> "gpgme"]]

VerifyCopies == [head |-> [file_name |-> "inline"],
                 sigs |-> [fpr |-> "dup", pka_address |-> "dup", notations |-> "gpgme"]]

SignCopies     == [created |-> [fpr |-> "dup"], invalid |-> [fpr |-> "dup"]]
EncryptCopies  == [invalid |-> [fpr |-> "dup"]]
ImportCopies   == [imports |-> [fpr |-> "dup"]]
KeygenCopies   == [head |-> [fpr |-> "dup"]]
MountCopies    == [head |-> [mount_dir |-> "dup"]]
AssuanCopies   == [head |-> [error |-> "inline"]]
NotationCopies == [head |-> [name |-> "dup", value |-> "dup"]]

Copies ==
  [decrypt |-> DecryptCopies, verify |-> VerifyCopies, sign |-> SignCopies,
   encrypt |-> EncryptCopies, import |-> ImportCopies, keygen |-> KeygenCopies,
   mount |-> MountCopies, assuan |-> AssuanCopies, notation |-> NotationCopies]

\* What the destructors free.
DecryptFrees  == [head |-> {"unsupported_algorithm", "file_name"}]
VerifyFrees   == [sigs |-> {"fpr", "pka_address"}, nota |-> {"name", "value"}, purls |-> {"url"}]
\* Mutant: the second loop of the destructor is missing.
MutSignFrees  == [created |-> {"fpr"}]
SignFrees     == [created |-> {"fpr"}, invalid |-> {"fpr"}]
EncryptFrees  == [invalid |-> {"fpr"}]
ImportFrees   == [imports |-> {"fpr"}]
KeygenFrees   == [head |-> {"fpr"}]
MountFrees    == [head |-> {"mount_dir"}]
AssuanFrees   == [head |-> {}]
NotationFrees == [head |-> {"name", "value"}]

Frees ==
  [decrypt |-> DecryptFrees, verify |-> VerifyFrees, sign |-> SignFrees,
   encrypt |-> EncryptFrees, import |-> ImportFrees, keygen |-> KeygenFrees,
   mount |-> MountFrees, assuan |-> AssuanFrees, notation |-> NotationFrees]

\* What the accessors of results and of their elements return.
\* Mutant: the public member instead of the internal one.
MutRecipientReads == {"keyid"}
RecipientReads    == {"internalKeyid"}
DecryptReads      == [head |-> {"unsupported_algorithm", "file_name"},
                      recipients |-> RecipientReads]
SignatureReads    == {"fpr", "pka_address"}
VerifyReads       == [head |-> {"file_name"}, sigs |-> SignatureReads]
SignReads         == [created |-> {"fpr"}, invalid |-> {"fpr"}]
EncryptReads      == [invalid |-> {"fpr"}]
ImportReads       == [imports |-> {"fpr"}]
KeygenReads       == [head |-> {"fpr"}]
MountReads        == [head |-> {"mount_dir"}]
AssuanReads       == [head |-> {"error"}]
NotationReads     == [head |-> {"name", "value"}]

Returned ==
  [decrypt |-> DecryptReads, verify |-> VerifyReads, sign |-> SignReads,
   encrypt |-> EncryptReads, import |-> ImportReads, keygen |-> KeygenReads,
   mount |-> MountReads, assuan |-> AssuanReads, notation |-> NotationReads]

AllKinds == DOMAIN Copies
Lists(kind) == DOMAIN Copies[kind]

\* A result as gpgme keeps it, with or without what is optional.
Sizes(k)     == {f \in [Lists(k) -> 0 .. MaxElems] : "head" \in Lists(k) => f["head"] = 1}
NotesOf(k,f) == [1 .. (IF k = "verify" THEN f["sigs"] ELSE 0) -> NoteLists]
Report ==
  UNION {UNION {[kind : {k}, full : BOOLEAN, size : {f}, notes : NotesOf(k, f)]
                : f \in Sizes(k)} : k \in Kind}

ASSUME ResultsAssumption ==
  /\ Kind \subseteq AllKinds
  /\ MaxElems \in Nat \ {0}
  /\ NoteLists \subseteq Seq({"named", "url"})
  /\ NoSlot \notin Slot

VARIABLES
  priv,      \* the Private objects, Dead when there is none
  res,       \* the shared_ptr in each variable for a result
  elem,      \* the elements: the shared_ptr, the list and the indices
  heap,      \* the texts that the Private objects have duplicated
  leaked,    \* the kinds of texts that were never freed
  fresh,     \* the Private objects whose original gpgme still has
  misfreed   \* memory was freed that was not the object's

resultVars == <<priv, res, elem, heap, leaked, fresh, misfreed>>

Dead == [kind |-> "none"]
\* Element n of a list, and for notations the k-th of signature n; from 1.
NoElem == [slot |-> NoSlot, list |-> "head", n |-> 1, k |-> 1]

-----------------------------------------------------------------------------
(* Copying a result *)

\* The notations of one signature that have a name.
Named(note) == {k \in DOMAIN note : note[k] = "named"}
URLs(note)  == {k \in DOMAIN note : note[k] = "url"}

\* Where the constructor of VerificationResult::Private leaves the policy URL:
\* purls.back() is overwritten by every one that follows.
PolicyURL(note) ==
  IF URLs(note) = {} THEN 0 ELSE CHOOSE k \in URLs(note) : \A m \in URLs(note) : m <= k

\* The copy of r: in VerificationResult, nota and purls run parallel to sigs.
Copied(r) ==
  [kind |-> r.kind, size |-> r.size, full |-> r.full,
   nota  |-> [i \in DOMAIN r.notes |-> Cardinality(Named(r.notes[i]))],
   purls |-> [i \in DOMAIN r.notes |-> PolicyURL(r.notes[i])]]

Text(s, list, n, field) == [slot |-> s, list |-> list, n |-> n, field |-> field]

\* The texts of a list, and of the notations of signature n, as duplicates.
Duplicated(kind, list) == {f \in DOMAIN Copies[kind][list] : Copies[kind][list][f] = "dup"}
ListTexts(s, r, list) ==
  {Text(s, list, n, f) : n \in 1 .. r.size[list], f \in Duplicated(r.kind, list)}
NoteTexts(s, n, note) ==
  {Text(s, "nota", n, <<k, f>>) : k \in 1 .. Cardinality(Named(note)), f \in {"name", "value"}}
  \cup {Text(s, "purls", n, <<k, "url">>) : k \in URLs(note)}

\* Everything the constructor duplicates for slot s.
Duplicates(s, r) ==
  (IF r.full THEN UNION {ListTexts(s, r, l) : l \in Lists(r.kind)} ELSE {})
  \cup UNION {NoteTexts(s, n, r.notes[n]) : n \in DOMAIN r.notes}

-----------------------------------------------------------------------------
(* Destroying a copy *)

\* The texts that the destructor of slot s frees.
FreedBy(s) ==
  LET p == priv[s]
      frees(l) == IF l \in DOMAIN Frees[p.kind] THEN Frees[p.kind][l] ELSE {}
  IN {t \in heap : t.slot = s /\ t.list \notin {"nota", "purls"} /\ t.field \in frees(t.list)}
     \cup {t \in heap : /\ t.slot = s /\ t.list \in {"nota", "purls"}
                        /\ t.field[2] \in frees(t.list)
                        /\ t.list = "purls" => t.field[1] = p.purls[t.n]}

\* A pointer is freed that was left pointing at gpgme's memory.
FreesForeign(s) ==
  LET p == priv[s]
  IN \E l \in DOMAIN Frees[p.kind] \cap Lists(p.kind) :
       /\ p.full /\ p.size[l] > 0
       /\ \E f \in Frees[p.kind][l] : Copies[p.kind][l][f] = "gpgme"

\* The variables change to rs and es, after the Private objects in ps and
\* their texts in hp were made.  The last owner's going destroys a Private.
SetAll(rs, es, ps, hp) ==
  LET held == {rs[r] : r \in ResultVar} \cup {es[e].slot : e \in ElemVar}
      gone == {s \in Slot : ps[s] # Dead /\ s \notin held}
      rest == {t \in hp : t.slot \in gone} \ UNION {FreedBy(s) : s \in gone}
  IN /\ res' = rs
     /\ elem' = es
     /\ priv' = [s \in Slot |-> IF s \in gone THEN Dead ELSE ps[s]]
     /\ heap' = {t \in hp : t.slot \notin gone}
     /\ leaked' = leaked \cup {[list |-> t.list, kind |-> ps[t.slot].kind] : t \in rest}
     /\ fresh' = (fresh \cup {s \in Slot : priv[s] = Dead /\ ps[s] # Dead}) \ gone
     /\ misfreed' = (misfreed \/ \E s \in gone : FreesForeign(s))

-----------------------------------------------------------------------------
(* Operations *)

\* The context's next operation: gpgme drops its result.
Operate == fresh' = {} /\ UNCHANGED <<priv, res, elem, heap, leaked, misfreed>>

\* v = XResult(ctx, error): init() copies what gpgme reports of the last
\* operation, and there is no Private when it has no result of that kind.
Fetch(v) ==
  \/ \E r \in Report, s \in Slot :
       /\ priv[s] = Dead
       /\ SetAll([res EXCEPT ![v] = s], elem, [priv EXCEPT ![s] = Copied(r)],
                 heap \cup Duplicates(s, r))
  \/ SetAll([res EXCEPT ![v] = NoSlot], elem, priv, heap)

\* Assignment of results; operator=(Result) swaps with a copy.
CopyResult(v, w) == SetAll([res EXCEPT ![v] = res[w]], elem, priv, heap)

\* signature(), import(), invalidSigningKey(), createdSignature() ... with any
\* index: the element shares the result and remembers the index.  A Recipient
\* is a copy of its own and shares nothing.
Element(e, v) ==
  \/ /\ res[v] # NoSlot
     /\ \E list \in Lists(priv[res[v]].kind) \ {"head", "recipients"},
           n \in 1 .. MaxElems + 1 :
          SetAll(res, [elem EXCEPT ![e] = [NoElem EXCEPT !.slot = res[v],
                                                         !.list = list, !.n = n]],
                 priv, heap)
  \/ res[v] = NoSlot /\ SetAll(res, [elem EXCEPT ![e] = NoElem], priv, heap)

\* Signature::notation(): shares the result of the signature.
NotationOf(e, f) ==
  /\ elem[f].list = "sigs"
  /\ \E k \in 1 .. MaxElems + 1 :
       SetAll(res, [elem EXCEPT ![e] = [elem[f] EXCEPT !.list = "nota", !.k = k]], priv, heap)

ResultsInit ==
  /\ priv = [s \in Slot |-> Dead]
  /\ res = [v \in ResultVar |-> NoSlot]
  /\ elem = [e \in ElemVar |-> NoElem]
  /\ heap = {} /\ leaked = {} /\ fresh = {}
  /\ misfreed = FALSE

ResultsNext ==
  /\ ~misfreed
  /\ \/ Operate
     \/ \E v \in ResultVar : Fetch(v) \/ (\E w \in ResultVar : CopyResult(v, w))
     \/ \E e \in ElemVar, v \in ResultVar : Element(e, v)
     \/ \E e, f \in ElemVar : NotationOf(e, f)

ResultsSpec == ResultsInit /\ [][ResultsNext]_resultVars
-----------------------------------------------------------------------------
(* Properties *)

\* isNull() of elements, which guards all their accessors.
ElementNull(e) ==
  \/ e.slot = NoSlot
  \/ LET p == priv[e.slot]
     IN IF e.list = "nota" THEN e.n > Len(p.nota) \/ e.k > p.nota[e.n]
        ELSE e.n > p.size[e.list]

ResultsTypeOK ==
  /\ \A s \in Slot : priv[s] = Dead \/ priv[s].kind \in Kind
  /\ res \in [ResultVar -> Slot \cup {NoSlot}]
  /\ \A e \in ElemVar : elem[e].slot \in Slot \cup {NoSlot}
  /\ fresh \subseteq Slot
  /\ misfreed \in BOOLEAN

\* The accessors of results read memory that is theirs.
ResultsOwnTexts ==
  \A s \in Slot : priv[s] # Dead =>
    LET p == priv[s]
    IN \A l \in DOMAIN Returned[p.kind] : \A n \in 1 .. p.size[l], f \in Returned[p.kind][l] :
         LET how == Copies[p.kind][l][f]
         IN p.full => \/ how = "inline"
                      \/ how = "dup" /\ Text(s, l, n, f) \in heap
                      \/ how = "gpgme" /\ s \in fresh

\* And those of elements.
ElementsInRange ==
  \A x \in ElemVar :
    LET e == elem[x]  p == priv[e.slot]
    IN e.slot # NoSlot =>
         /\ p # Dead
         /\ ~ElementNull(e) /\ e.list = "sigs" =>
              /\ e.n \in DOMAIN p.nota /\ e.n \in DOMAIN p.purls
              /\ p.purls[e.n] # 0 => Text(e.slot, "purls", e.n, <<p.purls[e.n], "url">>) \in heap
         /\ ~ElementNull(e) /\ e.list = "nota" =>
              Text(e.slot, "nota", e.n, <<e.k, "name">>) \in heap

\* Whatever operations the context goes on to, every text that an accessor of
\* a result returns is in memory the result owns, or in the copied structure
\* itself: none points into what gpgme has freed.  An element that does not say
\* it is null keeps its result alive and reads within its vectors, the policy
\* URL and the notations too, which are in vectors parallel to the signatures.
NoStaleReads == ResultsOwnTexts /\ ElementsInRange

\* Each text that was duplicated is freed once, with its result, and nothing
\* of gpgme's is.  The exception: of several policy URLs in one signature all
\* but the last are never freed.
FreedWithResult ==
  /\ ResultsTypeOK
  /\ ~misfreed
  /\ \A t \in heap : priv[t.slot] # Dead
  /\ leaked \subseteq {[list |-> "purls", kind |-> "verify"]}
=============================================================================
