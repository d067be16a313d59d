-------------------------------- MODULE Keys --------------------------------
(***************************************************************************)
(* GpgME::Key and its parts (Subkey, UserID, UserID::Signature): C++       *)
(* objects that share gpgme's key structures.  A structure has a reference *)
(* count of its own; every Key made from a plain gpgme_key_t starts a new  *)
(* shared_ptr, whose last owner gives one reference back.  Parts hold the  *)
(* shared_ptr of their key and a plain pointer into its lists.             *)
(***************************************************************************)
EXTENDS Naturals, Sequences, FiniteSets

CONSTANTS
  Struct,    \* addresses of gpgme_key_t structures
  Block,     \* control blocks of shared_ptrs
  Handle,    \* the application's variables of type Key
  View,      \* its variables of type Subkey, UserID or Signature
  Null,      \* a null pointer
  Listed,    \* what gpgme may find out about a key, see Certificate
  Index,     \* the indices asked for, from 1 (bound)
  MaxSigners \* most signing keys of a context (bound)

\* A structure as gpgme fills it in.  Fingerprints may be missing, as in
\* listings of key servers; signatures are counted for each user ID.
Certificate ==
  [flags   : SUBSET STRING,
   mode    : SUBSET STRING,
   subkeys : Seq([fpr : {Null} \cup STRING, keyid : STRING, card : BOOLEAN]),
   uids    : Seq(Nat)]

Kinds == {"Subkey", "UserID", "Signature"}

ASSUME KeysAssumption ==
  /\ MaxSigners \in Nat
  /\ Index \subseteq Nat \ {0}
  /\ Null \notin Struct \cup Block
  /\ Null \notin Certificate
  /\ Listed \subseteq Certificate
  /\ IsFiniteSet(Block)

VARIABLES
  key,      \* the structures: what they say now, Null when freed
  refs,     \* their reference counts
  block,    \* what the shared_ptrs with this control block point to
  handle,   \* Key::key, as the control block
  view,     \* the parts, see NoPart
  signers,  \* the signing keys of the gpgme context
  listed,   \* what gpgme filled the structures with
  seen,     \* everything gpgme has found out so far
  undefined \* a null pointer was dereferenced

owners == <<block, handle, view>>
keyVars == <<key, refs, owners, signers, listed, seen, undefined>>

\* Part k of kind "Subkey" or "UserID", signature j of user ID i; 0 is null.
NoPart == [block |-> Null, kind |-> "UserID", i |-> 0, j |-> 0]

-----------------------------------------------------------------------------
(* Reference counts *)

\* The control blocks that variables own.
Used(hs, vs) == {hs[h] : h \in Handle} \cup {vs[v].block : v \in View}

\* The variables change to hs and vs, after the control blocks in "bs" were
\* made for structures that already count them.  Control blocks that lost
\* their last owner call gpgme_key_unref().
Assign(hs, vs, bs, ks, rs) ==
  LET gone    == {b \in Block : bs[b] # Null /\ b \notin Used(hs, vs)}
      left[s \in Struct] == rs[s] - Cardinality({b \in gone : bs[b] = s})
  IN /\ handle' = hs
     /\ view' = vs
     /\ block' = [b \in Block |-> IF b \in gone THEN Null ELSE bs[b]]
     /\ refs' = left
     /\ key' = [s \in Struct |-> IF left[s] = 0 THEN Null ELSE ks[s]]

Rebind(h, b) == [handle EXCEPT ![h] = b]
StructOf(b)  == IF b = Null THEN Null ELSE block[b]
KeyOf(h)     == StructOf(handle[h])

\* Mutant: the caller's reference is not taken over but added to.
MutAdopt(h, s, rs, ks) ==
  \E b \in Block :
    /\ block[b] = Null
    /\ Assign(Rebind(h, b), view, [block EXCEPT ![b] = s], ks,
              [rs EXCEPT ![s] = @ + 1])

\* h = Key(k, false): a new shared_ptr takes over the reference of the caller.
Adopt(h, s, rs, ks) ==
  \E b \in Block :
    /\ block[b] = Null
    /\ Assign(Rebind(h, b), view, [block EXCEPT ![b] = s], ks, rs)

\* h = Key(k, true): the shared_ptr counts for itself.
Share(h, s) == Adopt(h, s, [refs EXCEPT ![s] = @ + 1], key)

SetHandle(h, b) == Assign(Rebind(h, b), view, block, key, refs)
SetView(v, p)   == Assign(handle, [view EXCEPT ![v] = p], block, key, refs)

-----------------------------------------------------------------------------
(* Where keys come from *)

\* nextKey() and key(): gpgme hands over a new structure with one reference,
\* or null at the end of the listing or for an unknown key.
GetKey(h) ==
  \/ /\ \E s \in Struct, c \in Listed :
          /\ key[s] = Null
          /\ Adopt(h, s, [refs EXCEPT ![s] = 1], [key EXCEPT ![s] = c])
          /\ listed' = [listed EXCEPT ![s] = c]
          /\ seen' = seen \cup {c}
     /\ UNCHANGED <<signers, undefined>>
  \/ SetHandle(h, Null) /\ UNCHANGED <<signers, listed, seen, undefined>>

\* A C program's gpgme_key_t in use elsewhere, wrapped with "acquireRef".
WrapKey(h) ==
  /\ \E s \in Struct : key[s] # Null /\ Share(h, s)
  /\ UNCHANGED <<signers, listed, seen, undefined>>

\* Copies, assignments, also of Key::null, and the end of a variable.
CopyKey(h, k) == SetHandle(h, handle[k]) /\ UNCHANGED <<signers, listed, seen, undefined>>
DropPart(v)   == SetView(v, NoPart) /\ UNCHANGED <<signers, listed, seen, undefined>>

\* addSigningKey(): gpgme counts a reference for its list, and refuses null.
AddSigningKey(h) ==
  /\ KeyOf(h) # Null
  /\ Len(signers) < MaxSigners
  /\ signers' = Append(signers, KeyOf(h))
  /\ refs' = [refs EXCEPT ![KeyOf(h)] = @ + 1]
  /\ UNCHANGED <<key, owners, listed, seen, undefined>>

\* clearSigningKeys()
ClearSigningKeys ==
  LET left[s \in Struct] == refs[s] - Cardinality({n \in DOMAIN signers : signers[n] = s})
  IN /\ signers' = <<>>
     /\ refs' = left
     /\ key' = [s \in Struct |-> IF left[s] = 0 THEN Null ELSE key[s]]
     /\ UNCHANGED <<owners, listed, seen, undefined>>

\* signingKey(idx), and each step of signingKeys(): gpgme_signers_enum()
\* returns a reference of its own, or null beyond the last.
SigningKey(h, idx) ==
  /\ \/ idx \in DOMAIN signers /\ Share(h, signers[idx])
     \/ idx \notin DOMAIN signers /\ SetHandle(h, Null)
  /\ UNCHANGED <<signers, listed, seen, undefined>>

-----------------------------------------------------------------------------
(* Parts *)

\* How many parts of a kind a structure has: numSubkeys(), numUserIDs(), and
\* numSignatures() of user ID i.
NumSubkeys(c)        == Len(c.subkeys)
NumUserIDs(c)        == Len(c.uids)
NumSignatures(c, i)  == IF i \in DOMAIN c.uids THEN c.uids[i] ELSE 0

Has(c, kind, i) ==
  i \in 1 .. (IF kind = "Subkey" THEN NumSubkeys(c) ELSE NumUserIDs(c))

\* Mutant: an index beyond the end finds the last part.
MutFind(s, kind, i) == i

\* find_subkey(), find_uid(): the element, null beyond the end or of no key.
Find(s, kind, i) == IF s # Null /\ Has(key[s], kind, i) THEN i ELSE 0

\* Mutant: the pointer is taken as it comes.
MutVerify(s, kind, of, i) == i

\* verify_subkey(), verify_uid(): the pointer, here element i of "of", if it
\* points into the lists of s.
Verify(s, kind, of, i) == IF of = s THEN Find(s, kind, i) ELSE 0

\* find_signature() and verify_signature()
FindSignature(s, i, j) ==
  IF i # 0 /\ j \in 1 .. NumSignatures(key[s], i) THEN j ELSE 0

\* Key::subkey(), Key::userID(), and every element of subkeys() and userIDs().
PartByIndex(v, h, kind, i) ==
  /\ kind # "Signature"
  /\ SetView(v, [block |-> handle[h], kind |-> kind, i |-> Find(KeyOf(h), kind, i), j |-> 0])
  /\ UNCHANGED <<signers, listed, seen, undefined>>

\* The constructors that take a plain pointer, wherever the application has
\* it from: also from a structure that is freed by now.
PartByPointer(v, h, kind, of, i) ==
  /\ kind # "Signature"
  /\ SetView(v, [block |-> handle[h], kind |-> kind,
                 i |-> Verify(KeyOf(h), kind, of, i), j |-> 0])
  /\ UNCHANGED <<signers, listed, seen, undefined>>

\* UserID::signature(), and every element of signatures().
SignatureOf(v, w, j) ==
  LET u == view[w]
      s == StructOf(u.block)
      i == IF s = Null THEN 0 ELSE Verify(s, "UserID", s, u.i)
  IN /\ u.kind = "UserID"
     /\ SetView(v, [block |-> u.block, kind |-> "Signature", i |-> i,
                    j |-> FindSignature(s, i, j)])
     /\ UNCHANGED <<signers, listed, seen, undefined>>

\* Subkey::parent() and UserID::parent()
ParentKey(h, v) ==
  /\ view[v].kind # "Signature"
  /\ SetHandle(h, view[v].block)
  /\ UNCHANGED <<signers, listed, seen, undefined>>

\* Signature::parent()
ParentUserID(v, w) ==
  /\ view[w].kind = "Signature"
  /\ LET s == StructOf(view[w].block)
     IN SetView(v, [block |-> view[w].block, kind |-> "UserID",
                    i |-> Verify(s, "UserID", s, view[w].i), j |-> 0])
  /\ UNCHANGED <<signers, listed, seen, undefined>>

\* What the accessors read: each tests the pointer of its part, and looks no
\* further than at the structure it points to.
Structure(p)      == {[of |-> StructOf(p.block), kind |-> p.kind, i |-> p.i, j |-> p.j]}
SubkeyReads(p)    == IF p.i = 0 THEN {} ELSE Structure(p)
UserIDReads(p)    == IF p.i = 0 THEN {} ELSE Structure(p)
SignatureReads(p) == IF p.j = 0 THEN {} ELSE Structure(p)
Reads(p) ==
  CASE p.kind = "Subkey"    -> SubkeyReads(p)
    [] p.kind = "UserID"    -> UserIDReads(p)
    [] p.kind = "Signature" -> SignatureReads(p)

-----------------------------------------------------------------------------
(* What keys say, and mergeWith() *)

\* isRevoked() ... isQualified(): a null key has none of the flags.
Says(c, flag) == c # Null /\ flag \in c.flags

\* primaryFingerprint(), which is the key ID where there is no fingerprint.
PrimaryFingerprint(c) ==
  IF c.subkeys = <<>> THEN Null
  ELSE IF c.subkeys[1].fpr # Null THEN c.subkeys[1].fpr ELSE c.subkeys[1].keyid

SameKey(c, d) ==
  PrimaryFingerprint(c) # Null /\ PrimaryFingerprint(c) = PrimaryFingerprint(d)

\* The subkey of "his" that the inner loop stops at, for mine.
FirstMatch(mine, his) ==
  IF \E n \in DOMAIN his : his[n].fpr = mine.fpr
  THEN CHOOSE n \in DOMAIN his :
         /\ his[n].fpr = mine.fpr
         /\ \A m \in 1 .. n - 1 : his[m].fpr # mine.fpr
  ELSE 0

\* strcmp() is given the null fingerprint of one of the subkeys it meets.
ComparesNull(mine, his) ==
  \E n \in DOMAIN his :
    /\ FirstMatch(mine, his) \in {0} \cup n .. Len(his)
    /\ Null \in {mine.fpr, his[n].fpr}

MergedFlags ==
  {"revoked", "expired", "disabled", "invalid", "can_encrypt", "can_sign",
   "can_certify", "secret", "can_authenticate", "is_qualified"}

\* Mutant: the argument's answers replace the object's.
MutMerged(c, d) ==
  [c EXCEPT !.flags = d.flags \cap MergedFlags, !.mode = @ \cup d.mode]

\* A subkey after the inner loop: it is on a card if the match is.
MergedSubkey(mine, his) ==
  LET m == FirstMatch(mine, his)
  IN [mine EXCEPT !.card = @ \/ (m # 0 /\ his[m].card)]

\* c after its flags, key list modes and card keys are completed from d.
Merged(c, d) ==
  [c EXCEPT
    !.flags = @ \cup (d.flags \cap MergedFlags),
    !.mode  = @ \cup d.mode,
    !.subkeys = [n \in DOMAIN @ |-> MergedSubkey(@[n], d.subkeys)]]

\* h.mergeWith(k): the structure changes, for all that share it.
MergeWith(h, k) ==
  LET me == KeyOf(h)  him == KeyOf(k)
  IN /\ me # Null /\ him # Null
     /\ SameKey(key[me], key[him])
     /\ IF \E n \in DOMAIN key[me].subkeys :
             ComparesNull(key[me].subkeys[n], key[him].subkeys)
        THEN undefined' = TRUE /\ UNCHANGED key
        ELSE /\ key' = [key EXCEPT ![me] = Merged(key[me], key[him])]
             /\ UNCHANGED undefined
     /\ UNCHANGED <<refs, owners, signers, listed, seen>>

-----------------------------------------------------------------------------
KeysInit ==
  /\ key = [s \in Struct |-> Null]
  /\ refs = [s \in Struct |-> 0]
  /\ block = [b \in Block |-> Null]
  /\ handle = [h \in Handle |-> Null]
  /\ view = [v \in View |-> NoPart]
  /\ signers = <<>>
  /\ listed = key
  /\ seen = {}
  /\ undefined = FALSE

OnKey(h) ==
  \/ GetKey(h) \/ WrapKey(h) \/ AddSigningKey(h)
  \/ \E k \in Handle : CopyKey(h, k) \/ MergeWith(h, k)
  \/ \E idx \in 1 .. MaxSigners + 1 : SigningKey(h, idx)
  \/ \E v \in View : ParentKey(h, v)

OnPart(v) ==
  \/ DropPart(v)
  \/ \E h \in Handle, kind \in Kinds, i \in Index :
       \/ PartByIndex(v, h, kind, i)
       \/ \E of \in Struct : PartByPointer(v, h, kind, of, i)
  \/ \E w \in View, j \in Index : SignatureOf(v, w, j) \/ ParentUserID(v, w)

KeysNext ==
  /\ ~undefined
  /\ (\E h \in Handle : OnKey(h)) \/ (\E v \in View : OnPart(v)) \/ ClearSigningKeys

KeysSpec == KeysInit /\ [][KeysNext]_keyVars
-----------------------------------------------------------------------------
(* Properties *)

Certificates == Listed \cup {Null}

\* The values the variables range over; what a merge adds stays in the shape.
KeysTypeOK ==
  /\ key \in [Struct -> Certificate \cup {Null}]
  /\ refs \in [Struct -> Nat]
  /\ block \in [Block -> Struct \cup {Null}]
  /\ handle \in [Handle -> Block \cup {Null}]
  /\ view \in [View -> [block : Block \cup {Null}, kind : Kinds,
                         i : Nat, j : Nat]]
  /\ signers \in Seq(Struct)
  /\ listed \in [Struct -> Certificates]
  /\ seen \subseteq Listed
  /\ undefined \in BOOLEAN

\* Through any sequence of listings, copies, wraps and uses as signing key,
\* gpgme's count of a structure is the number of its owners, shared_ptrs and
\* entries in the context's list, and it is freed with the last of them:
\* nothing is freed while a Key or a part can reach it, and nothing leaks.
ReferencesBalanced ==
  /\ KeysTypeOK
  /\ \A s \in Struct :
       /\ refs[s] = Cardinality({b \in Block : block[b] = s})
                     + Cardinality({n \in DOMAIN signers : signers[n] = s})
       /\ refs[s] = 0 <=> key[s] = Null
  /\ \A b \in Block : block[b] # Null <=> b \in Used(handle, view)

\* A part that is not null points into the lists of the key it holds, however
\* it was made, copied or merged with, so that its accessors read its own
\* key's memory.
PartsBelong ==
  \A v \in View : \A p \in Reads(view[v]) :
    /\ p.of \in Struct /\ key[p.of] # Null
    /\ Has(key[p.of], p.kind, p.i)
    /\ p.kind = "Signature" => p.j <= NumSignatures(key[p.of], p.i)

\* strcmp() was called with a null fingerprint only if a key was listed that has
\* a subkey without one (line 316 does not test, while the primary fingerprint
\* falls back to the key ID).
UndefinedIsKnown ==
  undefined =>
    \E c \in seen : /\ PrimaryFingerprint(c) # Null
                     /\ \E n \in DOMAIN c.subkeys : c.subkeys[n].fpr = Null

\* What a key says after any merges is at least what gpgme listed of it and
\* at most what gpgme listed of keys with the same primary fingerprint: no
\* secret key or revocation gets lost or passes to another key.
MergedFromSameKey ==
  /\ UndefinedIsKnown
  /\ \A s \in Struct :
    key[s] # Null =>
      LET same == {c \in seen : SameKey(c, listed[s])}
      IN /\ \A f \in MergedFlags :
              /\ Says(listed[s], f) => Says(key[s], f)
              /\ Says(key[s], f) => \E c \in same \cup {listed[s]} : Says(c, f)
         /\ key[s].mode \subseteq UNION {c.mode : c \in same \cup {listed[s]}}
         /\ \A n \in DOMAIN key[s].subkeys :
              key[s].subkeys[n].card =>
                \E c \in same \cup {listed[s]} : \E m \in DOMAIN c.subkeys :
                  /\ c.subkeys[m].card
                  /\ c.subkeys[m].fpr = listed[s].subkeys[n].fpr
=============================================================================
