--------------------------- MODULE OwnershipProofs ---------------------------
(***************************************************************************)
(* What the objects that share gpgme's structures promise, for any number  *)
(* of structures, control blocks, items and variables, and whatever gpgme  *)
(* lists: keys and their parts first, then trust items, then key list      *)
(* results, then the composition of the three.                             *)
(*                                                                         *)
(* References of keys: every operation either moves variables between      *)
(* control blocks or makes one control block for a reference that is       *)
(* counted already, and what loses its last owner is given back (Assign).  *)
(* So the counts stay right (Ownership), and what a variable still owns     *)
(* stays where it is and is not freed.  With that, parts keep pointing     *)
(* into their keys, and since a merge changes neither the subkeys nor the  *)
(* user IDs of a structure (Listing), what it adds is traced back to keys  *)
(* with the same primary fingerprint.  Trust items are counted once per    *)
(* object, and key list results are values.                                *)
(***************************************************************************)
EXTENDS MCOwnership, SequenceTheorems, FiniteSetTheorems, WellFoundedInduction, TLAPS

Pointing(bl, s) == {b \in Block : bl[b] = s}
Signing(sg, s)  == {n \in DOMAIN sg : sg[n] = s}

\* The counts are right for these control blocks, structures and signing keys.
RightCounts(bs, ks, rs, sg) ==
  \A s \in Struct :
    /\ rs[s] = Cardinality(Pointing(bs, s)) + Cardinality(Signing(sg, s))
    /\ rs[s] = 0 <=> ks[s] = Null

\* The last two parts of ReferencesBalanced.
Counts == RightCounts(block, key, refs, signers)
Owned == \A b \in Block : block[b] # Null <=> b \in Used(handle, view)

Ownership ==
  /\ key \in [Struct -> Certificate \cup {Null}]
  /\ refs \in [Struct -> Nat]
  /\ block \in [Block -> Struct \cup {Null}]
  /\ handle \in [Handle -> Block \cup {Null}]
  /\ view \in [View -> [block : Block \cup {Null}, kind : Kinds, i : Nat, j : Nat]]
  /\ signers \in Seq(Struct)
  /\ Counts
  /\ Owned

\* Control blocks stay where they are while they have an owner.
BlocksStay == \A b \in Block : block[b] # Null /\ block'[b] # Null => block'[b] = block[b]

\* Same user IDs and subkeys, but for the cards these are on.
SameShape(c, o) ==
  /\ c.uids = o.uids
  /\ Len(c.subkeys) = Len(o.subkeys)
  /\ \A n \in 1 .. Len(c.subkeys) : /\ c.subkeys[n].fpr = o.subkeys[n].fpr
                                    /\ c.subkeys[n].keyid = o.subkeys[n].keyid

\* A structure has the shape that gpgme listed.
Listing ==
  \A s \in Struct : key[s] # Null => listed[s] \in seen /\ SameShape(key[s], listed[s])

-----------------------------------------------------------------------------
LEMMA ReferencesAreOwnership == KeysTypeOK /\ Ownership <=> ReferencesBalanced
BY DEF KeysTypeOK, Ownership, Counts, RightCounts, Owned, ReferencesBalanced, Pointing, Signing

LEMMA PointingFinite ==
  ASSUME NEW bl, NEW s
  PROVE  IsFiniteSet(Pointing(bl, s)) /\ Cardinality(Pointing(bl, s)) \in Nat
<1>1. IsFiniteSet(Pointing(bl, s))
  BY KeysAssumption, FS_Subset DEF Pointing
<1>2. QED
  BY <1>1, FS_CardinalityType

LEMMA SigningFinite ==
  ASSUME NEW sg \in Seq(Struct), NEW s
  PROVE  IsFiniteSet(Signing(sg, s)) /\ Cardinality(Signing(sg, s)) \in Nat
<1>1. DOMAIN sg = 1 .. Len(sg) /\ Len(sg) \in Nat
  BY LenProperties
<1>2. IsFiniteSet(DOMAIN sg)
  BY <1>1, FS_Interval
<1>3. IsFiniteSet(Signing(sg, s))
  BY <1>2, FS_Subset DEF Signing
<1>4. QED
  BY <1>3, FS_CardinalityType

\* A finite set that an element is added to.
LEMMA CountAdded ==
  ASSUME NEW S, NEW T, NEW x, IsFiniteSet(S), x \notin S, T = S \cup {x}
  PROVE  Cardinality(T) = Cardinality(S) + 1
BY FS_AddElement

\* The values that Assign() is called with, apart from the counts.
Variables(hs, vs, bs, ks) ==
  /\ hs \in [Handle -> Block \cup {Null}]
  /\ vs \in [View -> [block : Block \cup {Null}, kind : Kinds, i : Nat, j : Nat]]
  /\ bs \in [Block -> Struct \cup {Null}]
  /\ ks \in [Struct -> Certificate \cup {Null}]

\* What Assign() leaves behind.
AfterAssign(hs, vs, bs, ks, sg) ==
  /\ handle' = hs /\ view' = vs
  /\ refs' \in [Struct -> Nat]
  /\ block' \in [Block -> Struct \cup {Null}]
  /\ key' \in [Struct -> Certificate \cup {Null}]
  /\ RightCounts(block', key', refs', sg)
  /\ \A b \in Block : block'[b] # Null <=> b \in Used(hs, vs)
  /\ \A b \in Used(hs, vs) : b # Null => block'[b] = bs[b]
  /\ \A s \in Struct : key'[s] # Null => key'[s] = ks[s]

\* Who loses the last owner gives one reference back.  If the counts were right
\* for "bs" they are right afterwards, and what is still owned is untouched.
LEMMA AssignBalances ==
  ASSUME NEW hs, NEW vs, NEW bs, NEW ks, NEW rs \in [Struct -> Nat],
         NEW sg \in Seq(Struct),
         Variables(hs, vs, bs, ks),
         RightCounts(bs, ks, rs, sg),
         \A b \in Used(hs, vs) : b # Null => bs[b] # Null,
         Assign(hs, vs, bs, ks, rs)
  PROVE  AfterAssign(hs, vs, bs, ks, sg)
<1> USE KeysAssumption
<1> DEFINE gone == {b \in Block : bs[b] # Null /\ b \notin Used(hs, vs)}
           back(s) == {b \in gone : bs[b] = s}
<1>1. /\ handle' = hs /\ view' = vs
      /\ block' = [b \in Block |-> IF b \in gone THEN Null ELSE bs[b]]
      /\ refs' = [s \in Struct |-> rs[s] - Cardinality(back(s))]
      /\ key' = [s \in Struct |-> IF refs'[s] = 0 THEN Null ELSE ks[s]]
  BY DEF Assign
<1>2. ASSUME NEW s \in Struct
      PROVE  /\ rs[s] - Cardinality(back(s)) = Cardinality(Pointing(block', s))
                                               + Cardinality(Signing(sg, s))
             /\ rs[s] - Cardinality(back(s)) \in Nat
             /\ rs[s] = 0 => rs[s] - Cardinality(back(s)) = 0
  <2>1. Pointing(block', s) = Pointing(bs, s) \ back(s)
    BY <1>1 DEF Pointing
  <2>2. Pointing(bs, s) \cap back(s) = back(s)
    BY DEF Pointing
  <2>3. /\ IsFiniteSet(Pointing(bs, s))
        /\ Cardinality(Pointing(bs, s)) \in Nat
        /\ Cardinality(Pointing(block', s)) \in Nat
        /\ Cardinality(Signing(sg, s)) \in Nat
    BY PointingFinite, SigningFinite
  <2>4. Cardinality(Pointing(block', s))
          = Cardinality(Pointing(bs, s)) - Cardinality(back(s))
    <3> DEFINE P == Pointing(bs, s)  B == back(s)
    <3>1. P \cap B = B /\ IsFiniteSet(P) /\ Pointing(block', s) = P \ B
      BY <2>1, <2>2, <2>3
    <3> HIDE DEF P, B
    <3>2. Cardinality(P \ B) = Cardinality(P) - Cardinality(P \cap B)
      BY <3>1, FS_Difference
    <3>3. QED
      BY <3>1, <3>2 DEF P, B
  <2>5. IsFiniteSet(back(s)) /\ Cardinality(back(s)) \in Nat
    <3>1. back(s) \subseteq Pointing(bs, s)
      BY DEF Pointing
    <3>2. QED
      BY <2>3, <3>1, FS_Subset, FS_CardinalityType
  <2>6. rs[s] = Cardinality(Pointing(bs, s)) + Cardinality(Signing(sg, s))
    BY DEF RightCounts
  <2>7. QED
    BY <2>3, <2>4, <2>5, <2>6
<1>3. refs' \in [Struct -> Nat]
  BY <1>1, <1>2
<1>4. \A s \in Struct : refs'[s] = 0 <=> key'[s] = Null
  <2>1. \A s \in Struct : rs[s] = 0 => refs'[s] = 0
    BY <1>1, <1>2
  <2>2. QED
    BY <1>1, <2>1 DEF RightCounts
<1>5. \A s \in Struct : refs'[s] = Cardinality(Pointing(block', s))
                                   + Cardinality(Signing(sg, s))
  BY <1>1, <1>2
<1>6. /\ block' \in [Block -> Struct \cup {Null}]
      /\ key' \in [Struct -> Certificate \cup {Null}]
  BY <1>1 DEF Variables
<1>7. /\ \A b \in Block : block'[b] # Null <=> b \in Used(hs, vs)
      /\ \A b \in Used(hs, vs) : b # Null => block'[b] = bs[b]
  <2>1. \A b \in Used(hs, vs) : b \in Block \cup {Null}
    BY DEF Used, Variables
  <2>2. QED
    BY <1>1, <2>1
<1>8. \A s \in Struct : key'[s] # Null => key'[s] = ks[s]
  BY <1>1
<1>9. QED
  BY <1>1, <1>3, <1>4, <1>5, <1>6, <1>7, <1>8 DEF AfterAssign, RightCounts

\* What an owned control block points to is not freed.
LEMMA OwnedAlive ==
  Ownership => \A b \in Block : block[b] # Null =>
                 block[b] \in Struct /\ key[block[b]] # Null
<1> SUFFICES ASSUME Ownership, NEW b \in Block, block[b] # Null
             PROVE  block[b] \in Struct /\ key[block[b]] # Null
  OBVIOUS
<1> DEFINE s == block[b]
<1>1. s \in Struct /\ b \in Pointing(block, s)
  BY DEF Ownership, Pointing
<1>2. Cardinality(Pointing(block, s)) \in Nat \ {0}
  BY <1>1, PointingFinite, FS_EmptySet
<1>3. Cardinality(Signing(signers, s)) \in Nat
  BY SigningFinite DEF Ownership
<1>4. refs[s] = Cardinality(Pointing(block, s)) + Cardinality(Signing(signers, s))
  BY <1>1 DEF Ownership, Counts, RightCounts
<1>5. refs[s] # 0
  BY <1>2, <1>3, <1>4
<1>6. QED
  BY <1>1, <1>5 DEF Ownership, Counts, RightCounts

\* Variables move between the control blocks that there are.
LEMMA MoveKeepsOwnership ==
  ASSUME Ownership, NEW hs, NEW vs, Variables(hs, vs, block, key),
         \A b \in Used(hs, vs) : b # Null => b \in Used(handle, view),
         Assign(hs, vs, block, key, refs), signers' = signers
  PROVE  /\ Ownership' /\ BlocksStay
         /\ handle' = hs /\ view' = vs
         /\ \A s \in Struct : key'[s] # Null => key'[s] = key[s]
<1> USE KeysAssumption
<1>1. ASSUME NEW b \in Used(hs, vs), b # Null
      PROVE  block[b] # Null
  <2>1. b \in Block
    BY <1>1 DEF Used, Variables
  <2>2. QED
    BY <1>1, <2>1 DEF Ownership, Owned
<1>2. AfterAssign(hs, vs, block, key, signers)
  <2>1. /\ refs \in [Struct -> Nat] /\ signers \in Seq(Struct)
        /\ RightCounts(block, key, refs, signers)
    BY DEF Ownership, Counts
  <2>2. QED
    BY <1>1, <2>1, AssignBalances
<1>3. Ownership'
  BY <1>2 DEF Ownership, Counts, Owned, Variables, AfterAssign
<1>4. BlocksStay
  BY <1>2 DEF BlocksStay, AfterAssign
<1>5. QED
  BY <1>2, <1>3, <1>4 DEF AfterAssign

\* A new shared_ptr for a reference that is counted already.
LEMMA AdoptKeepsOwnership ==
  ASSUME Ownership, NEW h \in Handle, NEW s \in Struct,
         NEW ks \in [Struct -> Certificate \cup {Null}], NEW rs \in [Struct -> Nat],
         rs = [refs EXCEPT ![s] = refs[s] + 1],
         ks[s] # Null, \A t \in Struct \ {s} : ks[t] = key[t],
         Adopt(h, s, rs, ks), signers' = signers
  PROVE  /\ Ownership' /\ BlocksStay
         /\ view' = view
         /\ \A t \in Struct : key'[t] # Null => key'[t] = ks[t]
<1> USE KeysAssumption
<1>1. PICK b \in Block :
        /\ block[b] = Null
        /\ Assign(Rebind(h, b), view, [block EXCEPT ![b] = s], ks, rs)
  BY DEF Adopt
<1> DEFINE hs == Rebind(h, b)
           bs == [block EXCEPT ![b] = s]
<1>2. Variables(hs, view, bs, ks)
  BY DEF Variables, Rebind, Ownership
<1>3. ASSUME NEW t \in Struct
      PROVE  /\ rs[t] = Cardinality(Pointing(bs, t)) + Cardinality(Signing(signers, t))
             /\ rs[t] = 0 <=> ks[t] = Null
  <2>1. /\ refs[t] = Cardinality(Pointing(block, t)) + Cardinality(Signing(signers, t))
        /\ refs[t] = 0 <=> key[t] = Null
        /\ refs[t] \in Nat
    BY DEF Ownership, Counts, RightCounts
  <2>2. /\ Cardinality(Pointing(block, t)) \in Nat
        /\ Cardinality(Signing(signers, t)) \in Nat
    BY PointingFinite, SigningFinite DEF Ownership
  <2>3. CASE t = s
    <3>1. Pointing(bs, t) = Pointing(block, t) \cup {b} /\ b \notin Pointing(block, t)
      BY <1>1, <2>3 DEF Pointing, Ownership
    <3>2. Cardinality(Pointing(bs, t)) = Cardinality(Pointing(block, t)) + 1
      BY <3>1, PointingFinite, CountAdded
    <3>3. rs[t] = refs[t] + 1 /\ ks[t] # Null
      BY <2>3 DEF Ownership
    <3>4. QED
      BY <2>1, <2>2, <3>2, <3>3
  <2>4. CASE t # s
    <3>1. Pointing(bs, t) = Pointing(block, t)
      BY <1>1, <2>4 DEF Pointing, Ownership
    <3>2. rs[t] = refs[t] /\ ks[t] = key[t]
      BY <2>4 DEF Ownership
    <3>3. QED
      BY <2>1, <3>1, <3>2
  <2>5. QED
    BY <2>3, <2>4
<1>4. \A c \in Used(hs, view) : c # Null => c \in Block /\ bs[c] # Null
  BY DEF Used, Rebind, Ownership, Owned
<1>5. AfterAssign(hs, view, bs, ks, signers)
  <2> HIDE DEF hs, bs
  <2>1. signers \in Seq(Struct) /\ Assign(hs, view, bs, ks, rs)
    BY <1>1 DEF Ownership, hs, bs
  <2>2. RightCounts(bs, ks, rs, signers)
    BY <1>3 DEF RightCounts
  <2>3. \A c \in Used(hs, view) : c # Null => bs[c] # Null
    BY <1>4
  <2>4. QED
    BY <1>2, <2>1, <2>2, <2>3, AssignBalances
<1>6. Ownership'
  BY <1>2, <1>5 DEF Ownership, Counts, Owned, Variables, AfterAssign
<1>7. BlocksStay
  BY <1>1, <1>5 DEF BlocksStay, Ownership, AfterAssign
<1>8. QED
  BY <1>5, <1>6, <1>7 DEF AfterAssign

-----------------------------------------------------------------------------
\* What a part that is not null promises: its key is there and has it.
Fits(p) ==
  LET s == StructOf(p.block)
  IN (IF p.kind = "Signature" THEN p.j # 0 ELSE p.i # 0) =>
       /\ s \in Struct /\ key[s] # Null
       /\ Has(key[s], p.kind, p.i)
       /\ p.kind = "Signature" => p.j <= NumSignatures(key[s], p.i)

Part == [block : Block \cup {Null}, kind : Kinds, i : Nat, j : Nat]

\* Structures change, if they stay, no more than a merge changes them.
ShapesStay ==
  \A s \in Struct : key[s] # Null /\ key'[s] # Null => SameShape(key'[s], key[s])

LEMMA PartsFit ==
  ASSUME view \in [View -> Part]
  PROVE  PartsBelong <=> \A v \in View : Fits(view[v])
<1> SUFFICES ASSUME NEW v \in View
             PROVE  Fits(view[v]) <=>
                      \A p \in Reads(view[v]) :
                        /\ p.of \in Struct /\ key[p.of] # Null
                        /\ Has(key[p.of], p.kind, p.i)
                        /\ p.kind = "Signature" => p.j <= NumSignatures(key[p.of], p.i)
  BY DEF PartsBelong
<1> DEFINE p == view[v]
           q == [of |-> StructOf(p.block), kind |-> p.kind, i |-> p.i, j |-> p.j]
<1>1. p.kind \in Kinds
  BY DEF Part
<1>2. Reads(p) = IF (IF p.kind = "Signature" THEN p.j # 0 ELSE p.i # 0)
                 THEN {q} ELSE {}
  <2>1. CASE p.kind = "Subkey"
    BY <2>1 DEF Reads, SubkeyReads, Structure
  <2>2. CASE p.kind = "UserID"
    BY <2>2 DEF Reads, UserIDReads, Structure
  <2>3. CASE p.kind = "Signature"
    BY <2>3 DEF Reads, SignatureReads, Structure
  <2>4. QED
    BY <1>1, <2>1, <2>2, <2>3 DEF Kinds
<1>3. /\ q.of = StructOf(p.block) /\ q.kind = p.kind
      /\ q.i = p.i /\ q.j = p.j
  OBVIOUS
<1> HIDE DEF p, q
<1>4. QED
  BY <1>2, <1>3 DEF Fits, p

\* A part goes on fitting while somebody owns its key.
LEMMA PartStays ==
  ASSUME Ownership, Ownership', BlocksStay, ShapesStay,
         NEW p \in Part, Fits(p),
         p.block # Null => p.block \in Used(handle, view) \cap Used(handle', view')
  PROVE  Fits(p)'
<1> USE KeysAssumption
<1>1. CASE p.block = Null
  BY <1>1 DEF Fits, StructOf
<1>2. CASE p.block # Null
  <2> DEFINE s == block[p.block]
  <2>1. p.block \in Block /\ s # Null /\ block'[p.block] # Null
    BY <1>2 DEF Part, Ownership, Owned
  <2>2. block'[p.block] = s
    BY <2>1 DEF BlocksStay
  <2>3. s \in Struct /\ key[s] # Null
    BY <2>1, OwnedAlive
  <2>4. key'[s] # Null
    <3>1. (Ownership => \A b \in Block : block[b] # Null =>
                          block[b] \in Struct /\ key[block[b]] # Null)'
      BY OwnedAlive, PTL
    <3>2. QED
      BY <2>1, <2>2, <3>1
  <2>5. SameShape(key'[s], key[s])
    BY <2>3, <2>4 DEF ShapesStay
  <2>6. \A kind, i : Has(key'[s], kind, i) <=> Has(key[s], kind, i)
    BY <2>5 DEF SameShape, Has, NumSubkeys, NumUserIDs
  <2>7. \A i : NumSignatures(key'[s], i) = NumSignatures(key[s], i)
    BY <2>5 DEF SameShape, NumSignatures
  <2>8. StructOf(p.block) = s /\ StructOf(p.block)' = s
    BY <1>2, <2>2 DEF StructOf
  <2>9. QED
    BY <2>3, <2>4, <2>6, <2>7, <2>8 DEF Fits
<1>3. QED
  BY <1>1, <1>2

-----------------------------------------------------------------------------
\* Structures of the same shape have the same primary fingerprint.
LEMMA ShapeGivesPrimary ==
  ASSUME NEW c \in Certificate, NEW o \in Certificate, SameShape(c, o)
  PROVE  PrimaryFingerprint(c) = PrimaryFingerprint(o)
<1> DEFINE SubkeyRecord == [fpr : {Null} \cup STRING, keyid : STRING, card : BOOLEAN]
<1>1. c.subkeys \in Seq(SubkeyRecord) /\ o.subkeys \in Seq(SubkeyRecord)
  BY DEF Certificate
<1>2. CASE Len(c.subkeys) = 0
  <2>1. c.subkeys = <<>> /\ o.subkeys = <<>>
    BY <1>1, <1>2, EmptySeq DEF SameShape
  <2>2. QED
    BY <2>1 DEF PrimaryFingerprint
<1>3. CASE Len(c.subkeys) # 0
  <2>1. c.subkeys # <<>> /\ o.subkeys # <<>>
    BY <1>1, <1>3, EmptySeq DEF SameShape
  <2>2. 1 \in 1 .. Len(c.subkeys)
    BY <1>1, <1>3, LenProperties
  <2>3. /\ c.subkeys[1].fpr = o.subkeys[1].fpr
        /\ c.subkeys[1].keyid = o.subkeys[1].keyid
    BY <2>2 DEF SameShape
  <2>4. QED
    BY <2>1, <2>3 DEF PrimaryFingerprint
<1>4. QED
  BY <1>2, <1>3

\* The least number of a set, by way of the intervals up to its numbers.
LEMMA SmallestOf ==
  ASSUME NEW T \in SUBSET Nat, T # {}
  PROVE  \E m \in T : \A k \in T : m <= k
<1> DEFINE U == {1 .. k : k \in T}
<1>1. U \subseteq FiniteSubsetsOf(Nat) /\ U # {}
  <2>1. \A k \in T : IsFiniteSet(1 .. k)
    BY FS_Interval
  <2>2. \A k \in T : 1 .. k \in FiniteSubsetsOf(Nat)
    BY <2>1 DEF FiniteSubsetsOf
  <2>3. QED
    BY <2>2
<1>2. PICK x \in U : \A y \in U : <<y, x>> \notin StrictSubsetOrdering(Nat)
  BY <1>1, WFMin, FS_StrictSubsetOrderingWellFounded
<1>3. PICK m \in T : x = 1 .. m
  BY <1>2
<1>4. ASSUME NEW k \in T, k < m
      PROVE  FALSE
  <2>1. 1 .. k \subseteq 1 .. m /\ m \in 1 .. m /\ m \notin 1 .. k
    BY <1>4
  <2>2. 1 .. k \in SUBSET Nat /\ 1 .. m \in SUBSET Nat /\ 1 .. k # 1 .. m
    BY <2>1
  <2>3. <<1 .. k, 1 .. m>> \in StrictSubsetOrdering(Nat)
    BY <2>1, <2>2 DEF StrictSubsetOrdering
  <2>4. QED
    BY <1>2, <1>3, <2>3
<1>5. QED
  BY <1>4

\* FirstMatch() finds a subkey with the fingerprint it looks for, or none.
LEMMA FirstMatchMatches ==
  ASSUME NEW R, NEW mine, NEW his \in Seq(R), FirstMatch(mine, his) # 0
  PROVE  /\ FirstMatch(mine, his) \in DOMAIN his
         /\ his[FirstMatch(mine, his)].fpr = mine.fpr
<1> DEFINE Same == {n \in DOMAIN his : his[n].fpr = mine.fpr}
<1>1. DOMAIN his = 1 .. Len(his) /\ Len(his) \in Nat
  BY LenProperties
<1>2. Same \in SUBSET Nat /\ Same # {}
  BY <1>1 DEF FirstMatch
<1>3. PICK m \in Same : \A k \in Same : m <= k
  <2> HIDE DEF Same
  <2>1. QED
    BY <1>2, SmallestOf
<1>4. \A k \in 1 .. m - 1 : his[k].fpr # mine.fpr
  BY <1>1, <1>3
<1>5. QED
  BY <1>3, <1>4 DEF FirstMatch

\* A merge keeps the shape, and adds flags, modes and cards of the other key.
LEMMA MergedKeepsShape ==
  ASSUME NEW c \in Certificate, NEW o \in Certificate
  PROVE  /\ Merged(c, o) \in Certificate
         /\ SameShape(Merged(c, o), c)
         /\ Merged(c, o).flags = c.flags \cup (o.flags \cap MergedFlags)
         /\ Merged(c, o).mode = c.mode \cup o.mode
         /\ DOMAIN Merged(c, o).subkeys = DOMAIN c.subkeys
         /\ \A n \in DOMAIN c.subkeys :
              Merged(c, o).subkeys[n].card =>
                \/ c.subkeys[n].card
                \/ \E m \in DOMAIN o.subkeys : /\ o.subkeys[m].card
                                               /\ o.subkeys[m].fpr = c.subkeys[n].fpr
<1> DEFINE SubkeyRecord == [fpr : {Null} \cup STRING, keyid : STRING, card : BOOLEAN]
           e == Merged(c, o)
           k == Len(c.subkeys)
<1>1. c.subkeys \in Seq(SubkeyRecord) /\ o.subkeys \in Seq(SubkeyRecord)
  BY DEF Certificate
<1>2. /\ k \in Nat /\ DOMAIN c.subkeys = 1 .. k
      /\ \A n \in 1 .. k : c.subkeys[n] \in SubkeyRecord
  BY <1>1, LenProperties, ElementOfSeq
<1>3. /\ e.flags = c.flags \cup (o.flags \cap MergedFlags)
      /\ e.mode = c.mode \cup o.mode
      /\ e.uids = c.uids
      /\ e.subkeys = [n \in 1 .. k |-> MergedSubkey(c.subkeys[n], o.subkeys)]
  BY <1>2 DEF Merged, Certificate
<1>4. \A n \in 1 .. k : MergedSubkey(c.subkeys[n], o.subkeys) \in SubkeyRecord
  BY <1>2 DEF MergedSubkey
<1>5. e.subkeys \in Seq(SubkeyRecord) /\ Len(e.subkeys) = k /\ DOMAIN e.subkeys = 1 .. k
  <2>1. e.subkeys \in [1 .. k -> SubkeyRecord]
    BY <1>3, <1>4
  <2>2. e.subkeys \in Seq(SubkeyRecord)
    BY <1>2, <2>1, SeqDef
  <2>3. DOMAIN e.subkeys = 1 .. Len(e.subkeys) /\ Len(e.subkeys) \in Nat
    BY <2>2, LenProperties
  <2>4. 1 .. Len(e.subkeys) = 1 .. k
    BY <2>1, <2>3
  <2>5. QED
    BY <1>2, <2>2, <2>3, <2>4
<1>6. e \in Certificate
  <2> DEFINE F == c.flags \cup (o.flags \cap MergedFlags)
             M == c.mode \cup o.mode
             K == [n \in DOMAIN c.subkeys |-> MergedSubkey(c.subkeys[n], o.subkeys)]
  <2>1. e = [c EXCEPT !.flags = F, !.mode = M, !.subkeys = K]
    BY DEF Merged
  <2>2. K \in Seq(SubkeyRecord)
    BY <1>2, <1>3, <1>5
  <2>3. F \in SUBSET STRING /\ M \in SUBSET STRING
    BY DEF Certificate
  <2> HIDE DEF F, M, K, e
  <2>4. QED
    BY <2>1, <2>2, <2>3 DEF Certificate
<1>7. \A n \in 1 .. k : /\ e.subkeys[n].fpr = c.subkeys[n].fpr
                        /\ e.subkeys[n].keyid = c.subkeys[n].keyid
  BY <1>2, <1>3 DEF MergedSubkey
<1>8. SameShape(e, c)
  BY <1>3, <1>5, <1>7 DEF SameShape
<1>9. ASSUME NEW n \in 1 .. k, e.subkeys[n].card, ~c.subkeys[n].card
      PROVE  \E m \in DOMAIN o.subkeys : /\ o.subkeys[m].card
                                         /\ o.subkeys[m].fpr = c.subkeys[n].fpr
  <2> DEFINE m == FirstMatch(c.subkeys[n], o.subkeys)
  <2>1. e.subkeys[n] = MergedSubkey(c.subkeys[n], o.subkeys)
    BY <1>3
  <2>2. m # 0 /\ o.subkeys[m].card
    BY <1>2, <1>9, <2>1 DEF MergedSubkey
  <2>3. m \in DOMAIN o.subkeys /\ o.subkeys[m].fpr = c.subkeys[n].fpr
    BY <1>1, <2>2, FirstMatchMatches
  <2>4. QED
    BY <2>2, <2>3
<1>10. QED
  BY <1>2, <1>3, <1>5, <1>6, <1>8, <1>9

-----------------------------------------------------------------------------
\* What MergedFromSameKey says of one structure.
Traced(s) ==
  LET same == {c \in seen : SameKey(c, listed[s])}
  IN /\ \A f \in MergedFlags :
          /\ Says(listed[s], f) => Says(key[s], f)
          /\ Says(key[s], f) => \E c \in same \cup {listed[s]} : Says(c, f)
     /\ key[s].mode \subseteq UNION {c.mode : c \in same \cup {listed[s]}}
     /\ \A n \in DOMAIN key[s].subkeys :
          key[s].subkeys[n].card =>
            \E c \in same \cup {listed[s]} : \E m \in DOMAIN c.subkeys :
              /\ c.subkeys[m].card
              /\ c.subkeys[m].fpr = listed[s].subkeys[n].fpr

KInv ==
  /\ KeysTypeOK
  /\ Ownership
  /\ Listing
  /\ \A v \in View : Fits(view[v])
  /\ UndefinedIsKnown
  /\ \A s \in Struct : key[s] # Null => Traced(s)

LEMMA InvariantMeans == KInv => ReferencesBalanced /\ PartsBelong /\ MergedFromSameKey
<1> SUFFICES ASSUME KInv
             PROVE  ReferencesBalanced /\ PartsBelong /\ MergedFromSameKey
  OBVIOUS
<1>1. ReferencesBalanced
  BY ReferencesAreOwnership DEF KInv
<1>2. PartsBelong
  BY PartsFit DEF KInv, Ownership, Part
<1>3. MergedFromSameKey
  BY DEF KInv, MergedFromSameKey, Traced
<1>4. QED
  BY <1>1, <1>2, <1>3

LEMMA InitEstablishes == KeysInit => KInv
<1> SUFFICES ASSUME KeysInit
             PROVE  KInv
  OBVIOUS
<1> USE KeysAssumption DEF KeysInit
<1>1. KeysTypeOK
  BY EmptySeq DEF KeysTypeOK, NoPart, Certificates, Kinds
<1>2. Owned
  BY DEF Owned, Used, NoPart
<1>3. Counts
  <2>1. \A s \in Struct : Pointing(block, s) = {} /\ Signing(signers, s) = {}
    BY DEF Pointing, Signing
  <2>2. \A s \in Struct : /\ Cardinality(Pointing(block, s)) = 0
                           /\ Cardinality(Signing(signers, s)) = 0
    BY <2>1, FS_EmptySet
  <2>3. QED
    BY <2>2 DEF Counts, RightCounts
<1>4. Ownership
  BY <1>1, <1>2, <1>3 DEF Ownership, KeysTypeOK
<1>5. Listing /\ UndefinedIsKnown
  BY DEF Listing, UndefinedIsKnown
<1>6. \A v \in View : Fits(view[v])
  BY DEF Fits, NoPart
<1>7. QED
  BY <1>1, <1>4, <1>5, <1>6 DEF KInv

\* Operations that change no structure but may free some.
LEMMA PlainPreserves ==
  ASSUME KInv, Ownership', BlocksStay,
         \A s \in Struct : key'[s] # Null => key'[s] = key[s],
         UNCHANGED <<listed, seen, undefined>>,
         \A v \in View : \/ view'[v] = view[v]
                         \/ Fits(view'[v]) /\ view'[v].block \in Used(handle, view) \cup {Null}
  PROVE  KInv'
<1>1. KeysTypeOK'
  BY DEF KInv, KeysTypeOK, Ownership
<1>2. Listing'
  BY DEF KInv, Listing
<1>3. ShapesStay
  BY DEF ShapesStay, SameShape
<1>4. ASSUME NEW v \in View
      PROVE  Fits(view[v])'
  <2>1. PICK p \in Part : p = view'[v]
    BY DEF Ownership, Part
  <2>2. Fits(p) /\ p.block \in Used(handle, view) \cup {Null}
    BY <2>1 DEF KInv, Used
  <2>3. p.block \in Used(handle', view')
    BY <2>1 DEF Used
  <2>4. Fits(p)'
    BY <1>3, <2>2, <2>3, PartStays DEF KInv
  <2>5. QED
    BY <2>1, <2>4 DEF Fits, StructOf
<1>5. UndefinedIsKnown'
  BY DEF KInv, UndefinedIsKnown
<1>6. ASSUME NEW s \in Struct, key'[s] # Null
      PROVE  Traced(s)'
  BY <1>6 DEF KInv, Traced
<1>7. QED
  BY <1>1, <1>2, <1>4, <1>5, <1>6 DEF KInv

\* A Key variable is assigned what some variable has, or nothing.
LEMMA SetHandlePreserves ==
  ASSUME KInv, NEW h \in Handle, NEW b \in Used(handle, view) \cup {Null},
         SetHandle(h, b), UNCHANGED <<signers, listed, seen, undefined>>
  PROVE  KInv'
<1> DEFINE hs == Rebind(h, b)
<1>1. b \in Block \cup {Null}
  BY DEF KInv, Ownership, Used
<1>2. Variables(hs, view, block, key)
  BY <1>1 DEF Variables, Rebind, KInv, Ownership
<1>3. \A c \in Used(hs, view) : c # Null => c \in Used(handle, view)
  BY DEF Used, Rebind, KInv, Ownership
<1>4. Assign(hs, view, block, key, refs)
  BY DEF SetHandle
<1> HIDE DEF hs
<1>5. /\ Ownership' /\ BlocksStay /\ view' = view
      /\ \A s \in Struct : key'[s] # Null => key'[s] = key[s]
  BY <1>2, <1>3, <1>4, MoveKeepsOwnership DEF KInv
<1>6. QED
  BY <1>5, PlainPreserves

\* So is a part, with the key of some variable, if it fits.
LEMMA SetViewPreserves ==
  ASSUME KInv, NEW v \in View, NEW p \in Part, Fits(p),
         p.block \in Used(handle, view) \cup {Null},
         SetView(v, p), UNCHANGED <<signers, listed, seen, undefined>>
  PROVE  KInv'
<1> DEFINE vs == [view EXCEPT ![v] = p]
<1>1. Variables(handle, vs, block, key)
  BY DEF Variables, KInv, Ownership, Part
<1>2. \A c \in Used(handle, vs) : c # Null => c \in Used(handle, view)
  BY DEF Used, KInv, Ownership
<1>3. Assign(handle, vs, block, key, refs)
  BY DEF SetView
<1> HIDE DEF vs
<1>4. /\ Ownership' /\ BlocksStay /\ view' = vs
      /\ \A s \in Struct : key'[s] # Null => key'[s] = key[s]
  BY <1>1, <1>2, <1>3, MoveKeepsOwnership DEF KInv
<1>5. \A w \in View : \/ view'[w] = view[w]
                      \/ Fits(view'[w]) /\ view'[w].block \in Used(handle, view) \cup {Null}
  BY <1>4 DEF vs, KInv, Ownership
<1>6. QED
  BY <1>4, <1>5, PlainPreserves

\* A structure that lives gets one more shared_ptr, which counts for itself.
LEMMA SharePreserves ==
  ASSUME KInv, NEW h \in Handle, NEW s \in Struct, key[s] # Null,
         Share(h, s), UNCHANGED <<signers, listed, seen, undefined>>
  PROVE  KInv'
<1> DEFINE rs == [refs EXCEPT ![s] = refs[s] + 1]
<1>1. /\ key \in [Struct -> Certificate \cup {Null}]
      /\ rs \in [Struct -> Nat]
      /\ Adopt(h, s, rs, key)
  BY DEF Share, KInv, Ownership
<1> HIDE DEF rs
<1>2. /\ Ownership' /\ BlocksStay /\ view' = view
      /\ \A t \in Struct : key'[t] # Null => key'[t] = key[t]
  BY <1>1, AdoptKeepsOwnership DEF KInv, rs
<1>3. QED
  BY <1>2, PlainPreserves

\* Every variable's control block has a living structure.
LEMMA UsedAlive ==
  ASSUME KInv, NEW b \in Used(handle, view), b # Null
  PROVE  b \in Block /\ StructOf(b) = block[b] /\ StructOf(b) \in Struct /\ key[StructOf(b)] # Null
<1>1. b \in Block
  BY DEF KInv, Ownership, Used
<1>2. block[b] # Null
  BY <1>1 DEF KInv, Ownership, Owned
<1>3. QED
  BY <1>1, <1>2, OwnedAlive DEF StructOf, KInv

LEMMA SigningKeysAlive ==
  ASSUME KInv, NEW n \in DOMAIN signers
  PROVE  signers[n] \in Struct /\ key[signers[n]] # Null
<1> DEFINE s == signers[n]
<1>1. signers \in Seq(Struct) /\ DOMAIN signers = 1 .. Len(signers)
  BY LenProperties DEF KInv, Ownership
<1>2. s \in Struct /\ n \in Signing(signers, s)
  BY <1>1, ElementOfSeq DEF Signing
<1>3. Cardinality(Signing(signers, s)) \in Nat \ {0}
  BY <1>1, <1>2, SigningFinite, FS_EmptySet
<1>4. Cardinality(Pointing(block, s)) \in Nat
  BY PointingFinite
<1>5. refs[s] = Cardinality(Pointing(block, s)) + Cardinality(Signing(signers, s))
  BY <1>2 DEF KInv, Ownership, Counts, RightCounts
<1>6. refs[s] # 0
  BY <1>3, <1>4, <1>5
<1>7. QED
  BY <1>2, <1>6 DEF KInv, Ownership, Counts, RightCounts

-----------------------------------------------------------------------------
\* gpgme's list of signing keys counts what is added to it.
LEMMA AddSigningKeyPreserves ==
  ASSUME KInv, NEW h \in Handle, AddSigningKey(h)
  PROVE  KInv'
<1> DEFINE s == KeyOf(h)
<1>1. /\ s # Null
      /\ signers' = Append(signers, s)
      /\ refs' = [refs EXCEPT ![s] = @ + 1]
      /\ UNCHANGED <<key, block, handle, view, listed, seen, undefined>>
  BY DEF AddSigningKey, owners
<1>2. s \in Struct /\ key[s] # Null
  <2>1. handle[h] \in Used(handle, view) /\ handle[h] # Null
    BY <1>1 DEF Used, KeyOf, StructOf
  <2>2. QED
    BY <2>1, UsedAlive DEF KeyOf
<1> HIDE DEF s
<1>3. /\ signers \in Seq(Struct) /\ Len(signers) \in Nat
      /\ DOMAIN signers = 1 .. Len(signers)
  BY LenProperties DEF KInv, Ownership
<1>4. /\ signers' \in Seq(Struct) /\ DOMAIN signers' = 1 .. Len(signers) + 1
      /\ \A n \in 1 .. Len(signers) : signers'[n] = signers[n]
      /\ signers'[Len(signers) + 1] = s
  <2>1. /\ Append(signers, s) \in Seq(Struct)
        /\ Len(Append(signers, s)) = Len(signers) + 1
        /\ \A n \in 1 .. Len(signers) : Append(signers, s)[n] = signers[n]
        /\ Append(signers, s)[Len(signers) + 1] = s
    BY <1>2, <1>3, AppendProperties
  <2>2. DOMAIN Append(signers, s) = 1 .. Len(Append(signers, s))
    BY <2>1, LenProperties
  <2>3. QED
    BY <1>1, <2>1, <2>2
<1>5. ASSUME NEW t \in Struct
      PROVE  /\ refs'[t] = Cardinality(Pointing(block, t)) + Cardinality(Signing(signers', t))
             /\ refs'[t] = 0 <=> key[t] = Null
  <2>1. /\ refs[t] = Cardinality(Pointing(block, t)) + Cardinality(Signing(signers, t))
        /\ refs[t] = 0 <=> key[t] = Null
        /\ refs[t] \in Nat
    BY DEF KInv, Ownership, Counts, RightCounts
  <2>2. /\ Cardinality(Pointing(block, t)) \in Nat
        /\ Cardinality(Signing(signers, t)) \in Nat
        /\ IsFiniteSet(Signing(signers, t))
    BY <1>3, PointingFinite, SigningFinite
  <2>3. CASE t = s
    <3> DEFINE n == Len(signers) + 1
    <3>1. Signing(signers', t) = Signing(signers, t) \cup {n} /\ n \notin Signing(signers, t)
      BY <1>3, <1>4, <2>3 DEF Signing
    <3>2. Cardinality(Signing(signers', t)) = Cardinality(Signing(signers, t)) + 1
      BY <2>2, <3>1, CountAdded
    <3>3. refs'[t] = refs[t] + 1 /\ key[t] # Null
      BY <1>1, <1>2, <2>3 DEF KInv, Ownership
    <3>4. QED
      BY <2>1, <2>2, <3>2, <3>3
  <2>4. CASE t # s
    <3>1. Signing(signers', t) = Signing(signers, t)
      BY <1>3, <1>4, <2>4 DEF Signing
    <3>2. refs'[t] = refs[t]
      BY <1>1, <2>4 DEF KInv, Ownership
    <3>3. QED
      BY <2>1, <3>1, <3>2
  <2>5. QED
    BY <2>3, <2>4
<1>6. refs' \in [Struct -> Nat]
  BY <1>1, <1>2 DEF KInv, Ownership
<1>7. Counts'
  BY <1>1, <1>5 DEF Counts, RightCounts, Pointing
<1>8. Owned'
  BY <1>1 DEF KInv, Ownership, Owned, Used
<1>9. Ownership'
  BY <1>1, <1>4, <1>6, <1>7, <1>8 DEF KInv, Ownership
<1>10. BlocksStay
  BY <1>1 DEF BlocksStay
<1>11. QED
  BY <1>1, <1>9, <1>10, PlainPreserves

\* When the list is cleared, the shared_ptrs keep theirs.
LEMMA ClearSigningKeysPreserves == KInv /\ ClearSigningKeys => KInv'
<1> SUFFICES ASSUME KInv, ClearSigningKeys
             PROVE  KInv'
  OBVIOUS
<1>1. /\ signers' = <<>>
      /\ refs' = [s \in Struct |-> refs[s] - Cardinality(Signing(signers, s))]
      /\ key' = [s \in Struct |-> IF refs'[s] = 0 THEN Null ELSE key[s]]
      /\ UNCHANGED <<block, handle, view, listed, seen, undefined>>
  BY DEF ClearSigningKeys, owners, Signing
<1>2. ASSUME NEW s \in Struct
      PROVE  /\ refs'[s] = Cardinality(Pointing(block, s))
             /\ refs'[s] \in Nat
             /\ refs[s] = 0 => refs'[s] = 0
             /\ Cardinality(Signing(signers', s)) = 0
  <2>1. /\ refs[s] = Cardinality(Pointing(block, s)) + Cardinality(Signing(signers, s))
        /\ signers \in Seq(Struct)
    BY DEF KInv, Ownership, Counts, RightCounts
  <2>2. /\ Cardinality(Pointing(block, s)) \in Nat
        /\ Cardinality(Signing(signers, s)) \in Nat
    BY <2>1, PointingFinite, SigningFinite
  <2>3. Signing(signers', s) = {}
    BY <1>1 DEF Signing
  <2>4. Cardinality(Signing(signers', s)) = 0
    BY <2>3, FS_EmptySet
  <2>5. QED
    BY <1>1, <2>1, <2>2, <2>4
<1>3. \A s \in Struct : refs'[s] = 0 <=> key'[s] = Null
  BY <1>1, <1>2 DEF KInv, Ownership, Counts, RightCounts
<1>4. Counts'
  BY <1>1, <1>2, <1>3 DEF Counts, RightCounts, Pointing
<1>5. /\ refs' \in [Struct -> Nat]
      /\ key' \in [Struct -> Certificate \cup {Null}]
      /\ signers' \in Seq(Struct)
  BY <1>1, <1>2, EmptySeq DEF KInv, Ownership
<1>6. Owned'
  BY <1>1 DEF KInv, Ownership, Owned, Used
<1>7. Ownership'
  BY <1>1, <1>4, <1>5, <1>6 DEF KInv, Ownership
<1>8. BlocksStay
  BY <1>1 DEF BlocksStay
<1>9. QED
  BY <1>1, <1>7, <1>8, PlainPreserves

\* The other operations on Key variables that change no structure.
LEMMA HandlesPreserve ==
  ASSUME KInv, NEW h \in Handle,
         \/ WrapKey(h)
         \/ \E k \in Handle : CopyKey(h, k)
         \/ \E idx \in 1 .. MaxSigners + 1 : SigningKey(h, idx)
         \/ \E v \in View : ParentKey(h, v)
  PROVE  KInv'
<1>1. CASE WrapKey(h)
  BY <1>1, SharePreserves DEF WrapKey
<1>2. ASSUME NEW k \in Handle, CopyKey(h, k)
      PROVE  KInv'
  <2>1. handle[k] \in Used(handle, view) \cup {Null}
    BY DEF Used
  <2>2. QED
    BY <1>2, <2>1, SetHandlePreserves DEF CopyKey
<1>3. ASSUME NEW idx \in 1 .. MaxSigners + 1, SigningKey(h, idx)
      PROVE  KInv'
  <2>1. CASE idx \in DOMAIN signers /\ Share(h, signers[idx])
    <3>1. signers[idx] \in Struct /\ key[signers[idx]] # Null
      BY <2>1, SigningKeysAlive
    <3>2. QED
      BY <1>3, <2>1, <3>1, SharePreserves DEF SigningKey
  <2>2. CASE SetHandle(h, Null)
    <3>1. Null \in Used(handle, view) \cup {Null}
      OBVIOUS
    <3>2. QED
      BY <1>3, <2>2, <3>1, SetHandlePreserves DEF SigningKey
  <2>3. QED
    BY <1>3, <2>1, <2>2 DEF SigningKey
<1>4. ASSUME NEW v \in View, ParentKey(h, v)
      PROVE  KInv'
  <2>1. view[v].block \in Used(handle, view) \cup {Null}
    BY DEF Used
  <2>2. QED
    BY <1>4, <2>1, SetHandlePreserves DEF ParentKey
<1>5. QED
  BY <1>1, <1>2, <1>3, <1>4

-----------------------------------------------------------------------------
\* What find_subkey() and find_uid() return is null or an element of the key, and
\* what the verifying constructors keep as well.
LEMMA FoundFits ==
  ASSUME KInv, NEW b \in Used(handle, view) \cup {Null},
         NEW kind \in {"Subkey", "UserID"}, NEW i \in Nat, NEW of
  PROVE  /\ LET n == Find(StructOf(b), kind, i)
                p == [block |-> b, kind |-> kind, i |-> n, j |-> 0]
            IN p \in Part /\ Fits(p)
         /\ LET n == Verify(StructOf(b), kind, of, i)
                p == [block |-> b, kind |-> kind, i |-> n, j |-> 0]
            IN p \in Part /\ Fits(p)
<1> USE KeysAssumption
<1> DEFINE s == StructOf(b)
<1>1. b \in Block \cup {Null} /\ (s # Null => s \in Struct /\ key[s] # Null)
  BY UsedAlive DEF StructOf
<1>2. ASSUME NEW n \in {0, Find(s, kind, i)}
      PROVE  /\ [block |-> b, kind |-> kind, i |-> n, j |-> 0] \in Part
             /\ Fits([block |-> b, kind |-> kind, i |-> n, j |-> 0])
  <2> DEFINE p == [block |-> b, kind |-> kind, i |-> n, j |-> 0]
  <2>1. p.block = b /\ p.kind = kind /\ p.i = n /\ p.j = 0 /\ kind # "Signature"
    OBVIOUS
  <2>2. n \in Nat /\ (n # 0 => s # Null /\ Has(key[s], kind, n))
    BY DEF Find
  <2>3. p \in Part
    BY <1>1, <2>2 DEF Part, Kinds
  <2> HIDE DEF p
  <2>4. Fits(p)
    BY <1>1, <2>1, <2>2 DEF Fits
  <2>5. QED
    BY <2>3, <2>4 DEF p
<1>3. Verify(s, kind, of, i) \in {0, Find(s, kind, i)}
  BY DEF Verify
<1>4. QED
  BY <1>2, <1>3

\* Signatures of a user ID, which is verified once more before.
LEMMA SignatureFits ==
  ASSUME KInv, NEW b \in Used(handle, view) \cup {Null}, NEW i \in Nat, NEW j \in Nat
  PROVE  LET s == StructOf(b)
             n == IF s = Null THEN 0 ELSE Verify(s, "UserID", s, i)
             p == [block |-> b, kind |-> "Signature", i |-> n,
                   j |-> FindSignature(s, n, j)]
         IN p \in Part /\ Fits(p)
<1> USE KeysAssumption
<1> DEFINE s == StructOf(b)
           n == IF s = Null THEN 0 ELSE Verify(s, "UserID", s, i)
           m == FindSignature(s, n, j)
           p == [block |-> b, kind |-> "Signature", i |-> n, j |-> m]
<1>1. b \in Block \cup {Null} /\ (s # Null => s \in Struct /\ key[s] # Null)
  BY UsedAlive DEF StructOf
<1>2. n \in Nat /\ (n # 0 => s # Null /\ Has(key[s], "UserID", n))
  BY DEF Verify, Find
<1>3. m \in Nat /\ (m # 0 => n # 0 /\ m \in 1 .. NumSignatures(key[s], n))
  BY DEF FindSignature
<1>4. m # 0 => m <= NumSignatures(key[s], n)
  <2>1. ASSUME m # 0
        PROVE  NumSignatures(key[s], n) \in Nat
    <3>1. key[s] \in Certificate
      BY <1>1, <1>2, <1>3, <2>1 DEF KInv, Ownership
    <3>2. key[s].uids \in Seq(Nat)
      BY <3>1 DEF Certificate
    <3>3. n \in DOMAIN key[s].uids => key[s].uids[n] \in Nat
      BY <3>2, LenProperties, ElementOfSeq
    <3>4. QED
      BY <3>3 DEF NumSignatures
  <2>2. QED
    BY <1>3, <2>1
<1>5. Has(key[s], "UserID", n) => Has(key[s], "Signature", n)
  BY DEF Has
<1>6. p.block = b /\ p.kind = "Signature" /\ p.i = n /\ p.j = m
  OBVIOUS
<1>7. p \in Part
  BY <1>1, <1>2, <1>3 DEF Part, Kinds
<1> HIDE DEF p, m, n
<1>8. Fits(p)
  BY <1>1, <1>2, <1>3, <1>4, <1>5, <1>6 DEF Fits
<1>9. QED
  BY <1>7, <1>8 DEF p, m, n

LEMMA PartsPreserve ==
  ASSUME KInv, NEW v \in View, OnPart(v)
  PROVE  KInv'
<1> USE KeysAssumption
<1>1. /\ \A h \in Handle : handle[h] \in Used(handle, view) \cup {Null}
      /\ \A w \in View : /\ view[w].block \in Used(handle, view) \cup {Null}
                         /\ view[w].i \in Nat
  BY DEF Used, KInv, Ownership
<1>2. CASE DropPart(v)
  <2>1. NoPart \in Part /\ NoPart.block = Null /\ Fits(NoPart)
    BY DEF NoPart, Part, Kinds, Fits
  <2>2. QED
    BY <1>2, <2>1, SetViewPreserves DEF DropPart
<1>3. ASSUME NEW h \in Handle, NEW kind \in Kinds, NEW i \in Index,
             PartByIndex(v, h, kind, i)
      PROVE  KInv'
  <2> DEFINE p == [block |-> handle[h], kind |-> kind,
                   i |-> Find(StructOf(handle[h]), kind, i), j |-> 0]
  <2>1. kind \in {"Subkey", "UserID"} /\ i \in Nat
    BY <1>3 DEF PartByIndex, Kinds
  <2>2. p \in Part /\ Fits(p) /\ p.block = handle[h]
    BY <1>1, <2>1, FoundFits
  <2>3. SetView(v, p) /\ UNCHANGED <<signers, listed, seen, undefined>>
    BY <1>3 DEF PartByIndex, KeyOf
  <2> HIDE DEF p
  <2>4. QED
    BY <1>1, <2>2, <2>3, SetViewPreserves
<1>4. ASSUME NEW h \in Handle, NEW kind \in Kinds, NEW i \in Index, NEW of \in Struct,
             PartByPointer(v, h, kind, of, i)
      PROVE  KInv'
  <2> DEFINE p == [block |-> handle[h], kind |-> kind,
                   i |-> Verify(StructOf(handle[h]), kind, of, i), j |-> 0]
  <2>1. kind \in {"Subkey", "UserID"} /\ i \in Nat
    BY <1>4 DEF PartByPointer, Kinds
  <2>2. p \in Part /\ Fits(p) /\ p.block = handle[h]
    BY <1>1, <2>1, FoundFits
  <2>3. SetView(v, p) /\ UNCHANGED <<signers, listed, seen, undefined>>
    BY <1>4 DEF PartByPointer, KeyOf
  <2> HIDE DEF p
  <2>4. QED
    BY <1>1, <2>2, <2>3, SetViewPreserves
<1>5. ASSUME NEW w \in View, NEW j \in Index, SignatureOf(v, w, j)
      PROVE  KInv'
  <2> DEFINE s == StructOf(view[w].block)
             n == IF s = Null THEN 0 ELSE Verify(s, "UserID", s, view[w].i)
             p == [block |-> view[w].block, kind |-> "Signature", i |-> n,
                   j |-> FindSignature(s, n, j)]
  <2>1. j \in Nat
    OBVIOUS
  <2>2. p \in Part /\ Fits(p) /\ p.block = view[w].block
    BY <1>1, <2>1, SignatureFits
  <2>3. SetView(v, p) /\ UNCHANGED <<signers, listed, seen, undefined>>
    BY <1>5 DEF SignatureOf
  <2> HIDE DEF p
  <2>4. QED
    BY <1>1, <2>2, <2>3, SetViewPreserves
<1>6. ASSUME NEW w \in View, ParentUserID(v, w)
      PROVE  KInv'
  <2> DEFINE s == StructOf(view[w].block)
             p == [block |-> view[w].block, kind |-> "UserID",
                   i |-> Verify(s, "UserID", s, view[w].i), j |-> 0]
  <2>1. p \in Part /\ Fits(p) /\ p.block = view[w].block
    BY <1>1, FoundFits
  <2>2. SetView(v, p) /\ UNCHANGED <<signers, listed, seen, undefined>>
    BY <1>6 DEF ParentUserID
  <2> HIDE DEF p
  <2>3. QED
    BY <1>1, <2>1, <2>2, SetViewPreserves
<1>7. QED
  BY <1>2, <1>3, <1>4, <1>5, <1>6 DEF OnPart

\* A key that gpgme hands over, with the reference that came with it.
LEMMA GetKeyPreserves ==
  ASSUME KInv, NEW h \in Handle, GetKey(h)
  PROVE  KInv'
<1> USE KeysAssumption
<1>1. CASE SetHandle(h, Null) /\ UNCHANGED <<signers, listed, seen, undefined>>
  BY <1>1, SetHandlePreserves
<1>2. ASSUME NEW s \in Struct, NEW c \in Listed,
             key[s] = Null,
             Adopt(h, s, [refs EXCEPT ![s] = 1], [key EXCEPT ![s] = c]),
             listed' = [listed EXCEPT ![s] = c],
             seen' = seen \cup {c},
             UNCHANGED <<signers, undefined>>
      PROVE  KInv'
  <2> DEFINE ks == [key EXCEPT ![s] = c]
             rs == [refs EXCEPT ![s] = refs[s] + 1]
  <2>1. refs[s] = 0
    BY <1>2 DEF KInv, Ownership, Counts, RightCounts
  <2>2. /\ ks \in [Struct -> Certificate \cup {Null}] /\ ks[s] = c /\ c # Null
        /\ \A t \in Struct \ {s} : ks[t] = key[t]
        /\ rs \in [Struct -> Nat]
    BY DEF KInv, Ownership
  <2>3. Adopt(h, s, rs, ks)
    BY <1>2, <2>1
  <2> HIDE DEF ks
  <2>4. /\ Ownership' /\ BlocksStay /\ view' = view
        /\ \A t \in Struct : key'[t] # Null => key'[t] = ks[t]
    BY <1>2, <2>2, <2>3, AdoptKeepsOwnership DEF KInv
  <2>5. \A t \in Struct : key'[t] # Null =>
          IF t = s THEN key'[t] = c /\ listed'[t] = c
                   ELSE key'[t] = key[t] /\ listed'[t] = listed[t]
    BY <1>2, <2>2, <2>4 DEF KInv, KeysTypeOK
  <2>6. KeysTypeOK'
    BY <1>2, <2>4 DEF KInv, KeysTypeOK, Ownership, Certificates
  <2>7. Listing'
    BY <1>2, <2>5 DEF KInv, Listing, SameShape
  <2>8. ShapesStay
    BY <1>2, <2>5 DEF ShapesStay, SameShape
  <2>9. \A v \in View : Fits(view[v])'
    <3>1. ASSUME NEW v \in View
          PROVE  Fits(view[v])'
      <4>1. PICK p \in Part : p = view[v]
        BY DEF KInv, Ownership, Part
      <4>2. Fits(p) /\ p.block \in Used(handle, view) /\ p.block \in Used(handle', view')
        BY <2>4, <4>1 DEF KInv, Used
      <4>3. Fits(p)'
        BY <2>4, <2>8, <4>2, PartStays DEF KInv
      <4>4. QED
        BY <2>4, <4>1, <4>3 DEF Fits, StructOf
    <3>2. QED
      BY <3>1
  <2>10. UndefinedIsKnown'
    BY <1>2 DEF KInv, UndefinedIsKnown
  <2>11. ASSUME NEW t \in Struct, key'[t] # Null
         PROVE  Traced(t)'
    <3>1. CASE t = s
      BY <2>5, <2>11, <3>1 DEF Traced
    <3>2. CASE t # s
      <4>1. /\ Traced(t) /\ key'[t] = key[t] /\ listed'[t] = listed[t]
            /\ seen \subseteq seen'
        BY <1>2, <2>5, <2>11, <3>2 DEF KInv
      <4>2. QED
        BY <4>1 DEF Traced
    <3>3. QED
      BY <3>1, <3>2
  <2>12. QED
    BY <2>4, <2>6, <2>7, <2>9, <2>10, <2>11 DEF KInv
<1>3. QED
  BY <1>1, <1>2 DEF GetKey

\* What gpgme listed of a structure, when the structure has a primary fingerprint.
LEMMA ListedOf ==
  ASSUME KInv, NEW s \in Struct, key[s] # Null
  PROVE  /\ key[s] \in Certificate /\ listed[s] \in Certificate /\ listed[s] \in seen
         /\ SameShape(key[s], listed[s])
         /\ PrimaryFingerprint(key[s]) = PrimaryFingerprint(listed[s])
         /\ Len(key[s].subkeys) \in Nat
         /\ DOMAIN key[s].subkeys = 1 .. Len(key[s].subkeys)
         /\ DOMAIN listed[s].subkeys = 1 .. Len(key[s].subkeys)
<1> USE KeysAssumption
<1>1. key[s] \in Certificate /\ SameShape(key[s], listed[s]) /\ listed[s] \in seen
  BY DEF KInv, Ownership, Listing
<1>2. listed[s] \in Certificate
  BY <1>1 DEF KInv, KeysTypeOK
<1>3. PrimaryFingerprint(key[s]) = PrimaryFingerprint(listed[s])
  BY <1>1, <1>2, ShapeGivesPrimary
<1>4. /\ key[s].subkeys \in Seq([fpr : {Null} \cup STRING, keyid : STRING, card : BOOLEAN])
      /\ listed[s].subkeys \in Seq([fpr : {Null} \cup STRING, keyid : STRING, card : BOOLEAN])
  BY <1>1, <1>2 DEF Certificate
<1>5. /\ Len(key[s].subkeys) \in Nat
      /\ DOMAIN key[s].subkeys = 1 .. Len(key[s].subkeys)
      /\ DOMAIN listed[s].subkeys = 1 .. Len(listed[s].subkeys)
  BY <1>4, LenProperties
<1>6. QED
  BY <1>1, <1>2, <1>3, <1>5 DEF SameShape

\* Merged keys have the same primary fingerprint, so what the other key had from
\* keys of its fingerprint is had from keys of this one's.
LEMMA MergedIsTraced ==
  ASSUME KInv, NEW me \in Struct, NEW him \in Struct,
         key[me] # Null, key[him] # Null, SameKey(key[me], key[him]),
         key'[me] = Merged(key[me], key[him]), UNCHANGED <<listed, seen>>
  PROVE  Traced(me)'
<1> DEFINE same(s) == {c \in seen : SameKey(c, listed[s])} \cup {listed[s]}
           new == Merged(key[me], key[him])
<1>1. Traced(me) /\ Traced(him)
  BY DEF KInv
<1>2. same(him) \subseteq same(me)
  <2>1. /\ PrimaryFingerprint(listed[me]) = PrimaryFingerprint(listed[him])
        /\ PrimaryFingerprint(listed[me]) # Null
    BY ListedOf DEF SameKey
  <2>2. listed[him] \in seen
    BY ListedOf
  <2>3. QED
    BY <2>1, <2>2 DEF SameKey
<1>3. /\ new.flags = key[me].flags \cup (key[him].flags \cap MergedFlags)
      /\ new.mode = key[me].mode \cup key[him].mode
      /\ new # Null
      /\ DOMAIN new.subkeys = DOMAIN key[me].subkeys
      /\ \A n \in DOMAIN key[me].subkeys :
           new.subkeys[n].card =>
             \/ key[me].subkeys[n].card
             \/ \E m \in DOMAIN key[him].subkeys :
                  /\ key[him].subkeys[m].card
                  /\ key[him].subkeys[m].fpr = key[me].subkeys[n].fpr
  BY ListedOf, MergedKeepsShape, KeysAssumption
<1>4. ASSUME NEW f \in MergedFlags
      PROVE  /\ Says(listed[me], f) => Says(new, f)
             /\ Says(new, f) => \E c \in same(me) : Says(c, f)
  <2>1. /\ Says(listed[me], f) => Says(key[me], f)
        /\ Says(key[me], f) => \E c \in same(me) : Says(c, f)
        /\ Says(key[him], f) => \E c \in same(him) : Says(c, f)
    BY <1>1 DEF Traced
  <2>2. Says(new, f) <=> Says(key[me], f) \/ Says(key[him], f)
    BY <1>3 DEF Says
  <2> HIDE DEF same, new
  <2>3. QED
    BY <1>2, <2>1, <2>2
<1>5. new.mode \subseteq UNION {c.mode : c \in same(me)}
  <2>1. /\ key[me].mode \subseteq UNION {c.mode : c \in same(me)}
        /\ key[him].mode \subseteq UNION {c.mode : c \in same(him)}
    BY <1>1 DEF Traced
  <2> HIDE DEF same, new
  <2>2. QED
    BY <1>2, <1>3, <2>1
<1>6. ASSUME NEW n \in DOMAIN new.subkeys, new.subkeys[n].card
      PROVE  \E c \in same(me) : \E m \in DOMAIN c.subkeys :
               /\ c.subkeys[m].card
               /\ c.subkeys[m].fpr = listed[me].subkeys[n].fpr
  <2>1. /\ n \in DOMAIN key[me].subkeys
        /\ key[me].subkeys[n].fpr = listed[me].subkeys[n].fpr
    BY <1>3, ListedOf DEF SameShape
  <2>2. CASE key[me].subkeys[n].card
    BY <1>1, <2>1, <2>2 DEF Traced
  <2>3. ASSUME NEW m \in DOMAIN key[him].subkeys,
               key[him].subkeys[m].card,
               key[him].subkeys[m].fpr = key[me].subkeys[n].fpr
        PROVE  \E c \in same(me) : \E l \in DOMAIN c.subkeys :
                 /\ c.subkeys[l].card
                 /\ c.subkeys[l].fpr = listed[me].subkeys[n].fpr
    <3>1. \E c \in same(him) : \E l \in DOMAIN c.subkeys :
            /\ c.subkeys[l].card
            /\ c.subkeys[l].fpr = listed[him].subkeys[m].fpr
      BY <1>1, <2>3 DEF Traced
    <3>2. key[him].subkeys[m].fpr = listed[him].subkeys[m].fpr
      BY ListedOf DEF SameShape
    <3> HIDE DEF same
    <3>3. QED
      BY <1>2, <2>1, <2>3, <3>1, <3>2
  <2>4. QED
    BY <1>3, <1>6, <2>1, <2>2, <2>3
<1> HIDE DEF new
<1>7. QED
  BY <1>4, <1>5, <1>6 DEF Traced, new

\* Nothing that the references rest on changes.
LEMMA OwnershipUnchanged ==
  ASSUME Ownership,
         UNCHANGED <<refs, block, handle, view, signers>>,
         key' \in [Struct -> Certificate \cup {Null}],
         \A s \in Struct : key'[s] = Null <=> key[s] = Null
  PROVE  Ownership'
<1>1. Counts'
  <2>1. ASSUME NEW s \in Struct
        PROVE  /\ refs'[s] = Cardinality(Pointing(block', s)) + Cardinality(Signing(signers', s))
               /\ refs'[s] = 0 <=> key'[s] = Null
    <3>1. /\ refs[s] = Cardinality(Pointing(block, s)) + Cardinality(Signing(signers, s))
          /\ refs[s] = 0 <=> key[s] = Null
      BY DEF Ownership, Counts, RightCounts
    <3>2. /\ Pointing(block', s) = Pointing(block, s)
          /\ Signing(signers', s) = Signing(signers, s)
          /\ refs'[s] = refs[s]
      BY Zenon
    <3>3. QED
      BY <3>1, <3>2
  <2>2. QED
    BY <2>1 DEF Counts, RightCounts
<1>2. Owned'
  BY DEF Ownership, Owned, Used
<1>3. QED
  BY <1>1, <1>2 DEF Ownership

LEMMA MergeWithPreserves ==
  ASSUME KInv, NEW h \in Handle, NEW k \in Handle, MergeWith(h, k)
  PROVE  KInv'
<1> USE KeysAssumption
<1> DEFINE me == KeyOf(h)  him == KeyOf(k)
<1>1. /\ me # Null /\ him # Null
      /\ SameKey(key[me], key[him])
      /\ UNCHANGED <<refs, block, handle, view, signers, listed, seen>>
  BY DEF MergeWith, owners
<1>2. /\ me \in Struct /\ key[me] # Null
      /\ him \in Struct /\ key[him] # Null
  <2>1. /\ handle[h] \in Used(handle, view) /\ handle[h] # Null
        /\ handle[k] \in Used(handle, view) /\ handle[k] # Null
    BY <1>1 DEF Used, KeyOf, StructOf
  <2>2. QED
    BY <2>1, UsedAlive DEF KeyOf
<1>3. CASE /\ undefined' = TRUE /\ key' = key
           /\ \E n \in DOMAIN key[me].subkeys :
                ComparesNull(key[me].subkeys[n], key[him].subkeys)
  <2> HIDE DEF me, him
  <2>1. /\ PrimaryFingerprint(listed[me]) # Null
        /\ PrimaryFingerprint(listed[him]) # Null
        /\ listed[me] \in seen /\ listed[him] \in seen
    BY <1>1, <1>2, ListedOf DEF SameKey
  <2>2. \/ \E n \in DOMAIN listed[me].subkeys : listed[me].subkeys[n].fpr = Null
        \/ \E n \in DOMAIN listed[him].subkeys : listed[him].subkeys[n].fpr = Null
    <3>1. PICK n \in DOMAIN key[me].subkeys, m \in DOMAIN key[him].subkeys :
            Null \in {key[me].subkeys[n].fpr, key[him].subkeys[m].fpr}
      BY <1>3 DEF ComparesNull
    <3>2. /\ n \in DOMAIN listed[me].subkeys /\ m \in DOMAIN listed[him].subkeys
          /\ key[me].subkeys[n].fpr = listed[me].subkeys[n].fpr
          /\ key[him].subkeys[m].fpr = listed[him].subkeys[m].fpr
      BY <1>2, ListedOf DEF SameShape
    <3>3. QED
      BY <3>1, <3>2
  <2>3. UndefinedIsKnown'
    BY <1>1, <2>1, <2>2 DEF UndefinedIsKnown
  <2>4. KeysTypeOK'
    BY <1>1, <1>3 DEF KInv, KeysTypeOK
  <2>5. Ownership' /\ Listing'
    <3>1. Ownership /\ key \in [Struct -> Certificate \cup {Null}]
      BY DEF KInv, Ownership
    <3>2. Ownership'
      BY <1>1, <1>3, <3>1, OwnershipUnchanged
    <3>3. Listing'
      BY <1>1, <1>3 DEF KInv, Listing
    <3>4. QED
      BY <3>2, <3>3
  <2>6. \A v \in View : Fits(view[v])'
    BY <1>1, <1>3 DEF KInv, Fits, StructOf
  <2>7. \A s \in Struct : key'[s] # Null => Traced(s)'
    BY <1>1, <1>3 DEF KInv, Traced
  <2>8. QED
    BY <2>3, <2>4, <2>5, <2>6, <2>7 DEF KInv
<1>4. CASE /\ key' = [key EXCEPT ![me] = Merged(key[me], key[him])]
           /\ UNCHANGED undefined
  <2> DEFINE new == Merged(key[me], key[him])
  <2>1. new \in Certificate /\ new # Null /\ SameShape(new, key[me])
    BY <1>2, ListedOf, MergedKeepsShape
  <2> HIDE DEF me, him
  <2>2. \A s \in Struct : key'[s] = IF s = me THEN new ELSE key[s]
    BY <1>2, <1>4 DEF KInv, Ownership
  <2>3. KeysTypeOK'
    BY <1>1, <1>4, <2>1 DEF KInv, KeysTypeOK
  <2>4. \A s \in Struct : key'[s] = Null <=> key[s] = Null
    BY <1>2, <2>1, <2>2
  <2>5. Ownership /\ key' \in [Struct -> Certificate \cup {Null}]
    BY <1>4, <2>1 DEF KInv, Ownership
  <2>7. Ownership'
    BY <1>1, <2>4, <2>5, OwnershipUnchanged
  <2>8. ShapesStay
    BY <2>1, <2>2 DEF ShapesStay, SameShape
  <2>9. Listing'
    BY <1>1, <1>2, <2>1, <2>2 DEF KInv, Listing, SameShape
  <2>10. BlocksStay
    BY <1>1 DEF BlocksStay
  <2>11. ASSUME NEW v \in View
         PROVE  Fits(view[v])'
    <3>1. PICK p \in Part : p = view[v]
      BY DEF KInv, Ownership, Part
    <3>2. Fits(p) /\ p.block \in Used(handle, view) /\ p.block \in Used(handle', view')
      BY <1>1, <3>1 DEF KInv, Used
    <3>3. Fits(p)'
      BY <2>7, <2>8, <2>10, <3>2, PartStays DEF KInv
    <3>4. QED
      BY <1>1, <3>1, <3>3 DEF Fits, StructOf
  <2>12. UndefinedIsKnown'
    BY <1>1, <1>4 DEF KInv, UndefinedIsKnown
  <2>13. ASSUME NEW s \in Struct, key'[s] # Null
         PROVE  Traced(s)'
    <3>1. CASE s = me
      <4>1. key'[me] = Merged(key[me], key[him])
        BY <1>2, <2>2
      <4>2. QED
        BY <1>1, <1>2, <3>1, <4>1, MergedIsTraced
    <3>2. CASE s # me
      BY <1>1, <2>2, <2>13, <3>2 DEF KInv, Traced
    <3>3. QED
      BY <3>1, <3>2
  <2>14. QED
    BY <2>3, <2>7, <2>9, <2>11, <2>12, <2>13 DEF KInv
<1>5. QED
  BY <1>3, <1>4 DEF MergeWith

-----------------------------------------------------------------------------
LEMMA NextPreserves == KInv /\ [KeysNext]_keyVars => KInv'
<1> SUFFICES ASSUME KInv, [KeysNext]_keyVars
             PROVE  KInv'
  OBVIOUS
<1>1. ASSUME NEW h \in Handle, OnKey(h)
      PROVE  KInv'
  BY <1>1, GetKeyPreserves, HandlesPreserve, AddSigningKeyPreserves, MergeWithPreserves
     DEF OnKey
<1>2. ASSUME NEW v \in View, OnPart(v)
      PROVE  KInv'
  BY <1>2, PartsPreserve
<1>3. CASE ClearSigningKeys
  BY <1>3, ClearSigningKeysPreserves
<1>4. CASE UNCHANGED keyVars
  <2>1. UNCHANGED <<key, refs, block, handle, view, signers, listed, seen, undefined>>
    BY <1>4 DEF keyVars, owners
  <2>2. KeysTypeOK' /\ Ownership'
    <3>1. KeysTypeOK'
      BY <2>1 DEF KInv, KeysTypeOK
    <3>2. Ownership /\ key \in [Struct -> Certificate \cup {Null}]
      BY DEF KInv, Ownership
    <3>3. QED
      BY <2>1, <3>1, <3>2, OwnershipUnchanged
  <2>3. Listing' /\ UndefinedIsKnown'
    BY <2>1 DEF KInv, Listing, UndefinedIsKnown
  <2>4. \A v \in View : Fits(view[v])'
    BY <2>1 DEF KInv, Fits, StructOf
  <2>5. \A s \in Struct : key'[s] # Null => Traced(s)'
    BY <2>1 DEF KInv, Traced
  <2>6. QED
    BY <2>2, <2>3, <2>4, <2>5 DEF KInv
<1>5. QED
  BY <1>1, <1>2, <1>3, <1>4 DEF KeysNext

LEMMA Invariance == KeysSpec => []KInv
<1>1. QED
  BY InitEstablishes, NextPreserves, PTL DEF KeysSpec

\* gpgme's counts are those of the owners, so that no key is freed while a Key, a
\* part or the list of signing keys refers to it and none is left behind, for
\* any number of variables and any sequence of operations.
THEOREM KeysCounted == KeysSpec => []ReferencesBalanced
<1>1. QED
  BY Invariance, InvariantMeans, PTL

\* Subkeys, user IDs and signatures read the lists of the key they hold.
THEOREM PartsReadTheirKey == KeysSpec => []PartsBelong
<1>1. QED
  BY Invariance, InvariantMeans, PTL

\* What mergeWith() adds to a key was listed for a key with its primary
\* fingerprint, through any chain of merges, and nothing listed is lost.
THEOREM MergesTraced == KeysSpec => []MergedFromSameKey
<1>1. QED
  BY Invariance, InvariantMeans, PTL

-----------------------------------------------------------------------------
\* The objects that refer to item i.
Holding(of, i) == {x \in TrustVar : of[x] = i}

Same(i, j)    == IF i = j THEN 1 ELSE 0
Among(i, hs)  == IF i \in hs THEN 1 ELSE 0

\* The counts are right for these objects and items handed over.
ItemsCounted(rs, of, hs) ==
  \A i \in Item : rs[i] = Cardinality(Holding(of, i)) + Among(i, hs)

LEMMA TrustReferencesAre ==
  TrustReferences <=> TrustTypeOK /\ ItemsCounted(itemRefs, itemOf, handed)
BY DEF TrustReferences, ItemsCounted, Holding, Same, Among

LEMMA HoldingFinite ==
  ASSUME NEW of, NEW i
  PROVE  IsFiniteSet(Holding(of, i)) /\ Cardinality(Holding(of, i)) \in Nat
<1>1. IsFiniteSet(Holding(of, i))
  BY TrustAssumption, FS_Subset DEF Holding
<1>2. QED
  BY <1>1, FS_CardinalityType

\* Whoever turned from item k to item j counts there now.
Turned(of, ofs, k, j, i) ==
  Cardinality(Holding(ofs, i)) + Same(k, i) = Cardinality(Holding(of, i)) + Same(j, i)

\* An object that turns from one item to another leaves the former.
LEMMA HoldingMoves ==
  ASSUME NEW of \in [TrustVar -> Item \cup {NoItem}], NEW ofs,
         NEW x \in TrustVar, NEW j \in Item \cup {NoItem}, NEW i \in Item,
         ofs = [of EXCEPT ![x] = j]
  PROVE  Turned(of, ofs, of[x], j, i)
<1> DEFINE before == Holding(of, i)
           after == Holding(ofs, i)
<1>1. /\ IsFiniteSet(before) /\ Cardinality(before) \in Nat
      /\ IsFiniteSet(after) /\ Cardinality(after) \in Nat
  BY HoldingFinite
<1>2. CASE of[x] = i /\ j = i
  <2>1. after = before
    BY <1>2 DEF Holding
  <2>2. QED
    BY <1>1, <1>2, <2>1 DEF Same, Turned
<1>3. CASE of[x] # i /\ j # i
  <2>1. after = before
    BY <1>3 DEF Holding
  <2>2. QED
    BY <1>1, <1>3, <2>1 DEF Same, Turned
<1>4. CASE of[x] = i /\ j # i
  <2>1. x \notin after /\ before = after \cup {x}
    BY <1>4 DEF Holding
  <2> HIDE DEF before, after
  <2>2. Cardinality(before) = Cardinality(after) + 1
    BY <1>1, <2>1, CountAdded
  <2>3. QED
    BY <1>1, <1>4, <2>2 DEF Same, Turned, before, after
<1>5. CASE of[x] # i /\ j = i
  <2>1. x \notin before /\ after = before \cup {x}
    BY <1>5 DEF Holding
  <2> HIDE DEF before, after
  <2>2. Cardinality(after) = Cardinality(before) + 1
    BY <1>1, <2>1, CountAdded
  <2>3. QED
    BY <1>1, <1>5, <2>2 DEF Same, Turned, before, after
<1>6. QED
  BY <1>2, <1>3, <1>4, <1>5 DEF Turned

\* The new object has counted itself, and hs is handed by now.
LEMMA SetItemCounts ==
  ASSUME TrustReferences,
         NEW x \in TrustVar, NEW j \in Item \cup {NoItem}, NEW rs \in [Item -> Nat],
         NEW hs \in SUBSET Item,
         \A i \in Item : rs[i] = Cardinality(Holding(itemOf, i)) + Same(j, i) + Among(i, hs),
         SetItem(x, j, rs), handed' = hs
  PROVE  TrustReferences'
<1>1. /\ itemOf \in [TrustVar -> Item \cup {NoItem}]
      /\ itemOf' = [itemOf EXCEPT ![x] = j]
      /\ itemOf' \in [TrustVar -> Item \cup {NoItem}]
  BY DEF TrustReferences, TrustTypeOK, SetItem
<1>2. ASSUME NEW i \in Item
      PROVE  /\ itemRefs'[i] = rs[i] - Same(itemOf[x], i)
             /\ itemRefs'[i] = Cardinality(Holding(itemOf', i)) + Among(i, handed')
             /\ itemRefs'[i] \in Nat
  <2>1. itemRefs'[i] = rs[i] - Same(itemOf[x], i)
    BY <1>1, TrustAssumption DEF SetItem, Same
  <2>2. /\ Cardinality(Holding(itemOf, i)) \in Nat
        /\ Cardinality(Holding(itemOf', i)) \in Nat
    BY HoldingFinite
  <2>3. Turned(itemOf, itemOf', itemOf[x], j, i)
    BY <1>1, HoldingMoves
  <2>4. rs[i] = Cardinality(Holding(itemOf, i)) + Same(j, i) + Among(i, handed')
    OBVIOUS
  <2>5. QED
    BY <2>1, <2>2, <2>3, <2>4 DEF Same, Among, Turned
<1>3. itemRefs' = [i \in Item |-> itemRefs'[i]]
  BY TrustAssumption DEF SetItem
<1>4. itemRefs' \in [Item -> Nat]
  BY <1>2, <1>3
<1>5. TrustTypeOK' /\ ItemsCounted(itemRefs', itemOf', handed')
  BY <1>1, <1>2, <1>4 DEF TrustTypeOK, ItemsCounted
<1>6. QED
  BY <1>5 DEF TrustReferences, TrustTypeOK, ItemsCounted, Holding, Same, Among
LEMMA TrustNextPreserves == TrustReferences /\ [TrustNext]_trustVars => TrustReferences'
<1> SUFFICES ASSUME TrustReferences, [TrustNext]_trustVars
             PROVE  TrustReferences'
  OBVIOUS
<1> USE TrustAssumption
<1>1. /\ itemRefs \in [Item -> Nat]
      /\ itemOf \in [TrustVar -> Item \cup {NoItem}]
      /\ handed \in SUBSET Item
      /\ \A i \in Item : /\ itemRefs[i] = Cardinality(Holding(itemOf, i)) + Among(i, handed)
                         /\ Cardinality(Holding(itemOf, i)) \in Nat
  BY HoldingFinite, TrustReferencesAre DEF TrustTypeOK, ItemsCounted
\* An object for item j that counted itself, and nothing is handed over.
<1>2. ASSUME NEW x \in TrustVar, NEW j \in Item \cup {NoItem},
             SetItem(x, j, Counted(j)), UNCHANGED handed
      PROVE  TrustReferences'
  <2> DEFINE rs == Counted(j)
  <2>1. rs \in [Item -> Nat]
    BY <1>1 DEF Counted
  <2>2. \A i \in Item : rs[i] = Cardinality(Holding(itemOf, i)) + Same(j, i) + Among(i, handed)
    BY <1>1 DEF Counted, Same, Among
  <2>3. SetItem(x, j, rs) /\ handed' = handed
    BY <1>2
  <2> HIDE DEF rs
  <2>4. QED
    BY <1>1, <2>1, <2>2, <2>3, SetItemCounts
<1>3. ASSUME NEW x \in TrustVar, NextTrustItem(x)
      PROVE  TrustReferences'
  <2>1. ASSUME NEW j \in Item, itemRefs[j] = 0,
               SetItem(x, j, [Counted(j) EXCEPT ![j] = @ + 1]),
               handed' = handed \cup {j}
        PROVE  TrustReferences'
    <3> DEFINE rs == [Counted(j) EXCEPT ![j] = @ + 1]
    <3>1. rs \in [Item -> Nat]
      BY <1>1 DEF Counted
    <3>2. j \notin handed
      BY <1>1, <2>1 DEF Same, Among
    <3>3. \A i \in Item : rs[i] = Cardinality(Holding(itemOf, i)) + Same(j, i)
                                    + Among(i, handed')
      BY <1>1, <2>1, <3>2 DEF Counted, Same, Among
    <3>4. SetItem(x, j, rs) /\ handed' \in SUBSET Item
      BY <1>1, <2>1
    <3> HIDE DEF rs
    <3>5. QED
      BY <3>1, <3>3, <3>4, SetItemCounts
  <2>2. ASSUME SetItem(x, NoItem, Counted(NoItem)), UNCHANGED handed
        PROVE  TrustReferences'
    BY <1>2, <2>2
  <2>3. QED
    BY <1>3, <2>1, <2>2 DEF NextTrustItem
<1>4. ASSUME NEW x \in TrustVar, TrustItemEvent(x)
      PROVE  TrustReferences'
  BY <1>2, <1>4 DEF TrustItemEvent
<1>5. ASSUME NEW x \in TrustVar, DropItem(x)
      PROVE  TrustReferences'
  <2>1. SetItem(x, NoItem, Counted(NoItem)) /\ UNCHANGED handed
    BY <1>5 DEF DropItem, Counted
  <2>2. QED
    BY <1>2, <2>1
<1>6. ASSUME NEW x \in TrustVar, NEW y \in TrustVar, CopyItem(x, y)
      PROVE  TrustReferences'
  <2>1. itemOf[y] \in Item \cup {NoItem}
    BY <1>1
  <2>2. QED
    BY <1>2, <1>6, <2>1 DEF CopyItem
<1>7. CASE UNCHANGED trustVars
  BY <1>1, <1>7 DEF trustVars, TrustReferences, TrustTypeOK
<1>8. QED
  BY <1>3, <1>4, <1>5, <1>6, <1>7 DEF TrustNext

LEMMA TrustInitCounts == TrustInit => TrustReferences
<1> SUFFICES ASSUME TrustInit
             PROVE  TrustReferences
  OBVIOUS
<1>1. ASSUME NEW i \in Item
      PROVE  Cardinality({x \in TrustVar : itemOf[x] = i}) = 0
  <2>1. {x \in TrustVar : itemOf[x] = i} = {}
    BY TrustAssumption DEF TrustInit
  <2>2. QED
    BY <2>1, FS_EmptySet
<1>2. QED
  BY <1>1 DEF TrustInit, TrustReferences, TrustTypeOK

\* However TrustItem objects are made, copied and destroyed, gpgme counts each
\* of them once, and the references nextTrustItem() was given on top.
THEOREM TrustItemsCounted == TrustSpec => []TrustReferences
<1>1. QED
  BY TrustInitCounts, TrustNextPreserves, PTL DEF TrustSpec
-----------------------------------------------------------------------------
(* Key list results *)

\* The value of variable v when the shared_ptrs, the flags and the errors are these.
Entry(ds, ts, es, v) ==
  [data |-> ds[v] # NoCell, truncated |-> ds[v] # NoCell /\ ts[ds[v]], error |-> es[v]]

\* The other variables keep their Private, and that keeps its flag.
OthersKeep(v) ==
  \A w \in Var \ {v} :
    d'[w] = d[w] /\ (d[w] # NoCell => truncated'[d[w]] = truncated[d[w]])

Pointers == d \in [Var -> Cell \cup {NoCell}] /\ truncated \in [Cell -> BOOLEAN]

LEMMA NewCellIsFresh ==
  ASSUME Pointers, NEW v \in Var, NEW t \in BOOLEAN, NewCell(v, t)
  PROVE  /\ Pointers' /\ OthersKeep(v)
         /\ d'[v] # NoCell /\ truncated'[d'[v]] = t
<1> USE KeyListAssumption
<1> DEFINE c == CHOOSE c \in Cell : \A w \in Var : d[w] # c
<1>1. c \in Cell /\ \A w \in Var : d[w] # c
  BY DEF Pointers
<1>2. /\ d' = [d EXCEPT ![v] = c]
      /\ truncated' = [b \in Cell |-> [truncated EXCEPT ![c] = t][b] /\ \E w \in Var : d'[w] = b]
  BY DEF NewCell, Shared
<1> HIDE DEF c
<1>3. d'[v] = c /\ \A w \in Var \ {v} : d'[w] = d[w] /\ d[w] # c
  BY <1>1, <1>2 DEF Pointers
<1>4. truncated'[c] = t
  BY <1>1, <1>2, <1>3 DEF Pointers
<1>5. ASSUME NEW w \in Var \ {v}, d[w] # NoCell
      PROVE  truncated'[d[w]] = truncated[d[w]]
  <2>1. d[w] \in Cell /\ d[w] # c /\ \E x \in Var : d'[x] = d[w]
    BY <1>3, <1>5 DEF Pointers
  <2>2. QED
    BY <1>2, <2>1 DEF Pointers
<1>6. Pointers'
  <2>1. d' \in [Var -> Cell \cup {NoCell}]
    BY <1>1, <1>2 DEF Pointers
  <2>2. truncated' \in [Cell -> BOOLEAN]
    BY <1>2, Zenon
  <2>3. QED
    BY <2>1, <2>2 DEF Pointers
<1>7. QED
  BY <1>1, <1>3, <1>4, <1>5, <1>6 DEF OthersKeep

\* v takes over the Private p of some variable, or none.
LEMMA PointsElsewhere ==
  ASSUME Pointers, NEW v \in Var, NEW p,
         p = NoCell \/ \E w \in Var : p = d[w],
         Shared([d EXCEPT ![v] = p], truncated)
  PROVE  /\ Pointers' /\ OthersKeep(v)
         /\ d'[v] = p /\ (p # NoCell => truncated'[p] = truncated[p])
<1> USE KeyListAssumption
<1>1. /\ d' = [d EXCEPT ![v] = p]
      /\ truncated' = [b \in Cell |-> truncated[b] /\ \E w \in Var : d'[w] = b]
  BY DEF Shared
<1>2. p \in Cell \cup {NoCell}
  BY DEF Pointers
<1>3. d'[v] = p /\ \A w \in Var \ {v} : d'[w] = d[w]
  BY <1>1 DEF Pointers
<1>4. ASSUME NEW w \in Var, d'[w] # NoCell
      PROVE  truncated'[d'[w]] = truncated[d'[w]]
  <2>1. d'[w] \in Cell
    BY <1>2, <1>3, <1>4 DEF Pointers
  <2>2. QED
    BY <1>1, <2>1 DEF Pointers
<1>5. d' \in [Var -> Cell \cup {NoCell}] /\ truncated' \in [Cell -> BOOLEAN]
  <2>1. d' \in [Var -> Cell \cup {NoCell}]
    BY <1>1, <1>2 DEF Pointers
  <2>2. truncated' \in [Cell -> BOOLEAN]
    BY <1>1, Zenon
  <2>3. QED
    BY <2>1, <2>2
<1>6. QED
  BY <1>3, <1>4, <1>5 DEF Pointers, OthersKeep
LEMMA DetachIsOwn ==
  ASSUME Pointers, NEW v \in Var, Detach(v)
  PROVE  /\ Pointers' /\ OthersKeep(v)
         /\ d'[v] # NoCell /\ truncated'[d'[v]] = TRUE
<1>1. CASE d[v] # NoCell /\ Unique(v)
  <2>1. /\ d[v] \in Cell /\ d' = d
        /\ truncated' = [truncated EXCEPT ![d[v]] = TRUE]
    BY <1>1 DEF Detach, Pointers
  <2>2. OthersKeep(v)
    BY <1>1, <2>1 DEF OthersKeep, Unique, Pointers
  <2>3. truncated'[d'[v]] = TRUE
    BY <2>1 DEF Pointers
  <2>4. QED
    BY <1>1, <2>1, <2>2, <2>3 DEF Pointers
<1>2. CASE NewCell(v, TRUE)
  BY <1>2, NewCellIsFresh
<1>3. QED
  BY <1>1, <1>2 DEF Detach

\* What changes one variable changes one value.
LEMMA OneEntryChanges ==
  ASSUME Pointers, Pointers', error \in [Var -> ListError], NEW v \in Var, OthersKeep(v),
         NEW e \in ListError, HasError(v, e)
  PROVE  /\ Entries' = [Entries EXCEPT ![v] = [data |-> d'[v] # NoCell,
                                               truncated |-> d'[v] # NoCell /\ truncated'[d'[v]],
                                               error |-> e]]
         /\ error' \in [Var -> ListError]
<1>1. error' = [error EXCEPT ![v] = e] /\ error' \in [Var -> ListError] /\ error'[v] = e
  BY DEF HasError
<1>2. ASSUME NEW w \in Var \ {v}
      PROVE  Entry(d', truncated', error', w) = Entry(d, truncated, error, w)
  BY <1>1 DEF Entry, OthersKeep
<1>3. Entry(d', truncated', error', v)
        = [data |-> d'[v] # NoCell, truncated |-> d'[v] # NoCell /\ truncated'[d'[v]],
           error |-> e]
  BY <1>1 DEF Entry
<1>4. QED
  BY <1>1, <1>2, <1>3 DEF Entries, Entry, IsTruncated

\* v.mergeWith(w) gives v the merged value and leaves every other alone.
LEMMA MergeGivesMerged ==
  ASSUME ListTypeOK, NEW v \in Var, NEW w \in Var, MergeList(v, w)
  PROVE  /\ ListTypeOK'
         /\ Entries' = [Entries EXCEPT ![v] = Values!Merge(Entries[v], Entries[w])]
<1> USE KeyListAssumption
<1> DEFINE x == Entries[v]  y == Entries[w]
<1>1. /\ Pointers /\ error \in [Var -> ListError]
      /\ x = Entry(d, truncated, error, v) /\ y = Entry(d, truncated, error, w)
  BY DEF ListTypeOK, Pointers, Entries, Entry, IsTruncated
<1>2. /\ x.data = (d[v] # NoCell) /\ x.truncated = IsTruncated(v) /\ x.error = error[v]
      /\ y.data = (d[w] # NoCell) /\ y.truncated = IsTruncated(w) /\ y.error = error[w]
      /\ IsTruncated(v) \in BOOLEAN /\ IsTruncated(w) \in BOOLEAN
  BY <1>1 DEF Entry, IsTruncated
<1>3. /\ Values!IsNull(x) <=> IsNullResult(v)
      /\ Values!IsNull(y) <=> IsNullResult(w)
  BY <1>2 DEF Values!IsNull, IsNullResult, Values!Failed, Failed, Values!NoError, NoError,
              Values!Canceled, Canceled
<1>4. ~Values!IsNull(y)
  BY <1>3 DEF MergeList
<1>5. CASE IsNullResult(v) /\ Assigned(v, w)
  <2>1. Shared([d EXCEPT ![v] = d[w]], truncated) /\ HasError(v, error[w])
    BY <1>5 DEF Assigned
  <2>2. /\ Pointers' /\ OthersKeep(v)
        /\ d'[v] = d[w] /\ (d[w] # NoCell => truncated'[d[w]] = truncated[d[w]])
    BY <1>1, <2>1, PointsElsewhere
  <2>3. /\ Entries' = [Entries EXCEPT ![v] = [data |-> d'[v] # NoCell,
                                               truncated |-> d'[v] # NoCell /\ truncated'[d'[v]],
                                               error |-> error[w]]]
        /\ error' \in [Var -> ListError]
    BY <1>1, <2>1, <2>2, OneEntryChanges
  <2>4. [data |-> d'[v] # NoCell, truncated |-> d'[v] # NoCell /\ truncated'[d'[v]],
         error |-> error[w]] = y
    BY <1>1, <2>2 DEF Entry
  <2>5. Values!Merge(x, y) = y
    BY <1>3, <1>4, <1>5 DEF Values!Merge
  <2>6. QED
    BY <2>2, <2>3, <2>4, <2>5 DEF ListTypeOK, Pointers
<1>6. CASE ~IsNullResult(v) /\ HasError(v, MergedError(v, w))
           /\ \/ IsTruncated(w) /\ ~IsTruncated(v) /\ Detach(v)
              \/ ~(IsTruncated(w) /\ ~IsTruncated(v)) /\ UNCHANGED <<d, truncated>>
  <2> DEFINE e == MergedError(v, w)
             r == [data      |-> x.data \/ y.truncated,
                   truncated |-> x.truncated \/ y.truncated,
                   error     |-> e]
  <2>1. Values!Merge(x, y) = r
    BY <1>2, <1>3, <1>4, <1>6
       DEF Values!Merge, MergedError, Values!Failed, Failed, Values!NoError, NoError,
           Values!Canceled, Canceled
  <2>2. e \in ListError
    BY <1>1 DEF MergedError
  <2>3. /\ Pointers' /\ OthersKeep(v)
        /\ [data |-> d'[v] # NoCell, truncated |-> d'[v] # NoCell /\ truncated'[d'[v]],
            error |-> e] = r
    <3>1. CASE IsTruncated(w) /\ ~IsTruncated(v) /\ Detach(v)
      <4>1. /\ Pointers' /\ OthersKeep(v)
            /\ d'[v] # NoCell /\ truncated'[d'[v]] = TRUE
        BY <1>1, <3>1, DetachIsOwn
      <4>2. QED
        BY <1>2, <3>1, <4>1
    <3>2. CASE ~(IsTruncated(w) /\ ~IsTruncated(v)) /\ UNCHANGED <<d, truncated>>
      <4>1. Pointers' /\ OthersKeep(v)
        BY <1>1, <3>2 DEF Pointers, OthersKeep
      <4>2. /\ (d'[v] # NoCell) = (x.data \/ y.truncated)
            /\ (d'[v] # NoCell /\ truncated'[d'[v]]) = (x.truncated \/ y.truncated)
        BY <1>2, <3>2 DEF IsTruncated
      <4>3. QED
        BY <4>1, <4>2
    <3>3. QED
      BY <1>6, <3>1, <3>2
  <2> HIDE DEF r
  <2>4. /\ Entries' = [Entries EXCEPT ![v] = [data |-> d'[v] # NoCell,
                                               truncated |-> d'[v] # NoCell /\ truncated'[d'[v]],
                                               error |-> e]]
        /\ error' \in [Var -> ListError]
    BY <1>1, <1>6, <2>2, <2>3, OneEntryChanges
  <2>5. QED
    BY <2>1, <2>3, <2>4 DEF ListTypeOK, Pointers
<1>7. QED
  BY <1>5, <1>6 DEF MergeList
LEMMA ListInitIsValue ==
  ListInit => ListTypeOK /\ Values!Init
<1> SUFFICES ASSUME ListInit
             PROVE  ListTypeOK /\ Values!Init
  OBVIOUS
<1>1. ListTypeOK
  BY KeyListAssumption DEF ListInit, ListTypeOK
<1>2. Values!Init
  BY DEF ListInit, Values!Init, Entries, IsTruncated, NoError, Values!NoError
<1>3. QED
  BY <1>1, <1>2

LEMMA ListNextIsValue ==
  ListTypeOK /\ [ListNext]_listVars =>
    /\ ListTypeOK'
    /\ [Values!Next]_Entries
<1> SUFFICES ASSUME ListTypeOK, [ListNext]_listVars
             PROVE  ListTypeOK' /\ (Values!Next \/ Entries' = Entries)
  OBVIOUS
<1> USE KeyListAssumption
<1>1. Pointers /\ error \in [Var -> ListError]
  BY DEF ListTypeOK, Pointers
\* A step that gives v the value x.
<1>2. ASSUME ListTypeOK', NEW v \in Var, NEW x \in Values!Value, Entries' = [Entries EXCEPT ![v] = x]
      PROVE  Values!Next
  BY <1>2, Zenon DEF Values!Next
<1>3. ASSUME NEW v \in Var, ListResult(v)
      PROVE  ListTypeOK' /\ Values!Next
  <2>1. PICK e \in ListError, t \in BOOLEAN :
          /\ HasError(v, e)
          /\ \/ NewCell(v, t)
             \/ Shared([d EXCEPT ![v] = NoCell], truncated)
    BY <1>3 DEF ListResult
  <2>2. Pointers' /\ OthersKeep(v)
    <3>1. CASE NewCell(v, t)
      BY <1>1, <3>1, NewCellIsFresh
    <3>2. CASE Shared([d EXCEPT ![v] = NoCell], truncated)
      BY <1>1, <3>2, PointsElsewhere
    <3>3. QED
      BY <2>1, <3>1, <3>2
  <2> DEFINE x == [data |-> d'[v] # NoCell,
                   truncated |-> d'[v] # NoCell /\ truncated'[d'[v]], error |-> e]
  <2>3. Entries' = [Entries EXCEPT ![v] = x] /\ error' \in [Var -> ListError]
    BY <1>1, <2>1, <2>2, OneEntryChanges
  <2>4. x \in Values!Value
    BY DEF Values!Value
  <2>5. ListTypeOK'
    BY <2>2, <2>3 DEF ListTypeOK, Pointers
  <2> HIDE DEF x
  <2>6. QED
    BY <1>2, <2>3, <2>4, <2>5
<1>4. ASSUME NEW v \in Var, NEW w \in Var, Assigned(v, w)
      PROVE  ListTypeOK' /\ Values!Next
  <2>1. /\ Shared([d EXCEPT ![v] = d[w]], truncated) /\ HasError(v, error[w])
        /\ error[w] \in ListError
    BY <1>1, <1>4 DEF Assigned
  <2>2. Pointers' /\ OthersKeep(v)
    BY <1>1, <2>1, PointsElsewhere
  <2> DEFINE x == [data |-> d'[v] # NoCell,
                   truncated |-> d'[v] # NoCell /\ truncated'[d'[v]], error |-> error[w]]
  <2>3. Entries' = [Entries EXCEPT ![v] = x] /\ error' \in [Var -> ListError]
    BY <1>1, <2>1, <2>2, OneEntryChanges
  <2>4. x \in Values!Value
    BY <2>1 DEF Values!Value
  <2>5. ListTypeOK'
    BY <2>2, <2>3 DEF ListTypeOK, Pointers
  <2> HIDE DEF x
  <2>6. QED
    BY <1>2, <2>3, <2>4, <2>5
<1>5. ASSUME NEW v \in Var, NEW w \in Var, MergeList(v, w)
      PROVE  ListTypeOK' /\ Values!Next
  <2>1. ListTypeOK' /\ Entries' = [Entries EXCEPT ![v] = Values!Merge(Entries[v], Entries[w])]
    BY <1>5, MergeGivesMerged
  <2>2. QED
    BY <2>1, Zenon DEF Values!Next
<1>6. CASE UNCHANGED listVars
  BY <1>6 DEF listVars, ListTypeOK, Entries, IsTruncated
<1>7. QED
  BY <1>3, <1>4, <1>5, <1>6 DEF ListNext

\* What mergeWith() makes of two results depends on what they say alone, for
\* any variables and whoever shares what.
THEOREM MergesAreByValue == ListSpec => MergesByValue
<1>1. ListTypeOK /\ [ListNext]_listVars =>
        [\A v, w \in Var : MergeList(v, w) =>
           Entries' = [Entries EXCEPT ![v] = Values!Merge(Entries[v], Entries[w])]]_listVars
  BY MergeGivesMerged
<1>2. QED
  BY <1>1, ListInitIsValue, ListNextIsValue, PTL DEF ListSpec, MergesByValue

\* KeyListResult objects behave as values: no operation on one is ever seen
\* through another, although they share their Privates, and a merge gives what
\* the two values say.
THEOREM KeyListResultsAreValues == ListSpec => IsValue
<1>1. ListSpec => Values!Spec
  BY ListInitIsValue, ListNextIsValue, PTL DEF ListSpec, Values!Spec
<1>2. QED
  BY <1>1, MergesAreByValue DEF IsValue

-----------------------------------------------------------------------------
(* The composition *)

EachIsRight == KInv /\ TrustReferences /\ ListTypeOK

LEMMA EachStaysRight ==
  EachIsRight /\ [MCNext]_ownershipVars =>
    /\ EachIsRight'
    /\ [KeysNext]_keyVars /\ [TrustNext]_trustVars /\ [ListNext]_listVars
<1> SUFFICES ASSUME EachIsRight, [MCNext]_ownershipVars
             PROVE  /\ EachIsRight'
                    /\ [KeysNext]_keyVars /\ [TrustNext]_trustVars /\ [ListNext]_listVars
  OBVIOUS
<1>1. [KeysNext]_keyVars /\ [TrustNext]_trustVars /\ [ListNext]_listVars
  BY DEF MCNext, ownershipVars
<1>2. QED
  BY <1>1, NextPreserves, TrustNextPreserves, ListNextIsValue DEF EachIsRight

LEMMA EachStartsRight == MCInit => EachIsRight
BY InitEstablishes, TrustInitCounts, ListInitIsValue DEF MCInit, EachIsRight

\* gpgme frees keys and trust items exactly when the counts the objects keep say
\* that nobody refers to them, for any number of structures and variables.
THEOREM CountsAreBalanced == MCSpec => []CountsBalanced
<1>1. EachIsRight => CountsBalanced
  BY InvariantMeans DEF EachIsRight, CountsBalanced
<1>2. QED
  BY <1>1, EachStartsRight, EachStaysRight, PTL DEF MCSpec

\* In the composition, too, key list results are values.
THEOREM ListsAreValues == MCSpec => IsValue
<1>1. MCInit => ListInit
  BY DEF MCInit
<1>2. MCSpec => ListSpec
  BY <1>1, EachStartsRight, EachStaysRight, PTL DEF MCSpec, ListSpec
<1>3. QED
  BY <1>2, KeyListResultsAreValues
=============================================================================
