------------------------------ MODULE TrustItems ------------------------------
(***************************************************************************)
(* GpgME::TrustItem: every object has a Private of its own with a plain    *)
(* pointer to gpgme's item, and counts a reference for itself.             *)
(***************************************************************************)
EXTENDS Naturals, FiniteSets

CONSTANTS
  Item,    \* addresses of gpgme_trust_item_t structures
  TrustVar,\* the application's variables of type TrustItem
  NoItem   \* a null pointer

ASSUME TrustAssumption == NoItem \notin Item /\ IsFiniteSet(TrustVar)

VARIABLES
  itemRefs, \* gpgme's reference counts, 0 when freed
  itemOf,   \* d->item of each variable
  handed    \* the items nextTrustItem() was given since they were allocated

trustVars == <<itemRefs, itemOf, handed>>

\* x = TrustItem(...): the new object has counted itself in rs, the old one
\* is destroyed and gives its reference back.
SetItem(x, i, rs) ==
  LET old == itemOf[x]
  IN /\ itemOf' = [itemOf EXCEPT ![x] = i]
     /\ itemRefs' = IF old = NoItem THEN rs ELSE [rs EXCEPT ![old] = @ - 1]

\* Mutant: the object does not count itself.
MutCounted(i) == itemRefs

\* TrustItem(gpgme_trust_item_t) and the copy constructor: "if (d->item)" ref.
Counted(i) == IF i = NoItem THEN itemRefs ELSE [itemRefs EXCEPT ![i] = @ + 1]

\* nextTrustItem(): gpgme returns an item with a reference for the caller, and
\* the constructor counts one more.  Null at the end of the listing.
NextTrustItem(x) ==
  \/ \E i \in Item :
       /\ itemRefs[i] = 0
       /\ SetItem(x, i, [Counted(i) EXCEPT ![i] = @ + 1])
       /\ handed' = handed \cup {i}
  \/ SetItem(x, NoItem, Counted(NoItem)) /\ UNCHANGED handed

\* GPGME_EVENT_NEXT_TRUSTITEM: here the caller's reference is given back, after
\* the application has copied the object that counted its own.
TrustItemEvent(x) ==
  /\ \E i \in Item : itemRefs[i] = 0 /\ SetItem(x, i, Counted(i))
  /\ UNCHANGED handed

CopyItem(x, y) == SetItem(x, itemOf[y], Counted(itemOf[y])) /\ UNCHANGED handed
DropItem(x)    == SetItem(x, NoItem, itemRefs) /\ UNCHANGED handed

TrustInit ==
  /\ itemRefs = [i \in Item |-> 0]
  /\ itemOf = [x \in TrustVar |-> NoItem]
  /\ handed = {}

TrustNext == \E x \in TrustVar :
  NextTrustItem(x) \/ TrustItemEvent(x) \/ DropItem(x) \/ (\E y \in TrustVar : CopyItem(x, y))

TrustSpec == TrustInit /\ [][TrustNext]_trustVars

-----------------------------------------------------------------------------
TrustTypeOK ==
  /\ itemRefs \in [Item -> Nat]
  /\ itemOf \in [TrustVar -> Item \cup {NoItem}]
  /\ handed \subseteq Item

\* However TrustItem objects are copied, assigned and destroyed, gpgme counts
\* each of them once, and the caller's reference to an item from
\* nextTrustItem() on top: no object loses its item, one that came with an
\* event is freed with the last object, and one that was listed never is.
TrustReferences ==
  /\ TrustTypeOK
  /\ \A i \in Item :
       itemRefs[i] = Cardinality({x \in TrustVar : itemOf[x] = i})
                     + (IF i \in handed THEN 1 ELSE 0)
=============================================================================
