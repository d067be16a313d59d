------------------------------ MODULE Context ------------------------------
(***************************************************************************)
(* GpgME::Context: one gpgme context, the operation it is busy with, and   *)
(* what the object remembers of it (Context::Private): the kind of the     *)
(* last operation, the last error, and the objects that gpgme calls back   *)
(* while it works (edit interactors and Assuan transactions).              *)
(*                                                                         *)
(* All operations have the same shape: note the kind, take over the object *)
(* to call back, let gpgme run or start, note the error.  A synchronous    *)
(* call is over when it returns.  An asynchronous one ends in poll(),      *)
(* wait() or, for a context managed by an event loop interactor, in the    *)
(* event GPGME_EVENT_DONE.  What gpgme does is modelled by what it tells   *)
(* the library: it drops the operation in progress before a new one.       *)
(***************************************************************************)
EXTENDS Naturals, FiniteSets

CONSTANTS
  Method,     \* the methods used that start an operation, see Notes
  Object,     \* the interactors and transactions the application creates
  NoObject,   \* a null pointer
  Idle,       \* gpgme has nothing to do
  Error       \* errors of operations

NoError == "NO_ERROR"

\* The bits of Context::Private::Operation that the methods assign to lastop,
\* group by group as in context.cpp.  Overloads of a method, and its
\* asynchronous form, assign the same.
ListMethods == [keyListing |-> {"keylist"}, trustItemListing |-> {"trustlist"}]

KeyMethods == [generateKey |-> {"keygen"}, exportPublicKeys |-> {"export"},
               importKeys |-> {"import"}]

OwnKeyMethods == [deleteKey |-> {"delete"}, passwd |-> {"passwd"}]

EditMethods == [edit |-> {"edit"}, cardEdit |-> {"cardedit"}]

AssuanMethods == [assuanTransact |-> {"assuan"}]

\* Mutant: the enumerator is left out of the combination.
MutDecryptMethods == [decrypt |-> {"decrypt"}, verifyDetachedSignature |-> {"verify"},
                      verifyOpaqueSignature |-> {"verify"},
                      decryptAndVerify |-> {"decrypt"}]

DecryptMethods == [decrypt |-> {"decrypt"}, verifyDetachedSignature |-> {"verify"},
                   verifyOpaqueSignature |-> {"verify"},
                   decryptAndVerify |-> {"decrypt", "verify"}]

AuditMethods == [getAuditLog |-> {"getauditlog"}]

SignMethods == [sign |-> {"sign"}, encrypt |-> {"encrypt"},
                encryptSymmetrically |-> {"encrypt"},
                signAndEncrypt |-> {"sign", "encrypt"}]

\* CreateVFS and Passwd are the same number.
VFSMethods == [createVFS |-> {"passwd"}, mountVFS |-> {"mountvfs"}]

Methods ==
  DOMAIN ListMethods \cup DOMAIN KeyMethods \cup DOMAIN OwnKeyMethods
    \cup DOMAIN EditMethods \cup DOMAIN AssuanMethods \cup DOMAIN DecryptMethods
    \cup DOMAIN AuditMethods \cup DOMAIN SignMethods \cup DOMAIN VFSMethods

Notes == [m \in Methods |->
  CASE m \in DOMAIN ListMethods    -> ListMethods[m]
    [] m \in DOMAIN KeyMethods     -> KeyMethods[m]
    [] m \in DOMAIN OwnKeyMethods  -> OwnKeyMethods[m]
    [] m \in DOMAIN EditMethods    -> EditMethods[m]
    [] m \in DOMAIN AssuanMethods  -> AssuanMethods[m]
    [] m \in DOMAIN DecryptMethods -> DecryptMethods[m]
    [] m \in DOMAIN AuditMethods   -> AuditMethods[m]
    [] m \in DOMAIN SignMethods    -> SignMethods[m]
    [] m \in DOMAIN VFSMethods     -> VFSMethods[m]]

AsyncOnly == DOMAIN ListMethods
SyncOnly  == DOMAIN VFSMethods \cup {"encryptSymmetrically"}

\* The results of their operations, one accessor for each.
WithResult == {"encrypt", "decrypt", "sign", "verify", "import", "keygen",
               "keylist", "assuan"}

\* What gpgme keeps for gpgme_op_*_result() after the operation that a method
\* calls.
Kept ==
  [keyListing |-> {"keylist"}, generateKey |-> {"keygen"}, importKeys |-> {"import"},
   assuanTransact |-> {"assuan"}, decrypt |-> {"decrypt"},
   verifyDetachedSignature |-> {"verify"}, verifyOpaqueSignature |-> {"verify"},
   decryptAndVerify |-> {"decrypt", "verify"}, sign |-> {"sign"},
   encrypt |-> {"encrypt"}, encryptSymmetrically |-> {"encrypt"},
   signAndEncrypt |-> {"sign", "encrypt"}]
Keeps(m) == IF m \in DOMAIN Kept THEN Kept[m] ELSE {}

\* lastEditInteractor, lastCardEditInteractor and lastAssuanTransaction, and
\* the methods that are given an object for them.
Holder == {"edit", "cardedit", "assuan"}
Takes  == [edit |-> "edit", cardEdit |-> "cardedit", assuanTransact |-> "assuan"]

ASSUME ContextAssumption ==
  /\ Method \subseteq Methods
  /\ Idle \notin Method
  /\ NoObject \notin Object
  /\ {NoError, "EOF", "INV_ARG", "INV_VALUE"} \subseteq Error

VARIABLES
  lastop,   \* Context::Private::lastop, as the set of its bits
  lasterr,  \* Context::Private::lasterr
  held,     \* the three auto_ptrs of Context::Private
  managed,  \* Context::Private::iocbs is set
  alive,    \* the objects that exist
  pending,  \* the method whose operation gpgme is busy with, or Idle
  callee,   \* the object that gpgme calls back for it
  data,     \* the results that gpgme keeps for gpgme_op_*_result()
  outcome,  \* how gpgme's last operation went, NoError while it runs
  disturbed \* a call that is not an operation of gpgme's has set lasterr since

own   == <<lastop, lasterr, held, managed>>
gpgme == <<pending, callee, data, outcome>>
vars  == <<own, alive, gpgme, disturbed>>

-----------------------------------------------------------------------------
\* The objects the application still has in an auto_ptr of its own.
Unheld == {o \in alive : \A h \in Holder : held[h] # o}

\* Mutant: Context keeps a plain pointer, the auto_ptr deletes at the end of
\* the call what it was given.
MutAdopt(h, obj) ==
  /\ held' = [held EXCEPT ![h] = obj]
  /\ alive' = alive \ {held[h], obj}

\* An auto_ptr takes over an object, and deletes the one it had.
Adopt(h, obj) ==
  /\ held' = [held EXCEPT ![h] = obj]
  /\ alive' = alive \ {held[h]}

\* What a method does with the pointer it is given, before gpgme is called.
TakeOver(m, obj) ==
  \/ m \in DOMAIN Takes /\ Adopt(Takes[m], obj)
  \/ m \notin DOMAIN Takes /\ UNCHANGED <<held, alive>>

\* The objects a method can be given.  gpgme refuses to edit without one.
Arguments(m) ==
  IF m \notin DOMAIN Takes THEN {NoObject}
  ELSE Unheld \cup (IF m = "assuanTransact" THEN {} ELSE {NoObject})

Errors(m, obj) ==
  IF m \in DOMAIN Takes /\ obj = NoObject THEN {"INV_VALUE"} ELSE Error

\* lasterr is what gpgme has just returned.
Noted(e) ==
  /\ lasterr' = e
  /\ outcome' = e
  /\ disturbed' = FALSE

\* lasterr is set by a call that leaves gpgme's operation alone.
Overwritten(e) ==
  /\ lasterr' = e
  /\ disturbed' = TRUE
  /\ UNCHANGED gpgme

-----------------------------------------------------------------------------
\* decrypt(), sign(), edit(), createVFS(), ...: gpgme works until it is done.
Call(m, obj) ==
  /\ m \notin AsyncOnly
  /\ lastop' = Notes[m]
  /\ TakeOver(m, obj)
  /\ \E e \in Errors(m, obj) :
       /\ Noted(e)
       /\ data' \in {Keeps(m)} \cup IF e = NoError THEN {} ELSE {{}}
  /\ pending' = Idle
  /\ callee' = NoObject
  /\ UNCHANGED managed

\* startDecryption(), startSigning(), startEditing(), ...: gpgme starts it.
Start(m, obj) ==
  /\ m \notin SyncOnly
  /\ lastop' = Notes[m]
  /\ TakeOver(m, obj)
  /\ \E e \in Errors(m, obj) :
       /\ Noted(e)
       /\ pending' = IF e = NoError THEN m ELSE Idle
       /\ callee' = IF e = NoError THEN obj ELSE NoObject
       /\ data' = IF e = NoError THEN Keeps(m) ELSE {}
  /\ UNCHANGED managed

\* assuanTransact() and startAssuanTransaction() with a null transaction
\* return before they call gpgme.
NullTransaction ==
  /\ lastop' = {"assuan"}
  /\ Adopt("assuan", NoObject)
  /\ Overwritten("INV_ARG")
  /\ UNCHANGED managed

\* gpgme reports that the operation in progress ended with e, which may be the
\* cancellation that cancelPendingOperation() asked for.
Ended(e) ==
  /\ pending # Idle
  /\ Noted(e)
  /\ pending' = Idle
  /\ callee' = NoObject
  /\ UNCHANGED <<lastop, held, managed, alive, data>>

\* poll() when the operation has finished; otherwise it changes nothing.
Poll == ~managed /\ \E e \in Error : Ended(e)

\* wait(), which an application only calls for an operation in progress
Wait == ~managed /\ \E e \in Error : Ended(e)

\* Mutant: the event is passed on to the application only.
MutDoneEvent ==
  /\ managed
  /\ pending # Idle
  /\ outcome' \in Error
  /\ pending' = Idle
  /\ callee' = NoObject
  /\ disturbed' = FALSE
  /\ UNCHANGED <<own, alive, data>>

\* EventLoopInteractor's eventIOCb() with GPGME_EVENT_DONE
DoneEvent == managed /\ \E e \in Error : Ended(e)

\* nextKey() and nextTrustItem() during a listing, where anything but a success
\* ends it, and outside of one, where gpgme only refuses.  Only nextKey() notes
\* the kind of the operation.
NextItem(listing, kind) ==
  /\ ~managed
  /\ lastop' = kind
  /\ \/ /\ pending = listing
        /\ \E e \in Error :
             /\ Noted(e)
             /\ pending' = IF e = NoError THEN pending ELSE Idle
        /\ UNCHANGED <<callee, data>>
     \/ /\ pending # listing
        /\ \E e \in Error \ {NoError} : Overwritten(e)
  /\ UNCHANGED <<held, managed, alive>>

NextKey == NextItem("keyListing", {"keylist"})
NextTrustItem == NextItem("trustItemListing", lastop)

\* endKeyListing() and endTrustItemListing(): gpgme has nothing to do, and its
\* success replaces the error of the listing.
EndListing ==
  /\ Overwritten(NoError)
  /\ UNCHANGED <<lastop, held, managed, alive>>

\* key(): gpgme looks the key up with a context of its own.
Key ==
  /\ lastop' = {"keylist"}
  /\ \E e \in Error : Overwritten(e)
  /\ UNCHANGED <<held, managed, alive>>

\* addSigningKey() and setLocale()
SetAttribute ==
  /\ \E e \in Error : Overwritten(e)
  /\ UNCHANGED <<lastop, held, managed, alive>>

\* EventLoopInteractor::manage() and unmanage(), between two operations
Manage ==
  /\ pending = Idle
  /\ managed' = ~managed
  /\ UNCHANGED <<lastop, lasterr, held, alive, gpgme, disturbed>>

\* takeLastEditInteractor() and its like, when gpgme has no more use for it
Take(h) ==
  /\ held[h] # NoObject
  /\ held[h] # callee
  /\ held' = [held EXCEPT ![h] = NoObject]
  /\ UNCHANGED <<lastop, lasterr, managed, alive, gpgme, disturbed>>

\* The application creates an object, or destroys one that it has.
Create(o) ==
  /\ o \notin alive
  /\ alive' = alive \cup {o}
  /\ UNCHANGED <<own, gpgme, disturbed>>

Destroy(o) ==
  /\ o \in Unheld
  /\ o # callee
  /\ alive' = alive \ {o}
  /\ UNCHANGED <<own, gpgme, disturbed>>

Init ==
  /\ lastop = {}
  /\ lasterr = NoError
  /\ held = [h \in Holder |-> NoObject]
  /\ managed = FALSE
  /\ alive = {}
  /\ pending = Idle
  /\ callee = NoObject
  /\ data = {}
  /\ outcome = NoError
  /\ disturbed = FALSE

Next ==
  \/ \E m \in Method : \E obj \in Arguments(m) : Call(m, obj)
  \/ \E m \in Method : \E obj \in Arguments(m) : Start(m, obj)
  \/ NullTransaction
  \/ Poll
  \/ Wait
  \/ DoneEvent
  \/ NextKey
  \/ NextTrustItem
  \/ EndListing
  \/ Key
  \/ SetAttribute
  \/ Manage
  \/ \E h \in Holder : Take(h)
  \/ \E o \in Object : Create(o)
  \/ \E o \in Object : Destroy(o)

Spec == Init /\ [][Next]_vars

-----------------------------------------------------------------------------
\* signingResult(), importResult() and their like: null, or the error with
\* what gpgme kept.  keyListResult() does not look at the last operation.
NullResult == [null |-> TRUE]
ResultOf(bit) ==
  IF bit \in lastop \/ bit = "keylist"
  THEN [null |-> FALSE, error |-> lasterr, data |-> bit \in data]
  ELSE NullResult

\* The values the variables range over; an auto_ptr holds an existing object,
\* and no object is in two of them.
TypeOK ==
  /\ lastop \in {Notes[m] : m \in Method} \cup {{}, {"keylist"}, {"assuan"}}
  /\ lasterr \in Error
  /\ held \in [Holder -> alive \cup {NoObject}]
  /\ \A h1, h2 \in Holder : held[h1] = held[h2] => h1 = h2 \/ held[h1] = NoObject
  /\ managed \in BOOLEAN
  /\ alive \subseteq Object
  /\ pending \in Method \cup {Idle}
  /\ callee \in Object \cup {NoObject}
  /\ data \subseteq WithResult
  /\ outcome \in Error
  /\ disturbed \in BOOLEAN

\* gpgme never calls back into a deleted interactor or transaction: the object
\* that the operation in progress works with exists until it is over, also
\* when another operation is started in between.  The exception is a null
\* transaction: it is refused only after it has replaced the one in progress,
\* which is deleted.  Then "assert(t)" in the callback for inquiries fails, and
\* those for data and status lines work with the deleted one.
CalleeExists ==
  callee # NoObject =>
    callee \in alive \/ (pending = "assuanTransact" /\ held["assuan"] = NoObject)

\* lastError() and the error in a result are those of the last operation, on
\* every path on which it can end, unless a call that is no operation (key(),
\* addSigningKey(), endKeyListing(), ...) has replaced them.
ErrorIsOutcome ==
  ~disturbed =>
    \A bit \in WithResult : ~ResultOf(bit).null => ResultOf(bit).error = outcome

\* When the operation in progress ends, every result that gpgme keeps of it
\* can be fetched, unless key() or nextKey() was called or a null transaction
\* was refused while it ran: the methods note what they start.
ResultSurvives ==
  pending # Idle /\ lastop \notin {{"keylist"}, {"assuan"}} =>
    \A bit \in Keeps(pending) : ~ResultOf(bit).null
=============================================================================
