--------------------------- MODULE ContextProofs ---------------------------
(***************************************************************************)
(* The invariants of Context, for any number of objects to call back, any  *)
(* set of methods and any error codes.                                     *)
(*                                                                         *)
(* Three facts are added to make them inductive: the object that gpgme     *)
(* calls back is the one held for the operation in progress, lastop are    *)
(* the bits of that operation, and lasterr is its error, each but for the  *)
(* exceptions that the invariants name.                                    *)
(***************************************************************************)
EXTENDS MCContext, FiniteSetTheorems, WellFoundedInduction, TLAPS

\* gpgme calls back the object that is held for its operation, unless a null
\* transaction has replaced it.
CalleeHeld ==
  callee # NoObject =>
    /\ pending \in DOMAIN Takes
    /\ \/ held[Takes[pending]] = callee
       \/ pending = "assuanTransact" /\ held["assuan"] = NoObject

\* lastop are the bits that the operation in progress noted.
OperationNoted ==
  pending # Idle => lastop \in {Notes[pending], {"keylist"}, {"assuan"}}

\* lasterr is what gpgme returned for its last operation.
ErrorNoted == disturbed \/ lasterr = outcome

IInv == TypeOK /\ CalleeHeld /\ OperationNoted /\ ErrorNoted

-----------------------------------------------------------------------------
\* Every bit for which gpgme keeps a result is noted by the method.
LEMMA NotesCoverResults ==
  \A m \in Methods : Keeps(m) \subseteq Notes[m] /\ Keeps(m) \subseteq WithResult
<1> USE DEF ListMethods, KeyMethods, OwnKeyMethods, EditMethods, AssuanMethods,
            DecryptMethods, AuditMethods, SignMethods, VFSMethods
<1> DEFINE Names == {"keyListing", "trustItemListing", "generateKey",
     "exportPublicKeys", "importKeys", "deleteKey", "passwd", "edit", "cardEdit",
     "assuanTransact", "decrypt", "verifyDetachedSignature",
     "verifyOpaqueSignature", "decryptAndVerify", "getAuditLog", "sign", "encrypt",
     "encryptSymmetrically", "signAndEncrypt", "createVFS", "mountVFS"}
<1>1. Methods = Names
  BY DEF Methods
<1>2. \A m \in Names : Keeps(m) \subseteq Notes[m]
  BY <1>1 DEF Notes, Keeps, Kept
<1>3. \A m \in Names : Keeps(m) \subseteq WithResult
  BY DEF Keeps, Kept, WithResult
<1>4. QED
  BY <1>1, <1>2, <1>3

\* The methods that take an object take it for one of the holders.
LEMMA TakesHolder == \A m \in DOMAIN Takes : Takes[m] \in Holder
BY DEF Takes, Holder

LEMMA InitEstablishes == Init => IInv
BY ContextAssumption
   DEF Init, IInv, TypeOK, CalleeHeld, OperationNoted, ErrorNoted, Holder, WithResult

\* An auto_ptr that takes over an object of the application leaves the others
\* with theirs.
LEMMA AdoptKeepsTypes ==
  ASSUME TypeOK, NEW h \in Holder, NEW obj \in Unheld \cup {NoObject}, Adopt(h, obj)
  PROVE  /\ held' \in [Holder -> alive' \cup {NoObject}]
         /\ \A h1, h2 \in Holder :
              held'[h1] = held'[h2] => h1 = h2 \/ held'[h1] = NoObject
         /\ alive' \subseteq Object
         /\ held'[h] = obj
<1>1. /\ held' = [held EXCEPT ![h] = obj]
      /\ alive' = alive \ {held[h]}
  BY DEF Adopt
<1>2. /\ \A k \in Holder : held'[k] = IF k = h THEN obj ELSE held[k]
      /\ DOMAIN held' = Holder
  BY <1>1 DEF TypeOK
<1>3. obj # NoObject => obj \in alive /\ \A k \in Holder : held[k] # obj
  BY DEF Unheld
<1>4. \A k \in Holder : held'[k] \in alive' \cup {NoObject}
  BY <1>1, <1>2, <1>3 DEF TypeOK
<1>5. held' \in [Holder -> alive' \cup {NoObject}]
  BY <1>1, <1>4 DEF TypeOK
<1>6. QED
  BY <1>1, <1>2, <1>3, <1>5 DEF TypeOK

\* What a method does with the object it is given.
LEMMA TakeOverKeepsTypes ==
  ASSUME TypeOK, NEW m \in Method, NEW obj \in Arguments(m), TakeOver(m, obj)
  PROVE  /\ held' \in [Holder -> alive' \cup {NoObject}]
         /\ \A h1, h2 \in Holder :
              held'[h1] = held'[h2] => h1 = h2 \/ held'[h1] = NoObject
         /\ alive' \subseteq Object
         /\ obj # NoObject => m \in DOMAIN Takes /\ held'[Takes[m]] = obj
<1>1. CASE m \in DOMAIN Takes
  <2>1. obj \in Unheld \cup {NoObject}
    BY <1>1 DEF Arguments
  <2>2. Adopt(Takes[m], obj) /\ Takes[m] \in Holder
    BY <1>1, TakesHolder DEF TakeOver
  <2>3. QED
    BY <1>1, <2>1, <2>2, AdoptKeepsTypes
<1>2. CASE m \notin DOMAIN Takes
  BY <1>2 DEF TakeOver, Arguments, TypeOK
<1>3. QED
  BY <1>1, <1>2

\* Synchronous operations: gpgme is idle again when they return.
LEMMA CallPreserves ==
  ASSUME IInv, NEW m \in Method, NEW obj \in Arguments(m), Call(m, obj)
  PROVE  IInv'
<1> USE ContextAssumption
<1>1. PICK e \in Errors(m, obj) :
        Noted(e) /\ data' \in {Keeps(m)} \cup IF e = NoError THEN {} ELSE {{}}
  BY DEF Call
<1>2. e \in Error
  BY DEF Errors
<1>3. data' \subseteq WithResult
  BY <1>1, NotesCoverResults
<1>4. /\ pending' = Idle
      /\ callee' = NoObject
      /\ lastop' = Notes[m]
      /\ managed' = managed
  BY DEF Call
<1>5. TypeOK'
  <2>1. /\ held' \in [Holder -> alive' \cup {NoObject}]
        /\ \A h1, h2 \in Holder :
             held'[h1] = held'[h2] => h1 = h2 \/ held'[h1] = NoObject
        /\ alive' \subseteq Object
    BY TakeOverKeepsTypes DEF Call, IInv
  <2>2. QED
    BY <1>1, <1>2, <1>3, <1>4, <2>1 DEF IInv, TypeOK, Noted
<1>6. QED
  BY <1>1, <1>4, <1>5 DEF IInv, CalleeHeld, OperationNoted, ErrorNoted, Noted

\* Asynchronous ones: what gpgme calls back is what was taken over for it.
LEMMA StartPreserves ==
  ASSUME IInv, NEW m \in Method, NEW obj \in Arguments(m), Start(m, obj)
  PROVE  IInv'
<1> USE ContextAssumption
<1>1. PICK e \in Errors(m, obj) :
        /\ Noted(e)
        /\ pending' = IF e = NoError THEN m ELSE Idle
        /\ callee' = IF e = NoError THEN obj ELSE NoObject
        /\ data' = IF e = NoError THEN Keeps(m) ELSE {}
  BY DEF Start
<1>2. e \in Error
  BY DEF Errors
<1>3. data' \subseteq WithResult
  BY <1>1, NotesCoverResults
<1>4. lastop' = Notes[m] /\ managed' = managed
  BY DEF Start
<1>5. /\ held' \in [Holder -> alive' \cup {NoObject}]
      /\ \A h1, h2 \in Holder :
           held'[h1] = held'[h2] => h1 = h2 \/ held'[h1] = NoObject
      /\ alive' \subseteq Object
      /\ obj # NoObject => m \in DOMAIN Takes /\ held'[Takes[m]] = obj
  BY TakeOverKeepsTypes DEF Start, IInv
<1>6. obj \in Object \cup {NoObject}
  BY DEF Arguments, Unheld, IInv, TypeOK
<1>7. TypeOK'
  BY <1>1, <1>2, <1>3, <1>4, <1>5, <1>6 DEF IInv, TypeOK, Noted
<1>8. CalleeHeld'
  BY <1>1, <1>5 DEF CalleeHeld
<1>9. QED
  BY <1>1, <1>4, <1>7, <1>8 DEF IInv, OperationNoted, ErrorNoted, Noted

\* A null transaction that is refused leaves gpgme with its operation.
LEMMA NullTransactionPreserves ==
  ASSUME IInv, NullTransaction
  PROVE  IInv'
<1> USE ContextAssumption
<1>1. /\ lastop' = {"assuan"}
      /\ Adopt("assuan", NoObject)
      /\ Overwritten("INV_ARG")
      /\ managed' = managed
  BY DEF NullTransaction
<1>2. "assuan" \in Holder
  BY DEF Holder
<1>3. /\ held' \in [Holder -> alive' \cup {NoObject}]
      /\ \A h1, h2 \in Holder :
           held'[h1] = held'[h2] => h1 = h2 \/ held'[h1] = NoObject
      /\ alive' \subseteq Object
      /\ held'["assuan"] = NoObject
  BY <1>1, <1>2, AdoptKeepsTypes DEF IInv
<1>4. TypeOK'
  BY <1>1, <1>3 DEF IInv, TypeOK, Overwritten, gpgme
<1>5. CalleeHeld'
  <2>1. \A h \in Holder : h # "assuan" => held'[h] = held[h]
    BY <1>1 DEF Adopt, IInv, TypeOK
  <2>2. \A m \in DOMAIN Takes : m # "assuanTransact" => Takes[m] # "assuan"
    BY DEF Takes
  <2>3. QED
    BY <1>1, <1>3, <2>1, <2>2, TakesHolder DEF IInv, CalleeHeld, Overwritten, gpgme
<1>6. QED
  BY <1>1, <1>4, <1>5 DEF IInv, OperationNoted, ErrorNoted, Overwritten, gpgme

\* The end of an operation and the steps of a listing.
LEMMA GpgmePreserves ==
  ASSUME IInv, Poll \/ Wait \/ DoneEvent \/ NextKey \/ NextTrustItem
  PROVE  IInv'
<1> USE ContextAssumption
<1>1. ASSUME NEW e \in Error, Ended(e)
      PROVE  IInv'
  <2>1. TypeOK'
    BY <1>1 DEF Ended, Noted, IInv, TypeOK
  <2>2. QED
    BY <1>1, <2>1 DEF Ended, Noted, IInv, CalleeHeld, OperationNoted, ErrorNoted
<1>2. ASSUME NEW listing \in {"keyListing", "trustItemListing"},
             NEW kind \in {lastop, {"keylist"}}, NextItem(listing, kind)
      PROVE  IInv'
  <2>0. lastop' = kind /\ UNCHANGED <<held, managed, alive>>
    BY <1>2 DEF NextItem
  <2>1. CASE pending = listing /\ (\E e \in Error :
               Noted(e) /\ pending' = IF e = NoError THEN pending ELSE Idle)
             /\ UNCHANGED <<callee, data>>
    <3>1. callee = NoObject
      BY <2>1 DEF IInv, CalleeHeld, Takes
    <3>2. TypeOK'
      BY <2>0, <2>1 DEF IInv, TypeOK, Noted
    <3>3. QED
      BY <2>0, <2>1, <3>1, <3>2
      DEF IInv, CalleeHeld, OperationNoted, ErrorNoted, Noted
  <2>2. CASE \E e \in Error : Overwritten(e)
    <3>1. TypeOK'
      BY <2>0, <2>2 DEF IInv, TypeOK, Overwritten, gpgme
    <3>2. QED
      BY <2>0, <2>2, <3>1
      DEF IInv, CalleeHeld, OperationNoted, ErrorNoted, Overwritten, gpgme
  <2>3. QED
    BY <1>2, <2>1, <2>2 DEF NextItem
<1>3. QED
  BY <1>1, <1>2 DEF Poll, Wait, DoneEvent, NextKey, NextTrustItem

\* The calls that are no operation of gpgme's.
LEMMA OtherCallsPreserve ==
  ASSUME IInv, EndListing \/ Key \/ SetAttribute \/ Manage
  PROVE  IInv'
<1> USE ContextAssumption
<1>1. ASSUME NEW e \in Error, Overwritten(e), lastop' \in {lastop, {"keylist"}},
             UNCHANGED <<held, managed, alive>>
      PROVE  IInv'
  <2>1. TypeOK'
    BY <1>1 DEF IInv, TypeOK, Overwritten, gpgme
  <2>2. QED
    BY <1>1, <2>1
    DEF IInv, CalleeHeld, OperationNoted, ErrorNoted, Overwritten, gpgme
<1>2. CASE EndListing \/ Key \/ SetAttribute
  BY <1>1, <1>2 DEF EndListing, Key, SetAttribute
<1>3. CASE Manage
  <2>1. TypeOK'
    BY <1>3 DEF Manage, IInv, TypeOK, gpgme
  <2>2. QED
    BY <1>3, <2>1 DEF Manage, IInv, CalleeHeld, OperationNoted, ErrorNoted, gpgme
<1>4. QED
  BY <1>2, <1>3

\* What the application does with its objects.
LEMMA ObjectsPreserve ==
  ASSUME IInv, \/ \E h \in Holder : Take(h)
               \/ \E o \in Object : Create(o) \/ Destroy(o)
  PROVE  IInv'
<1> USE ContextAssumption
<1>1. ASSUME NEW h \in Holder, Take(h)
      PROVE  IInv'
  <2>1. /\ held' = [held EXCEPT ![h] = NoObject]
        /\ held[h] # NoObject
        /\ held[h] # callee
        /\ UNCHANGED <<lastop, lasterr, managed, alive, gpgme, disturbed>>
    BY <1>1 DEF Take
  <2>2. \A k \in Holder : held'[k] = IF k = h THEN NoObject ELSE held[k]
    BY <2>1 DEF IInv, TypeOK
  <2>3. TypeOK'
    BY <2>1, <2>2 DEF IInv, TypeOK, gpgme
  <2>4. CalleeHeld'
    BY <2>1, <2>2, TakesHolder DEF IInv, CalleeHeld, gpgme, Holder
  <2>5. QED
    BY <2>1, <2>3, <2>4 DEF IInv, OperationNoted, ErrorNoted, gpgme
<1>2. ASSUME NEW o \in Object, Create(o) \/ Destroy(o)
      PROVE  IInv'
  <2>1. UNCHANGED <<own, gpgme, disturbed>>
    BY <1>2 DEF Create, Destroy
  <2>2. /\ held \in [Holder -> alive' \cup {NoObject}]
        /\ alive' \subseteq Object
    <3>1. CASE Create(o)
      BY <3>1 DEF Create, IInv, TypeOK
    <3>2. CASE Destroy(o)
      <4>1. \A h \in Holder : held[h] \in alive' \cup {NoObject}
        BY <3>2 DEF Destroy, Unheld, IInv, TypeOK
      <4>2. QED
        BY <3>2, <4>1 DEF Destroy, IInv, TypeOK
    <3>3. QED
      BY <1>2, <3>1, <3>2
  <2>3. TypeOK'
    BY <2>1, <2>2 DEF IInv, TypeOK, own, gpgme
  <2>4. QED
    BY <2>1, <2>3 DEF IInv, CalleeHeld, OperationNoted, ErrorNoted, own, gpgme
<1>3. QED
  BY <1>1, <1>2

LEMMA NextPreserves == IInv /\ [Next]_vars => IInv'
<1> SUFFICES ASSUME IInv, [Next]_vars
             PROVE  IInv'
  OBVIOUS
<1>1. CASE UNCHANGED vars
  BY <1>1 DEF vars, own, gpgme, IInv, TypeOK, CalleeHeld, OperationNoted, ErrorNoted
<1>2. CASE Next
  BY <1>2, CallPreserves, StartPreserves, NullTransactionPreserves,
     GpgmePreserves, OtherCallsPreserve, ObjectsPreserve DEF Next
<1>3. QED
  BY <1>1, <1>2

LEMMA Inductive == Spec => []IInv
BY InitEstablishes, NextPreserves, PTL DEF Spec

-----------------------------------------------------------------------------
\* The three auto_ptrs hold different objects, which exist.
THEOREM TypeCorrect == Spec => []TypeOK
<1>1. IInv => TypeOK
  BY DEF IInv
<1>2. QED
  BY <1>1, Inductive, PTL

LEMMA CalleeOfInv == IInv => CalleeExists
<1> SUFFICES ASSUME IInv, callee # NoObject
             PROVE  callee \in alive \/ (pending = "assuanTransact"
                                           /\ held["assuan"] = NoObject)
  BY DEF CalleeExists
<1>1. CASE held[Takes[pending]] = callee
  BY <1>1, TakesHolder DEF IInv, TypeOK, CalleeHeld
<1>2. QED
  BY <1>1 DEF IInv, CalleeHeld

\* gpgme never calls a deleted interactor or transaction, the one exception
\* being a null transaction.
THEOREM NoDanglingCallee == Spec => []CalleeExists
BY CalleeOfInv, Inductive, PTL

LEMMA ErrorOfInv == IInv => ErrorIsOutcome
BY DEF IInv, ErrorNoted, ErrorIsOutcome, ResultOf, NullResult

\* Results carry the error of the last operation.
THEOREM OwnError == Spec => []ErrorIsOutcome
BY ErrorOfInv, Inductive, PTL

LEMMA ResultOfInv == IInv => ResultSurvives
<1> SUFFICES ASSUME IInv, pending # Idle,
                    lastop \notin {{"keylist"}, {"assuan"}},
                    NEW bit \in Keeps(pending)
             PROVE  ~ResultOf(bit).null
  BY DEF ResultSurvives
<1>1. lastop = Notes[pending] /\ pending \in Methods
  BY ContextAssumption DEF IInv, OperationNoted, TypeOK
<1>2. bit \in lastop
  BY <1>1, NotesCoverResults
<1>3. QED
  BY <1>2 DEF ResultOf

\* Every result that gpgme keeps of the operation in progress can be fetched.
THEOREM NoLostResult == Spec => []ResultSurvives
BY ResultOfInv, Inductive, PTL

-----------------------------------------------------------------------------
(* The settings *)

\* What "asked" and "oldMode" are apart from their types: an export is in
\* progress only while there is a context, and has the mode to set back.
Asked ==
  /\ asked \in [listMode : SUBSET ListMode, flags : SUBSET Flag,
                file : FileName \cup {"default"}, home : HomeDir \cup {"default"},
                disturbed : BOOLEAN]
  /\ proto = "none" => Idling
  /\ ~Idling => oldMode \subseteq ListMode \ OldModes
  /\ ~Idling /\ ~asked.disturbed => oldMode = Converted(asked.listMode)

\* The operation on keys while an export is in progress.
Exporting == ~Idling => job.kind = "export" /\ job.only = FALSE

SInv == SettingsTypeOK /\ Asked /\ SettingsKept /\ Exporting /\ KeysGiven

\* The engines of gpgme's list have names, "none" not among them.
LEMMA EngineNames ==
  /\ ToSet(Engines) \subseteq {"OpenPGP", "CMS", "Assuan", "G13"}
  /\ Engines[1] \in ToSet(Engines)
BY SettingsAssumption DEF ToSet

\* A context that was just made, or that is gone, has gpgme's defaults.
LEMMA FreshIsKept ==
  ASSUME proto' \in ToSet(Engines) \cup {"none"},
         orphans' \subseteq {"UnknownProtocol", "UnknownEngine"},
         oldMode' = {"none"}, Fresh
  PROVE  SInv'
<1> USE SettingsAssumption, EngineNames
<1>1. /\ listMode' = {"local"} /\ flags' = {} /\ engine' = Defaults
      /\ notations' = <<>> /\ job' = NoJob /\ asked' = Untouched
  BY DEF Fresh
<1>2. SettingsTypeOK'
  BY <1>1 DEF SettingsTypeOK, Defaults, Default
<1>3. Asked'
  <2>1. asked'.disturbed = FALSE /\ FALSE \in BOOLEAN
    BY <1>1 DEF Untouched
  <2>2. QED
    BY <1>1, <2>1 DEF Asked, Untouched, Idling
<1>4. SettingsKept'
  BY <1>1, <1>2 DEF SettingsKept, Untouched, Defaults, Default, Converted
<1>5. Exporting' /\ KeysGiven'
  BY <1>1 DEF Exporting, Idling, KeysGiven, NoJob
<1>6. QED
  BY <1>2, <1>3, <1>4, <1>5 DEF SInv

LEMMA SettingsInitHolds == SettingsInit => SInv
<1> USE SettingsAssumption, EngineNames
<1> SUFFICES ASSUME SettingsInit
             PROVE  SInv
  OBVIOUS
<1>1. SettingsTypeOK
  BY DEF SettingsInit, SettingsTypeOK, Defaults, Default
<1>2. Asked
  BY DEF SettingsInit, Asked, Untouched, Idling
<1>3. SettingsKept /\ Exporting /\ KeysGiven
  BY DEF SettingsInit, SettingsKept, Exporting, Idling, KeysGiven, NoJob
<1>4. QED
  BY <1>1, <1>2, <1>3 DEF SInv

\* Making and deleting contexts.
LEMMA ContextsKeepSettings ==
  ASSUME SInv, CreateForProtocol \/ CreateForEngine \/ Delete
  PROVE  SInv'
<1> USE SettingsAssumption, EngineNames
<1>1. CASE Delete
  <2>1. proto' = "none" /\ oldMode' = {"none"} /\ orphans' = orphans /\ Fresh
    BY <1>1 DEF Delete, Idling
  <2>2. QED
    BY <2>1, FreshIsKept DEF SInv, SettingsTypeOK
<1>2. ASSUME NEW known, NEW arg \in {"OpenPGP", "CMS", "UnknownProtocol", "AssuanEngine", "G13Engine", "UnknownEngine"},
             arg \in {"OpenPGP", "CMS", "AssuanEngine", "G13Engine"} => arg \in DOMAIN known,
             CreateContext(known, arg)
      PROVE  SInv'
  <2>1. proto = "none" /\ Fresh /\ oldMode' = oldMode
    BY <1>2 DEF CreateContext
  <2>2. proto' \in ToSet(Engines) \cup {"none"} /\ orphans' \subseteq orphans \cup {"UnknownProtocol", "UnknownEngine"}
    BY <1>2 DEF CreateContext
  <2>3. QED
    BY <2>1, <2>2, FreshIsKept DEF SInv, Asked, Idling, SettingsTypeOK
<1>3. CASE CreateForProtocol
  BY <1>2, <1>3 DEF CreateForProtocol, ByProtocol
<1>4. CASE CreateForEngine
  BY <1>2, <1>4 DEF CreateForEngine, ByEngine
<1>5. QED
  BY <1>1, <1>3, <1>4

\* An attribute is set: the job is forgotten, or goes on if it is an export.
LEMMA JobsSurviveSetting ==
  ASSUME SInv, UNCHANGED <<proto, oldMode>>, job' = IF Idling THEN NoJob ELSE job
  PROVE  Exporting' /\ KeysGiven'
BY DEF SInv, Exporting, KeysGiven, Idling, NoJob

\* setKeyListMode() and addKeyListMode()
LEMMA ModeKept ==
  ASSUME SInv, NEW m \in SUBSET ListMode, SetKeyListMode(m) \/ AddKeyListMode(m),
         proto # "none", UNCHANGED <<proto, orphans, oldMode>>,
         job' = IF Idling THEN NoJob ELSE job
  PROVE  SInv'
<1>1. /\ UNCHANGED <<flags, engine, notations>>
      /\ \/ /\ listMode' = Converted(m)
            /\ asked' = [asked EXCEPT !.listMode = m, !.disturbed = ~Idling]
         \/ /\ listMode' = listMode \cup Converted(m)
            /\ asked' = [asked EXCEPT !.listMode = asked.listMode \cup m,
                                      !.disturbed = asked.disturbed \/ ~Idling]
  BY DEF SetKeyListMode, AddKeyListMode
<1>2. /\ asked'.listMode \subseteq ListMode
      /\ asked'.flags = asked.flags /\ asked'.file = asked.file /\ asked'.home = asked.home
      /\ asked'.disturbed = FALSE \/ asked'.disturbed = TRUE
  BY <1>1 DEF SInv, Asked
<1>3. asked' \in [listMode : SUBSET ListMode, flags : SUBSET Flag,
                file : FileName \cup {"default"}, home : HomeDir \cup {"default"},
                disturbed : BOOLEAN]
  BY <1>1, <1>2 DEF SInv, Asked
<1>4. ~Idling => asked'.disturbed
  BY <1>1 DEF SInv, Asked
<1>5. Idling /\ ~asked'.disturbed => listMode' = Converted(asked'.listMode)
  BY <1>1 DEF SInv, Asked, SettingsKept, Converted
<1>6. SettingsTypeOK'
  BY <1>1 DEF SInv, SettingsTypeOK, Converted
<1>7. Asked'
  BY <1>3, <1>4 DEF SInv, Asked, Idling
<1>8. SettingsKept'
  BY <1>1, <1>2, <1>5, <1>6 DEF SInv, SettingsKept, Idling, EngineInfo
<1>9. QED
  BY <1>6, <1>7, <1>8, JobsSurviveSetting DEF SInv

\* The other attributes do not concern the export.
LEMMA AskedKept ==
  ASSUME SInv, UNCHANGED <<proto, oldMode>>,
         asked' \in [listMode : SUBSET ListMode, flags : SUBSET Flag,
                     file : FileName \cup {"default"}, home : HomeDir \cup {"default"},
                     disturbed : BOOLEAN],
         asked'.listMode = asked.listMode, asked'.disturbed = asked.disturbed
  PROVE  Asked'
BY DEF SInv, Asked, Idling

\* setArmor(), setTextMode(), setOffline()
LEMMA FlagKept ==
  ASSUME SInv, NEW f \in Flag, NEW on \in BOOLEAN, SetFlag(f, on),
         UNCHANGED <<proto, orphans, oldMode>>,
         job' = IF Idling THEN NoJob ELSE job
  PROVE  SInv'
<1>1. /\ flags' \subseteq Flag
      /\ asked' = [asked EXCEPT !.flags = flags']
      /\ UNCHANGED <<listMode, engine, notations>>
  BY DEF SetFlag, SInv, SettingsTypeOK
<1>2. /\ asked' \in [listMode : SUBSET ListMode, flags : SUBSET Flag,
                     file : FileName \cup {"default"}, home : HomeDir \cup {"default"},
                     disturbed : BOOLEAN]
      /\ asked'.listMode = asked.listMode /\ asked'.disturbed = asked.disturbed
      /\ asked'.file = asked.file /\ asked'.home = asked.home /\ asked'.flags = flags'
  BY <1>1 DEF SInv, Asked
<1>3. SettingsTypeOK'
  BY <1>1 DEF SInv, SettingsTypeOK
<1>4. SettingsKept'
  BY <1>1, <1>2, <1>3 DEF SInv, SettingsKept, Idling, EngineInfo
<1>5. QED
  BY <1>2, <1>3, <1>4, AskedKept, JobsSurviveSetting DEF SInv

\* setEngineFileName() and setEngineHomeDirectory(): the other value of the two
\* is that of the first engine, which is set as well only if it is the context's.
LEMMA EngineKept ==
  ASSUME SInv, proto # "none",
         (\E f \in FileName : SetEngineFileName(f)) \/ \E h \in HomeDir : SetEngineHomeDirectory(h),
         UNCHANGED <<proto, orphans, oldMode>>,
         job' = IF Idling THEN NoJob ELSE job
  PROVE  SInv'
<1> USE EngineNames
<1>1. PICK file \in FileName \cup {"default"}, home \in HomeDir \cup {"default"} :
        /\ engine' = [engine EXCEPT ![proto] = [file |-> file, home |-> home]]
        /\ \/ home = EngineInfo.home /\ asked' = [asked EXCEPT !.file = file]
           \/ file = EngineInfo.file /\ asked' = [asked EXCEPT !.home = home]
        /\ UNCHANGED <<listMode, flags, notations>>
  BY DEF SetEngineFileName, SetEngineHomeDirectory, EngineInfo, SInv, SettingsTypeOK
<1>2. /\ asked' \in [listMode : SUBSET ListMode, flags : SUBSET Flag,
                     file : FileName \cup {"default"}, home : HomeDir \cup {"default"},
                     disturbed : BOOLEAN]
      /\ asked'.listMode = asked.listMode /\ asked'.disturbed = asked.disturbed
      /\ asked'.flags = asked.flags
      /\ \/ home = EngineInfo.home /\ asked'.file = file /\ asked'.home = asked.home
         \/ file = EngineInfo.file /\ asked'.home = home /\ asked'.file = asked.file
  BY <1>1 DEF SInv, Asked
<1>3. /\ engine'[proto] = [file |-> file, home |-> home]
      /\ \A e \in ToSet(Engines) \ {proto} : engine'[e] = engine[e]
  BY <1>1 DEF SInv, SettingsTypeOK
<1>4. SettingsTypeOK'
  BY <1>1 DEF SInv, SettingsTypeOK
<1>5. \/ engine'[proto] = [file |-> asked'.file, home |-> asked'.home]
      \/ /\ proto # Engines[1]
         /\ \/ engine'[proto].file = asked'.file /\ engine'[proto].home = engine'[Engines[1]].home
            \/ engine'[proto].home = asked'.home /\ engine'[proto].file = engine'[Engines[1]].file
  <2>1. CASE proto = Engines[1]
    BY <1>2, <1>3, <2>1 DEF SInv, SettingsKept, EngineInfo
  <2>2. CASE proto # Engines[1]
    BY <1>2, <1>3, <2>2 DEF EngineInfo
  <2>3. QED
    BY <2>1, <2>2
<1>6. SettingsKept'
  BY <1>1, <1>2, <1>3, <1>4, <1>5 DEF SInv, SettingsKept, Idling, EngineInfo
<1>7. QED
  BY <1>2, <1>4, <1>6, AskedKept, JobsSurviveSetting DEF SInv

\* addSignatureNotation() and the like.
LEMMA NotationsKept ==
  ASSUME SInv, ClearNotations \/ \E note \in {"url", "named"} : AddNotation(note),
         UNCHANGED <<proto, orphans, oldMode>>,
         job' = IF Idling THEN NoJob ELSE job
  PROVE  SInv'
<1>1. notations' \in Seq({"url", "named"}) /\ UNCHANGED <<listMode, flags, engine, asked>>
  <2>1. CASE ClearNotations
    BY <2>1 DEF ClearNotations
  <2>2. ASSUME NEW note \in {"url", "named"}, AddNotation(note)
        PROVE  notations' \in Seq({"url", "named"}) /\ UNCHANGED <<listMode, flags, engine, asked>>
    <3>1. notations \in Seq({"url", "named"})
      BY DEF SInv, SettingsTypeOK
    <3>2. QED
      BY <2>2, <3>1 DEF AddNotation
  <2>3. QED
    BY <2>1, <2>2
<1>2. SettingsTypeOK'
  BY <1>1 DEF SInv, SettingsTypeOK
<1>3. SettingsKept'
  BY <1>1, <1>2 DEF SInv, SettingsKept, Idling, EngineInfo
<1>4. QED
  BY <1>1, <1>2, <1>3, AskedKept, JobsSurviveSetting DEF SInv, Asked

-----------------------------------------------------------------------------
(* The keys *)

\* The keys of an operation.
LEMMA GivenKeys ==
  ASSUME NEW ks \in Given
  PROVE  \A n \in DOMAIN ks : ks[n] \in KeyObject
BY DEF Given

\* The patterns are the names of the keys that have one.
LEMMA PatternsAreOwners ==
  ASSUME NEW ks \in Given
  PROVE  /\ Patterns(ks) \subseteq Owners(ks)
         /\ \A n \in DOMAIN ks : ks[n].of \in Patterns(ks) \/ Unnamed(ks[n])
<1> USE SettingsAssumption, GivenKeys
<1>1. ASSUME NEW n \in DOMAIN ks
      PROVE  /\ Pattern(ks[n]) \subseteq {ks[n].of} \ {"nobody"}
             /\ ks[n].of \in Pattern(ks[n]) \/ Unnamed(ks[n])
  <2>1. /\ ks[n].fpr \in {"null", "empty", "full"} /\ ks[n].keyid \in {"null", "full"}
        /\ ks[n].of = "nobody" => ks[n].fpr = "null" /\ ks[n].keyid = "null"
    BY DEF KeyShape, NullKey
  <2>2. CASE ks[n].fpr = "full"
    BY <2>1, <2>2 DEF Pattern
  <2>3. CASE ks[n].fpr = "empty"
    BY <2>1, <2>3 DEF Pattern, Unnamed
  <2>4. CASE ks[n].fpr = "null"
    BY <2>1, <2>4 DEF Pattern, Unnamed
  <2>5. QED
    BY <2>1, <2>2, <2>3, <2>4
<1>2. QED
  BY <1>1 DEF Patterns, Owners

\* A job that says the truth about its keys.
Told(j) ==
  j.kind # "none" =>
    /\ j.how = "passphrase" => j.keys = <<>>
    /\ j.how = "everybody" => proto = "CMS" /\ \A n \in DOMAIN j.keys : Unnamed(j.keys[n])
    /\ j.to \subseteq Owners(j.keys)
    /\ \A n \in DOMAIN j.keys :
         \/ j.keys[n].of \in j.to \cup {"nobody"}
         \/ j.kind \in {"export", "import"} /\ proto = "CMS" /\ Unnamed(j.keys[n])
    /\ j.only /\ j.more => j.kind = "signAndEncrypt" /\ ~HasNoEncryptTo

\* encrypt(), signAndEncrypt(), createVFS(), importKeys()
LEMMA OnKeysTold ==
  ASSUME SInv, NEW ks \in Given, OnKeys(ks)
  PROVE  /\ Told(job') /\ UNCHANGED <<flags, engine, notations, asked>>
         /\ \/ UNCHANGED <<listMode, oldMode>>
            \/ /\ oldMode' = listMode /\ listMode' = {"extern"}
               /\ job'.kind = "export" /\ job'.only = FALSE
<1> USE SettingsAssumption DEF settings
<1>1. \A n \in DOMAIN ks : ks[n].of \in Owners(ks) \cup {"nobody"}
  BY DEF Owners
<1>2. ASSUME NEW kind \in {"encrypt", "signAndEncrypt"}, NEW only \in BOOLEAN, Encrypt(kind, ks, only)
      PROVE  Told(job') /\ UNCHANGED <<flags, engine, notations, asked, listMode, oldMode>>
  <2>1. /\ job' = [kind |-> kind, keys |-> ks, only |-> only, to |-> Owners(ks),
                   how  |-> IF Recipients(ks) = "null" THEN "passphrase" ELSE "keys",
                   more |-> ~(only /\ HasNoEncryptTo)]
        /\ ~(kind = "encrypt" /\ only /\ ~HasNoEncryptTo)
        /\ UNCHANGED <<settings, oldMode, asked>>
    BY <1>2 DEF Encrypt
  <2>2. job'.how = "passphrase" => ks = <<>>
    BY <2>1 DEF Recipients
  <2>3. job'.how # "everybody"
    BY <2>1
  <2>4. job'.only /\ job'.more => job'.kind = "signAndEncrypt" /\ ~HasNoEncryptTo
    BY <2>1
  <2>5. job'.keys = ks /\ job'.to = Owners(ks)
    BY <2>1
  <2>6. QED
    BY <1>1, <2>1, <2>2, <2>3, <2>4, <2>5 DEF Told
<1>3. CASE CreateVFS(ks) \/ ImportKeys(ks)
  <2>1. /\ job'.keys = ks /\ job'.to = Owners(ks) /\ job'.only = FALSE /\ job'.how = "keys"
        /\ UNCHANGED <<settings, oldMode, asked>>
    BY <1>3 DEF CreateVFS, ImportKeys, NoJob
  <2>2. QED
    BY <1>1, <2>1 DEF Told
<1>4. CASE ImportByExport(ks)
  <2>1. /\ job'.keys = ks /\ job'.to = Patterns(ks) /\ job'.only = FALSE /\ job'.kind = "export"
        /\ job'.how = IF Patterns(ks) = {} THEN "everybody" ELSE "keys"
        /\ proto = "CMS" /\ oldMode' = listMode /\ listMode' = {"extern"}
        /\ UNCHANGED <<flags, engine, notations, asked>>
    BY <1>4 DEF ImportByExport, NoJob
  <2>2. QED
    BY <2>1, PatternsAreOwners DEF Told
<1>5. QED
  BY <1>2, <1>3, <1>4 DEF OnKeys

LEMMA KeysKept ==
  ASSUME SInv, Idling, proto # "none", UNCHANGED <<proto, orphans>>,
         \E ks \in Given : OnKeys(ks)
  PROVE  SInv'
<1> USE SettingsAssumption
<1>1. /\ Told(job') /\ UNCHANGED <<flags, engine, notations, asked>>
      /\ \/ UNCHANGED <<listMode, oldMode>>
         \/ /\ oldMode' = listMode /\ listMode' = {"extern"}
            /\ job'.kind = "export" /\ job'.only = FALSE
  BY OnKeysTold
<1>2. KeysGiven'
  BY <1>1 DEF Told, KeysGiven
<1>3. CASE UNCHANGED <<listMode, oldMode>>
  BY <1>1, <1>2, <1>3
     DEF SInv, SettingsTypeOK, Asked, SettingsKept, Exporting, Idling, EngineInfo
<1>4. CASE /\ oldMode' = listMode /\ listMode' = {"extern"}
           /\ job'.kind = "export" /\ job'.only = FALSE
  <2>1. listMode \subseteq ListMode \ OldModes /\ "none" \notin listMode
    BY DEF SInv, SettingsTypeOK
  <2>2. ~Idling'
    BY <1>4, <2>1 DEF Idling
  <2>3. SettingsTypeOK'
    BY <1>1, <1>4, <2>1 DEF SInv, SettingsTypeOK
  <2>4. Asked'
    BY <1>1, <1>4, <2>1 DEF SInv, Asked, SettingsKept
  <2>5. SettingsKept'
    BY <1>1, <2>2, <2>3 DEF SInv, SettingsKept, EngineInfo
  <2>6. QED
    BY <1>2, <1>4, <2>3, <2>4, <2>5 DEF SInv, Exporting
<1>5. QED
  BY <1>1, <1>3, <1>4

\* The export of importKeys() is over, and its mode is set back.
LEMMA ExportedKeeps ==
  ASSUME SInv, NEW ok \in BOOLEAN, Exported(ok), proto # "none", UNCHANGED <<proto, orphans>>
  PROVE  SInv'
<1>1. /\ ~Idling /\ oldMode' = {"none"} /\ listMode' = oldMode
      /\ job' = NoJob \/ job' = [job EXCEPT !.kind = "import"]
      /\ UNCHANGED <<flags, engine, notations, asked>>
  BY DEF Exported
<1>2. SettingsTypeOK'
  BY <1>1 DEF SInv, SettingsTypeOK, Asked
<1>3. Asked' /\ Exporting'
  BY <1>1 DEF SInv, Asked, Exporting, Idling
<1>4. SettingsKept'
  BY <1>1, <1>2 DEF SInv, Asked, SettingsKept, EngineInfo
<1>5. KeysGiven'
  <2>1. CASE job' = NoJob
    BY <2>1 DEF NoJob, KeysGiven
  <2>2. CASE job' = [job EXCEPT !.kind = "import"]
    <3>1. /\ job.kind = "export" /\ job'.keys = job.keys /\ job'.how = job.how
          /\ job'.to = job.to /\ job'.only = FALSE /\ job'.kind = "import"
      BY <1>1, <2>2 DEF SInv, Exporting
    <3>2. QED
      BY <3>1 DEF SInv, KeysGiven
  <2>3. QED
    BY <1>1, <2>1, <2>2
<1>6. QED
  BY <1>2, <1>3, <1>4, <1>5 DEF SInv

LEMMA SettingsStep ==
  ASSUME SInv, [SettingsNext]_settingsVars
  PROVE  SInv'
<1>1. CASE UNCHANGED settingsVars
  BY <1>1 DEF settingsVars, settings, SInv, SettingsTypeOK, Asked, SettingsKept, Exporting,
              KeysGiven, Idling, EngineInfo
<1>2. CASE CreateForProtocol \/ CreateForEngine \/ Delete
  BY <1>2, ContextsKeepSettings
<1>3. CASE /\ proto # "none" /\ UNCHANGED <<proto, orphans>>
           /\ Set /\ job' = (IF Idling THEN NoJob ELSE job) /\ UNCHANGED oldMode
  BY <1>3, ModeKept, FlagKept, EngineKept, NotationsKept DEF Set
<1>4. CASE /\ proto # "none" /\ UNCHANGED <<proto, orphans>>
           /\ Idling /\ \E ks \in Given : OnKeys(ks)
  BY <1>4, KeysKept
<1>5. CASE /\ proto # "none" /\ UNCHANGED <<proto, orphans>>
           /\ \E ok \in BOOLEAN : Exported(ok)
  BY <1>5, ExportedKeeps
<1>6. QED
  BY <1>1, <1>2, <1>3, <1>4, <1>5 DEF SettingsNext

LEMMA SettingsInductive == SettingsSpec => []SInv
BY SettingsInitHolds, SettingsStep, PTL DEF SettingsSpec

\* A context's settings are those that the application asked for last, but for
\* the two exceptions in the definition: for any bits, flags, names, engines
\* and keys, and whatever is set while importKeys() exports.
THEOREM SettingsSurvive == SettingsSpec => []SettingsKept
<1>1. SInv => SettingsKept
  BY DEF SInv
<1>2. QED
  BY <1>1, SettingsInductive, PTL

\* gpgme works with the keys of those who were named and of nobody else, but
\* for the exceptions in the definition: for any number of keys of any shape.
THEOREM KeysAsGiven == SettingsSpec => []KeysGiven
<1>1. SInv => KeysGiven
  BY DEF SInv
<1>2. QED
  BY <1>1, SettingsInductive, PTL

-----------------------------------------------------------------------------
(* The results *)

\* The lists of results, and that of the notations of a signature.
ListNames == {"head", "recipients", "sigs", "created", "invalid", "imports", "nota"}

\* The tables of all kinds: what is duplicated is freed and nothing else is,
\* what is returned is not left with gpgme, and only signatures have notations.
Consistent(k) ==
  /\ \A l \in DOMAIN Returned[k] :
       /\ l \in Lists(k)
       /\ \A f \in Returned[k][l] : f \in DOMAIN Copies[k][l] /\ Copies[k][l][f] \in {"dup", "inline"}
  /\ \A l \in Lists(k) :
       /\ l \notin {"nota", "purls"}
       /\ \A f \in DOMAIN Copies[k][l] :
            Copies[k][l][f] = "dup" => l \in DOMAIN Frees[k] /\ f \in Frees[k][l]
  /\ \A l \in DOMAIN Frees[k] \cap Lists(k) : \A f \in Frees[k][l] : Copies[k][l][f] = "dup"
  /\ "sigs" \in Lists(k) => k = "verify"

LEMMA TablesAgree == \A k \in AllKinds : Consistent(k) /\ k # "none"
<1> USE DEF Consistent, Lists, Returned, Copies, Frees
<1>1. Consistent("decrypt")
  BY DEF DecryptCopies, DecryptFrees, DecryptReads, RecipientReads
<1>2. Consistent("verify")
  BY DEF VerifyCopies, VerifyFrees, VerifyReads, SignatureReads
<1>3. Consistent("sign")
  BY DEF SignCopies, SignFrees, SignReads
<1>4. Consistent("encrypt")
  BY DEF EncryptCopies, EncryptFrees, EncryptReads
<1>5. Consistent("import")
  BY DEF ImportCopies, ImportFrees, ImportReads
<1>6. Consistent("keygen")
  BY DEF KeygenCopies, KeygenFrees, KeygenReads
<1>7. Consistent("mount")
  BY DEF MountCopies, MountFrees, MountReads
<1>8. Consistent("assuan")
  BY DEF AssuanCopies, AssuanFrees, AssuanReads
<1>9. Consistent("notation")
  BY DEF NotationCopies, NotationFrees, NotationReads
<1>10. AllKinds = {"decrypt", "verify", "sign", "encrypt", "import", "keygen",
                   "mount", "assuan", "notation"}
  BY DEF AllKinds
<1> HIDE DEF Consistent
<1>11. QED
  BY <1>1, <1>2, <1>3, <1>4, <1>5, <1>6, <1>7, <1>8, <1>9, <1>10

LEMMA ListsHaveNames == \A k \in AllKinds : Lists(k) \subseteq ListNames
<1> SUFFICES ASSUME NEW k \in AllKinds
             PROVE  DOMAIN Copies[k] \subseteq ListNames
  BY DEF Lists
<1> QED
  BY DEF AllKinds, Copies, DecryptCopies, VerifyCopies, SignCopies, EncryptCopies, ImportCopies,
         KeygenCopies, MountCopies, AssuanCopies, NotationCopies, ListNames

LEMMA VerifyFreesNotations ==
  /\ {"nota", "purls"} \subseteq DOMAIN Frees["verify"]
  /\ Frees["verify"]["nota"] = {"name", "value"} /\ Frees["verify"]["purls"] = {"url"}
BY DEF Frees, VerifyFrees

\* What a result of gpgme's is made of.
LEMMA ReportParts ==
  ASSUME NEW r \in Report
  PROVE  /\ r.kind \in Kind /\ r.kind \in AllKinds /\ r.full \in BOOLEAN
         /\ r.size \in [Lists(r.kind) -> 0 .. MaxElems]
         /\ r.notes \in NotesOf(r.kind, r.size)
<1>1. PICK k \in Kind : \E f \in Sizes(k) :
        r \in [kind : {k}, full : BOOLEAN, size : {f}, notes : NotesOf(k, f)]
  BY DEF Report
<1>2. PICK f \in Sizes(k) :
        r \in [kind : {k}, full : BOOLEAN, size : {f}, notes : NotesOf(k, f)]
  BY <1>1
<1>3. f \in [Lists(k) -> 0 .. MaxElems]
  BY DEF Sizes
<1>4. QED
  BY <1>2, <1>3, ResultsAssumption

\* The notations of each signature.
LEMMA NotesParts ==
  ASSUME NEW r \in Report
  PROVE  /\ r.kind # "verify" => DOMAIN r.notes = {}
         /\ r.kind = "verify" => /\ "sigs" \in Lists(r.kind)
                                 /\ DOMAIN r.notes = 1 .. r.size["sigs"]
         /\ \A n \in DOMAIN r.notes : r.notes[n] \in Seq({"named", "url"})
<1>1. r.notes \in [1 .. (IF r.kind = "verify" THEN r.size["sigs"] ELSE 0) -> NoteLists]
  BY ReportParts DEF NotesOf
<1>2. "sigs" \in Lists("verify")
  BY DEF Lists, Copies, VerifyCopies
<1>3. DOMAIN r.notes = IF r.kind = "verify" THEN 1 .. r.size["sigs"] ELSE {}
  BY <1>1
<1>4. \A n \in DOMAIN r.notes : r.notes[n] \in Seq({"named", "url"})
  <2>1. \A n \in DOMAIN r.notes : r.notes[n] \in NoteLists
    BY <1>1
  <2>2. QED
    BY <2>1, ResultsAssumption
<1>5. QED
  BY <1>2, <1>3, <1>4

\* A finite sequence's policy URL is one of its elements, if there is one.
LEMMA URLFound ==
  ASSUME NEW note \in Seq({"named", "url"}), PolicyURL(note) # 0
  PROVE  PolicyURL(note) \in URLs(note)
<1>1. URLs(note) # {}
  BY DEF PolicyURL
<1> DEFINE T == {Len(note) - k : k \in URLs(note)}
<1>2. URLs(note) \subseteq 1 .. Len(note) /\ Len(note) \in Nat
  BY DEF URLs
<1>3. T \subseteq Nat /\ T # {}
  BY <1>1, <1>2
<1>4. PICK x \in T : \A y \in T : ~(<<y, x>> \in OpToRel(<, Nat))
  BY <1>3, NatLessThanWellFounded, WFMin, Zenon
<1>5. PICK k \in URLs(note) : x = Len(note) - k
  OBVIOUS
<1>6. \A m \in URLs(note) : m <= k
  <2> SUFFICES ASSUME NEW m \in URLs(note), ~(m <= k)
               PROVE  FALSE
    OBVIOUS
  <2>1. Len(note) - m \in T /\ Len(note) - m < x /\ Len(note) - m \in Nat /\ x \in Nat
    BY <1>2, <1>3, <1>5
  <2>2. <<Len(note) - m, x>> \in OpToRel(<, Nat)
    BY <2>1 DEF OpToRel
  <2>3. QED
    BY <1>4, <2>1, <2>2
<1>7. QED
  BY <1>1, <1>6 DEF PolicyURL

LEMMA NamedCount ==
  ASSUME NEW note \in Seq({"named", "url"})
  PROVE  Cardinality(Named(note)) \in Nat
<1>1. Named(note) \subseteq 1 .. Len(note) /\ Len(note) \in Nat
  BY DEF Named
<1>2. IsFiniteSet(1 .. Len(note))
  BY <1>1, FS_Interval
<1>3. QED
  BY <1>1, <1>2, FS_Subset, FS_CardinalityType

-----------------------------------------------------------------------------
\* A Private in p at s, with its texts in hp, is a copy of a result of gpgme's.
CopyOf(r, s, p, hp) == p[s] = Copied(r) /\ {t \in hp : t.slot = s} = Duplicates(s, r)
IsCopy(s, p, hp)    == \E r \in Report : CopyOf(r, s, p, hp)

\* An element shares a result that has its list.
Elem == [slot : Slot \cup {NoSlot}, list : ListNames, n : 1 .. MaxElems + 1, k : 1 .. MaxElems + 1]
GoodElem(e, p) ==
  e.slot # NoSlot =>
    /\ p[e.slot] # Dead
    /\ \/ e.list \in Lists(p[e.slot].kind) /\ e.list \notin {"head", "recipients"}
       \/ e.list = "nota" /\ p[e.slot].kind = "verify"

\* The Private objects p, their texts and the variables.
GoodPriv(p, hp) ==
  /\ p \in [Slot -> {Dead} \cup {Copied(r) : r \in Report}]
  /\ \A s \in Slot : p[s] # Dead => IsCopy(s, p, hp)
  /\ \A t \in hp : t.slot \in Slot /\ p[t.slot] # Dead
GoodVars(rs, es, p) ==
  /\ rs \in [ResultVar -> Slot \cup {NoSlot}] /\ \A v \in ResultVar : rs[v] # NoSlot => p[rs[v]] # Dead
  /\ es \in [ElemVar -> Elem] /\ \A x \in ElemVar : GoodElem(es[x], p)

RInv ==
  /\ GoodPriv(priv, heap) /\ GoodVars(res, elem, priv)
  /\ fresh \subseteq Slot /\ misfreed = FALSE
  /\ leaked \subseteq {[list |-> "purls", kind |-> "verify"]}

LEMMA CopiedIsAlive == \A r \in Report : Copied(r) # Dead /\ Copied(r).kind = r.kind
<1> SUFFICES ASSUME NEW r \in Report
             PROVE  Copied(r) # Dead /\ Copied(r).kind = r.kind
  OBVIOUS
<1>1. Copied(r).kind = r.kind /\ Dead.kind = "none" /\ r.kind # "none"
  BY ReportParts, TablesAgree DEF Copied, Dead
<1>2. QED
  BY <1>1

-----------------------------------------------------------------------------
\* What a result's destructor leaves is a policy URL that was overwritten.
LEMMA RestIsPolicyURL ==
  ASSUME RInv, NEW s \in Slot, priv[s] # Dead, NEW t \in heap, t.slot = s, t \notin FreedBy(s)
  PROVE  t.list = "purls" /\ priv[s].kind = "verify"
<1>1. PICK r \in Report : CopyOf(r, s, priv, heap)
  BY DEF RInv, GoodPriv, IsCopy
<1>2. /\ priv[s].kind = r.kind /\ t \in Duplicates(s, r)
      /\ r.kind \in AllKinds /\ Consistent(r.kind)
  BY <1>1, CopiedIsAlive, ReportParts, TablesAgree DEF CopyOf
<1>3. ASSUME NEW l \in Lists(r.kind), t \in ListTexts(s, r, l)
      PROVE  FALSE
  <2>1. t.list = l /\ t.field \in Duplicated(r.kind, l)
    BY <1>3 DEF ListTexts, Text
  <2>2. l \notin {"nota", "purls"} /\ l \in DOMAIN Frees[r.kind] /\ t.field \in Frees[r.kind][l]
    BY <1>2, <2>1 DEF Consistent, Duplicated
  <2>3. QED
    BY <1>2, <2>1, <2>2 DEF FreedBy
<1>4. ASSUME NEW n \in DOMAIN r.notes, t \in NoteTexts(s, n, r.notes[n])
      PROVE  t.list = "purls" /\ r.kind = "verify"
  <2>1. \/ t.list = "nota" /\ t.field[2] \in {"name", "value"}
        \/ t.list = "purls"
    BY <1>4 DEF NoteTexts, Text
  <2>2. r.kind = "verify"
    BY NotesParts
  <2>3. t.list # "nota"
    BY <1>2, <2>1, <2>2, VerifyFreesNotations DEF FreedBy
  <2>4. QED
    BY <2>1, <2>2, <2>3
<1>5. \/ \E l \in Lists(r.kind) : t \in ListTexts(s, r, l)
      \/ \E n \in DOMAIN r.notes : t \in NoteTexts(s, n, r.notes[n])
  BY <1>2 DEF Duplicates
<1>6. QED
  BY <1>2, <1>3, <1>4, <1>5

\* No destructor frees what is gpgme's.
LEMMA NothingForeign ==
  ASSUME RInv, NEW s \in Slot, priv[s] # Dead
  PROVE  ~FreesForeign(s)
<1>1. PICK r \in Report : priv[s] = Copied(r)
  BY DEF RInv, GoodPriv, IsCopy, CopyOf
<1>2. priv[s].kind \in AllKinds /\ Consistent(priv[s].kind)
  BY <1>1, CopiedIsAlive, ReportParts, TablesAgree
<1>3. QED
  BY <1>2 DEF FreesForeign, Consistent

\* What no result variable holds is as it was.
OthersKept(rs, ps, hp) ==
  \A s \in Slot : \/ \E v \in ResultVar : rs[v] = s
                  \/ ps[s] = priv[s] /\ {t \in hp : t.slot = s} = {t \in heap : t.slot = s}

\* The variables change, after objects and texts were made for some of them.
LEMMA SetAllKeeps ==
  ASSUME RInv, NEW rs, NEW es, NEW ps, NEW hp,
         GoodPriv(ps, hp), GoodVars(rs, es, ps),
         OthersKept(rs, ps, hp), SetAll(rs, es, ps, hp)
  PROVE  RInv'
<1> DEFINE users == {rs[r] : r \in ResultVar} \cup {es[e].slot : e \in ElemVar}
           gone  == {s \in Slot : ps[s] # Dead /\ s \notin users}
           rest  == {t \in hp : t.slot \in gone} \ UNION {FreedBy(s) : s \in gone}
<1>1. /\ res' = rs /\ elem' = es
      /\ priv' = [s \in Slot |-> IF s \in gone THEN Dead ELSE ps[s]]
      /\ heap' = {t \in hp : t.slot \notin gone}
      /\ leaked' = leaked \cup {[list |-> t.list, kind |-> ps[t.slot].kind] : t \in rest}
      /\ fresh' \subseteq Slot
      /\ misfreed' = (misfreed \/ \E s \in gone : FreesForeign(s))
  BY DEF SetAll, RInv
<1>2. \A s \in gone : ps[s] = priv[s] /\ {t \in hp : t.slot = s} = {t \in heap : t.slot = s}
  BY DEF OthersKept
<1> HIDE DEF gone
<1>3. misfreed' = FALSE
  <2>1. ASSUME NEW s \in gone PROVE ~FreesForeign(s)
    BY <1>2, NothingForeign DEF gone
  <2>2. QED
    BY <1>1, <2>1 DEF RInv
<1>4. leaked' \subseteq {[list |-> "purls", kind |-> "verify"]}
  <2>1. ASSUME NEW t \in rest
        PROVE  t.list = "purls" /\ ps[t.slot].kind = "verify"
    <3>1. t.slot \in gone /\ t \in heap /\ t \notin FreedBy(t.slot)
      BY <1>2
    <3>2. t.slot \in Slot /\ priv[t.slot] = ps[t.slot] /\ priv[t.slot] # Dead
      BY <1>2, <3>1 DEF gone
    <3>3. QED
      BY <3>1, <3>2, RestIsPolicyURL
  <2> HIDE DEF rest
  <2>2. QED
    BY <1>1, <2>1 DEF RInv
<1>5. \A s \in Slot : priv'[s] = IF s \in gone THEN Dead ELSE ps[s]
  BY <1>1
<1>6. GoodPriv(priv, heap)'
  <2>1. priv' \in [Slot -> {Dead} \cup {Copied(r) : r \in Report}]
    BY <1>1 DEF GoodPriv
  <2>2. \A s \in Slot : priv'[s] # Dead => IsCopy(s, priv', heap')
    <3> SUFFICES ASSUME NEW s \in Slot, priv'[s] # Dead
                 PROVE  IsCopy(s, priv', heap')
      OBVIOUS
    <3>1. s \notin gone /\ priv'[s] = ps[s]
      BY <1>5
    <3>2. {t \in heap' : t.slot = s} = {t \in hp : t.slot = s}
      BY <1>1, <3>1
    <3>3. PICK r \in Report : CopyOf(r, s, ps, hp)
      BY <3>1 DEF GoodPriv, IsCopy
    <3>4. CopyOf(r, s, priv', heap')
      BY <3>1, <3>2, <3>3 DEF CopyOf
    <3>5. QED
      BY <3>4 DEF IsCopy
  <2>3. \A t \in heap' : t.slot \in Slot /\ priv'[t.slot] # Dead
    BY <1>1, <1>5 DEF GoodPriv
  <2>4. QED
    BY <2>1, <2>2, <2>3 DEF GoodPriv
<1>7. GoodVars(res, elem, priv)'
  <2>1. \A s \in Slot \cap users : priv'[s] = ps[s]
    BY <1>5 DEF gone
  <2>2. \A v \in ResultVar : rs[v] # NoSlot => priv'[rs[v]] # Dead
    BY <2>1 DEF GoodVars
  <2>3. \A x \in ElemVar : GoodElem(es[x], priv')
    BY <2>1 DEF GoodVars, GoodElem, Elem
  <2>4. QED
    BY <1>1, <2>2, <2>3 DEF GoodVars
<1>8. QED
  BY <1>1, <1>3, <1>4, <1>6, <1>7 DEF RInv

-----------------------------------------------------------------------------
(* The operations on results *)

LEMMA DuplicatesAreTexts ==
  ASSUME NEW s, NEW r, NEW t \in Duplicates(s, r)
  PROVE  t.slot = s
BY DEF Duplicates, ListTexts, NoteTexts, Text

\* Only variables change.
LEMMA VarsKeep ==
  ASSUME RInv, NEW rs, NEW es, GoodVars(rs, es, priv), SetAll(rs, es, priv, heap)
  PROVE  RInv'
<1>1. OthersKept(rs, priv, heap)
  BY DEF OthersKept
<1>2. QED
  BY <1>1, SetAllKeeps DEF RInv

\* The constructors of results.
LEMMA FetchKeeps ==
  ASSUME RInv, NEW v \in ResultVar, Fetch(v)
  PROVE  RInv'
<1> USE ResultsAssumption
<1>1. CASE SetAll([res EXCEPT ![v] = NoSlot], elem, priv, heap)
  <2>1. GoodVars([res EXCEPT ![v] = NoSlot], elem, priv)
    BY DEF RInv, GoodVars
  <2>2. QED
    BY <1>1, <2>1, VarsKeep
<1>2. ASSUME NEW r \in Report, NEW s \in Slot, priv[s] = Dead,
             NEW rs, rs = [res EXCEPT ![v] = s],
             NEW ps, ps = [priv EXCEPT ![s] = Copied(r)],
             NEW hp, hp = heap \cup Duplicates(s, r),
             SetAll(rs, elem, ps, hp)
      PROVE  RInv'
  <2>1. /\ \A x \in Slot : ps[x] = IF x = s THEN Copied(r) ELSE priv[x]
        /\ ps \in [Slot -> {Dead} \cup {Copied(q) : q \in Report}]
        /\ Copied(r) # Dead
    BY <1>2, CopiedIsAlive DEF RInv, GoodPriv
  <2>2. \A t \in heap : t.slot # s /\ t.slot \in Slot /\ priv[t.slot] # Dead
    BY <1>2 DEF RInv, GoodPriv
  <2>3. {t \in hp : t.slot = s} = Duplicates(s, r)
    BY <1>2, <2>2, DuplicatesAreTexts
  <2>4. \A x \in Slot \ {s} : {t \in hp : t.slot = x} = {t \in heap : t.slot = x}
    BY <1>2, DuplicatesAreTexts
  <2>5. \A x \in Slot : ps[x] # Dead => IsCopy(x, ps, hp)
    <3>1. IsCopy(s, ps, hp)
      BY <2>1, <2>3 DEF IsCopy, CopyOf
    <3>2. ASSUME NEW x \in Slot \ {s}, ps[x] # Dead
          PROVE  IsCopy(x, ps, hp)
      BY <2>1, <2>4, <3>2 DEF IsCopy, CopyOf, RInv, GoodPriv
    <3>3. QED
      BY <3>1, <3>2
  <2>6. \A t \in hp : t.slot \in Slot /\ ps[t.slot] # Dead
    BY <1>2, <2>1, <2>2, DuplicatesAreTexts
  <2>7. GoodPriv(ps, hp)
    BY <2>1, <2>5, <2>6 DEF GoodPriv
  <2>8. rs \in [ResultVar -> Slot \cup {NoSlot}] /\ rs[v] = s
        /\ \A w \in ResultVar : rs[w] # NoSlot => ps[rs[w]] # Dead
    BY <1>2, <2>1 DEF RInv, GoodVars
  <2>9. \A x \in ElemVar : elem[x].slot # NoSlot => ps[elem[x].slot] = priv[elem[x].slot]
    BY <1>2, <2>1 DEF RInv, GoodVars, GoodElem, Elem
  <2>10. GoodVars(rs, elem, ps)
    <3>1. \A x \in ElemVar : GoodElem(elem[x], ps)
      BY <2>9 DEF RInv, GoodVars, GoodElem
    <3>2. QED
      BY <2>8, <3>1 DEF RInv, GoodVars
  <2>11. OthersKept(rs, ps, hp)
    BY <2>1, <2>4, <2>8 DEF OthersKept
  <2>12. QED
    BY <1>2, <2>7, <2>10, <2>11, SetAllKeeps
<1>3. QED
  BY <1>1, <1>2 DEF Fetch

LEMMA CopyResultKeeps ==
  ASSUME RInv, NEW v \in ResultVar, NEW w \in ResultVar, CopyResult(v, w)
  PROVE  RInv'
<1>1. GoodVars([res EXCEPT ![v] = res[w]], elem, priv)
  BY DEF RInv, GoodVars
<1>2. QED
  BY <1>1, VarsKeep DEF CopyResult

LEMMA GoodVarsWith ==
  ASSUME RInv, NEW e \in ElemVar, NEW x \in Elem, GoodElem(x, priv)
  PROVE  GoodVars(res, [elem EXCEPT ![e] = x], priv)
BY DEF RInv, GoodVars

LEMMA ElementKeeps ==
  ASSUME RInv, NEW e \in ElemVar, NEW v \in ResultVar, Element(e, v)
  PROVE  RInv'
<1> USE ResultsAssumption
<1>1. CASE SetAll(res, [elem EXCEPT ![e] = NoElem], priv, heap)
  <2>1. NoElem \in Elem /\ GoodElem(NoElem, priv)
    BY ResultsAssumption DEF NoElem, Elem, GoodElem, ListNames
  <2>2. QED
    BY <1>1, <2>1, GoodVarsWith, VarsKeep
<1>2. ASSUME res[v] # NoSlot, NEW list \in Lists(priv[res[v]].kind) \ {"head", "recipients"},
             NEW n \in 1 .. MaxElems + 1,
             SetAll(res, [elem EXCEPT ![e] = [NoElem EXCEPT !.slot = res[v], !.list = list, !.n = n]],
                    priv, heap)
      PROVE  RInv'
  <2> DEFINE x == [NoElem EXCEPT !.slot = res[v], !.list = list, !.n = n]
  <2>1. NoElem \in Elem
    BY DEF NoElem, Elem, ListNames
  <2>2. res[v] \in Slot /\ priv[res[v]] # Dead
    BY <1>2 DEF RInv, GoodVars
  <2>3. list \in ListNames
    <3>1. PICK r \in Report : priv[res[v]] = Copied(r)
      BY <2>2 DEF RInv, GoodPriv
    <3>2. priv[res[v]].kind \in AllKinds
      BY <3>1, CopiedIsAlive, ReportParts
    <3>3. QED
      BY <3>2, ListsHaveNames
  <2>4. x \in Elem /\ x.slot = res[v] /\ x.list = list
    BY <2>1, <2>2, <2>3 DEF Elem
  <2>5. GoodElem(x, priv)
    BY <2>2, <2>4 DEF GoodElem
  <2> HIDE DEF x
  <2>6. GoodVars(res, [elem EXCEPT ![e] = x], priv)
    BY <2>4, <2>5, GoodVarsWith
  <2>7. SetAll(res, [elem EXCEPT ![e] = x], priv, heap)
    BY <1>2 DEF x
  <2>8. QED
    BY <2>6, <2>7, VarsKeep
<1>3. QED
  BY <1>1, <1>2 DEF Element

LEMMA NotationKeeps ==
  ASSUME RInv, NEW e \in ElemVar, NEW f \in ElemVar, NotationOf(e, f)
  PROVE  RInv'
<1>1. PICK k \in 1 .. MaxElems + 1 :
        SetAll(res, [elem EXCEPT ![e] = [elem[f] EXCEPT !.list = "nota", !.k = k]], priv, heap)
  BY DEF NotationOf
<1> DEFINE x == [elem[f] EXCEPT !.list = "nota", !.k = k]
<1>2. elem[f] \in Elem /\ GoodElem(elem[f], priv) /\ elem[f].list = "sigs"
  BY DEF RInv, GoodVars, NotationOf
<1>3. x \in Elem /\ x.slot = elem[f].slot /\ x.list = "nota"
  BY <1>2 DEF Elem, ListNames
<1>4. elem[f].slot # NoSlot => priv[elem[f].slot] # Dead /\ priv[elem[f].slot].kind = "verify"
  <2> SUFFICES ASSUME elem[f].slot # NoSlot
               PROVE  priv[elem[f].slot] # Dead /\ priv[elem[f].slot].kind = "verify"
    OBVIOUS
  <2>1. elem[f].slot \in Slot /\ priv[elem[f].slot] # Dead
        /\ "sigs" \in Lists(priv[elem[f].slot].kind)
    BY <1>2 DEF Elem, GoodElem
  <2>2. PICK r \in Report : priv[elem[f].slot] = Copied(r)
    BY <2>1 DEF RInv, GoodPriv
  <2>3. QED
    BY <2>1, <2>2, CopiedIsAlive, ReportParts, TablesAgree DEF Consistent
<1>5. GoodElem(x, priv)
  BY <1>3, <1>4 DEF GoodElem
<1> HIDE DEF x
<1>6. QED
  <2>1. GoodVars(res, [elem EXCEPT ![e] = x], priv)
    BY <1>3, <1>5, GoodVarsWith
  <2>2. SetAll(res, [elem EXCEPT ![e] = x], priv, heap)
    BY <1>1 DEF x
  <2>3. QED
    BY <2>1, <2>2, VarsKeep

LEMMA ResultsInitHolds == ResultsInit => RInv
<1> USE ResultsAssumption
<1> SUFFICES ASSUME ResultsInit
             PROVE  RInv
  OBVIOUS
<1>1. NoElem \in Elem /\ GoodElem(NoElem, priv)
  BY ResultsAssumption DEF NoElem, Elem, GoodElem, ListNames
<1>2. GoodPriv(priv, heap) /\ GoodVars(res, elem, priv)
  BY <1>1 DEF ResultsInit, GoodPriv, GoodVars
<1>3. QED
  BY <1>2 DEF ResultsInit, RInv

LEMMA ResultsStep ==
  ASSUME RInv, [ResultsNext]_resultVars
  PROVE  RInv'
<1>1. CASE UNCHANGED resultVars \/ Operate
  <2>1. UNCHANGED <<priv, res, elem, heap, leaked, misfreed>> /\ fresh' \subseteq Slot
    BY <1>1 DEF resultVars, Operate, RInv
  <2>2. QED
    BY <2>1 DEF RInv
<1>2. CASE \E v \in ResultVar : Fetch(v) \/ \E w \in ResultVar : CopyResult(v, w)
  BY <1>2, FetchKeeps, CopyResultKeeps
<1>3. CASE \E e \in ElemVar, v \in ResultVar : Element(e, v)
  BY <1>3, ElementKeeps
<1>4. CASE \E e, f \in ElemVar : NotationOf(e, f)
  BY <1>4, NotationKeeps
<1>5. QED
  BY <1>1, <1>2, <1>3, <1>4 DEF ResultsNext

LEMMA ResultsInductive == ResultsSpec => []RInv
BY ResultsInitHolds, ResultsStep, PTL DEF ResultsSpec

-----------------------------------------------------------------------------
(* What holds of results *)

\* What a copy says of itself.
LEMMA CopyParts ==
  ASSUME RInv, NEW s \in Slot, priv[s] # Dead
  PROVE  \E r \in Report :
           /\ CopyOf(r, s, priv, heap)
           /\ r.kind \in AllKinds /\ r.kind \in Kind /\ Consistent(r.kind)
           /\ r.size \in [Lists(r.kind) -> 0 .. MaxElems]
           /\ priv[s].kind = r.kind /\ priv[s].full = r.full /\ priv[s].size = r.size
           /\ priv[s].nota = [i \in DOMAIN r.notes |-> Cardinality(Named(r.notes[i]))]
           /\ priv[s].purls = [i \in DOMAIN r.notes |-> PolicyURL(r.notes[i])]
<1>1. PICK r \in Report : CopyOf(r, s, priv, heap)
  BY DEF RInv, GoodPriv, IsCopy
<1>2. priv[s] = Copied(r)
  BY <1>1 DEF CopyOf
<1>3. QED
  BY <1>1, <1>2, ReportParts, TablesAgree DEF Copied

\* The notations of signatures are among what is duplicated.
LEMMA NotationTexts ==
  ASSUME NEW s, NEW r \in Report, NEW n \in DOMAIN r.notes
  PROVE  /\ \A k \in 1 .. Cardinality(Named(r.notes[n])) :
              Text(s, "nota", n, <<k, "name">>) \in Duplicates(s, r)
         /\ \A k \in URLs(r.notes[n]) : Text(s, "purls", n, <<k, "url">>) \in Duplicates(s, r)
<1>1. NoteTexts(s, n, r.notes[n]) \subseteq Duplicates(s, r)
  BY DEF Duplicates
<1>2. \A k \in 1 .. Cardinality(Named(r.notes[n])) :
        Text(s, "nota", n, <<k, "name">>) \in NoteTexts(s, n, r.notes[n])
  BY DEF NoteTexts
<1>3. \A k \in URLs(r.notes[n]) :
        Text(s, "purls", n, <<k, "url">>) \in NoteTexts(s, n, r.notes[n])
  <2> SUFFICES ASSUME NEW k \in URLs(r.notes[n])
               PROVE  Text(s, "purls", n, <<k, "url">>) \in NoteTexts(s, n, r.notes[n])
    OBVIOUS
  <2>1. Text(s, "purls", n, <<k, "url">>) \in {Text(s, "purls", n, <<m, "url">>) : m \in URLs(r.notes[n])}
    OBVIOUS
  <2>2. QED
    BY <2>1 DEF NoteTexts
<1>4. QED
  BY <1>1, <1>2, <1>3

LEMMA OwnTexts == RInv => ResultsOwnTexts
<1> SUFFICES ASSUME RInv, NEW s \in Slot, priv[s] # Dead, priv[s].full,
                    NEW l \in DOMAIN Returned[priv[s].kind], NEW n \in 1 .. priv[s].size[l],
                    NEW f \in Returned[priv[s].kind][l],
                    Copies[priv[s].kind][l][f] # "inline"
             PROVE  Copies[priv[s].kind][l][f] = "dup" /\ Text(s, l, n, f) \in heap
  BY DEF ResultsOwnTexts
<1>1. PICK r \in Report : /\ CopyOf(r, s, priv, heap) /\ Consistent(r.kind)
                          /\ priv[s].kind = r.kind /\ priv[s].full = r.full /\ priv[s].size = r.size
  BY CopyParts
<1>2. l \in Lists(r.kind) /\ f \in DOMAIN Copies[r.kind][l] /\ Copies[r.kind][l][f] = "dup"
  BY <1>1 DEF Consistent
<1>3. Text(s, l, n, f) \in ListTexts(s, r, l)
  BY <1>1, <1>2 DEF ListTexts, Duplicated
<1>4. ListTexts(s, r, l) \subseteq Duplicates(s, r)
  BY <1>1, <1>2 DEF Duplicates
<1>5. QED
  BY <1>1, <1>2, <1>3, <1>4 DEF CopyOf

LEMMA InRange == RInv => ElementsInRange
<1> SUFFICES ASSUME RInv, NEW x \in ElemVar, NEW e, e = elem[x], e.slot # NoSlot
             PROVE  /\ priv[e.slot] # Dead
                    /\ ~ElementNull(e) /\ e.list = "sigs" =>
                         /\ e.n \in DOMAIN priv[e.slot].nota /\ e.n \in DOMAIN priv[e.slot].purls
                         /\ priv[e.slot].purls[e.n] # 0 =>
                              Text(e.slot, "purls", e.n, <<priv[e.slot].purls[e.n], "url">>) \in heap
                    /\ ~ElementNull(e) /\ e.list = "nota" =>
                         Text(e.slot, "nota", e.n, <<e.k, "name">>) \in heap
  BY DEF ElementsInRange
<1>1. /\ e.slot \in Slot /\ priv[e.slot] # Dead /\ e.n \in 1 .. MaxElems + 1 /\ e.k \in 1 .. MaxElems + 1
      /\ \/ e.list \in Lists(priv[e.slot].kind)
         \/ e.list = "nota" /\ priv[e.slot].kind = "verify"
  BY DEF RInv, GoodVars, GoodElem, Elem
<1>2. PICK r \in Report :
        /\ CopyOf(r, e.slot, priv, heap) /\ Consistent(r.kind)
        /\ r.size \in [Lists(r.kind) -> 0 .. MaxElems]
        /\ priv[e.slot].kind = r.kind /\ priv[e.slot].size = r.size
        /\ priv[e.slot].nota = [i \in DOMAIN r.notes |-> Cardinality(Named(r.notes[i]))]
        /\ priv[e.slot].purls = [i \in DOMAIN r.notes |-> PolicyURL(r.notes[i])]
  BY <1>1, CopyParts
<1>3. Duplicates(e.slot, r) \subseteq heap
  BY <1>2 DEF CopyOf
<1>4. ASSUME ~ElementNull(e), e.list = "sigs"
      PROVE  /\ e.n \in DOMAIN priv[e.slot].nota /\ e.n \in DOMAIN priv[e.slot].purls
             /\ priv[e.slot].purls[e.n] # 0 =>
                  Text(e.slot, "purls", e.n, <<priv[e.slot].purls[e.n], "url">>) \in heap
  <2>1. r.kind = "verify" /\ "sigs" \in Lists(r.kind) /\ DOMAIN r.notes = 1 .. r.size["sigs"]
    BY <1>1, <1>2, <1>4, NotesParts DEF Consistent
  <2>2. ~(e.n > r.size["sigs"]) /\ r.size["sigs"] \in Nat
    BY <1>2, <1>4, <2>1, ResultsAssumption DEF ElementNull
  <2>3. e.n \in DOMAIN r.notes
    BY <1>1, <2>1, <2>2, ResultsAssumption
  <2>4. priv[e.slot].purls[e.n] = PolicyURL(r.notes[e.n]) /\ r.notes[e.n] \in Seq({"named", "url"})
    BY <1>2, <2>3, NotesParts
  <2>5. QED
    BY <1>2, <1>3, <2>3, <2>4, URLFound, NotationTexts
<1>5. ASSUME ~ElementNull(e), e.list = "nota"
      PROVE  Text(e.slot, "nota", e.n, <<e.k, "name">>) \in heap
  <2>1. r.kind = "verify" /\ "sigs" \in Lists(r.kind) /\ DOMAIN r.notes = 1 .. r.size["sigs"]
    BY <1>1, <1>2, <1>5, NotesParts DEF Consistent
  <2>2. r.size["sigs"] \in Nat
    BY <1>2, <2>1, ResultsAssumption
  <2>3. Len(priv[e.slot].nota) = r.size["sigs"]
    BY <1>2, <2>1, <2>2
  <2>4. ~(e.n > r.size["sigs"]) /\ ~(e.k > priv[e.slot].nota[e.n])
    BY <1>5, <2>3 DEF ElementNull
  <2>5. e.n \in DOMAIN r.notes
    BY <1>1, <2>1, <2>2, <2>4, ResultsAssumption
  <2>6. priv[e.slot].nota[e.n] = Cardinality(Named(r.notes[e.n]))
        /\ Cardinality(Named(r.notes[e.n])) \in Nat
    BY <1>2, <2>5, NotesParts, NamedCount
  <2>7. e.k \in 1 .. Cardinality(Named(r.notes[e.n]))
    BY <1>1, <2>4, <2>6, ResultsAssumption
  <2>8. QED
    BY <1>3, <2>5, <2>7, NotationTexts
<1>6. QED
  BY <1>1, <1>4, <1>5

\* No accessor of a result or of an element reads what gpgme has freed, nor
\* beyond what the result has: for any number of results, variables, elements
\* and notations, and after any operations of the context.
THEOREM ResultsStayReadable == ResultsSpec => []NoStaleReads
BY OwnTexts, InRange, ResultsInductive, PTL DEF NoStaleReads

LEMMA FreedOfInv == RInv => FreedWithResult
<1> SUFFICES ASSUME RInv
             PROVE  FreedWithResult
  OBVIOUS
<1>1. \A s \in Slot : priv[s] = Dead \/ priv[s].kind \in Kind
  BY CopyParts
<1>2. misfreed \in BOOLEAN
  BY Zenon DEF RInv
<1>3. ResultsTypeOK
  BY <1>1, <1>2 DEF ResultsTypeOK, RInv, GoodVars, Elem
<1>4. QED
  BY <1>3 DEF FreedWithResult, RInv, GoodPriv

\* What a result duplicated is freed with it, but for policy URLs that others
\* of the same signature have overwritten, and nothing of gpgme's is freed.
THEOREM ResultsFreeTheirOwn == ResultsSpec => []FreedWithResult
BY FreedOfInv, ResultsInductive, PTL

-----------------------------------------------------------------------------
(* A context as a whole *)

LEMMA ContextInductive == MCSpec => [](IInv /\ RInv /\ SInv)
<1>1. MCInit => IInv /\ RInv /\ SInv
  BY InitEstablishes, ResultsInitHolds, SettingsInitHolds DEF MCInit
<1>2. IInv /\ RInv /\ SInv /\ [MCNext]_contextVars => (IInv /\ RInv /\ SInv)'
  <2>1. [MCNext]_contextVars => [Next]_vars /\ [ResultsNext]_resultVars /\ [SettingsNext]_settingsVars
    BY DEF MCNext, contextVars
  <2>2. QED
    BY <2>1, NextPreserves, ResultsStep, SettingsStep
<1>3. QED
  BY <1>1, <1>2, PTL DEF MCSpec

\* Operations, results and settings of one context together.
THEOREM ContextKeepsAll ==
  MCSpec => [](/\ CalleeExists /\ ErrorIsOutcome /\ ResultSurvives
               /\ NoStaleReads /\ FreedWithResult /\ SettingsKept /\ KeysGiven)
<1>1. IInv /\ RInv /\ SInv =>
        /\ CalleeExists /\ ErrorIsOutcome /\ ResultSurvives
        /\ NoStaleReads /\ FreedWithResult /\ SettingsKept /\ KeysGiven
  BY CalleeOfInv, ErrorOfInv, ResultOfInv, OwnTexts, InRange, FreedOfInv DEF NoStaleReads, SInv
<1>2. QED
  BY <1>1, ContextInductive, PTL
=============================================================================
