--------------------------- MODULE ContextSettings ---------------------------
(***************************************************************************)
(* GpgME::Context between its operations: how one is made, the attributes  *)
(* that gpgme stores for it, and the keys it is given to encrypt to and to *)
(* import.                                                                 *)
(*                                                                         *)
(* The two meet in importKeys(): where gpgme cannot import keys, it sets   *)
(* the key list mode, exports the keys, sets the mode back and imports     *)
(* what was exported.  The export may call the application back, for       *)
(* progress or a passphrase, and that may change the settings.             *)
(***************************************************************************)
EXTENDS Naturals, Sequences, SequencesExt

CONSTANTS
  ListMode,     \* the bits of key list modes
  OldModes,     \* those that the gpgme in use does not know
  Flag,         \* settings that are on or off: armor, text mode, offline
  FileName,     \* file names of engines
  HomeDir,      \* and home directories
  Engines,      \* the configured engines, in gpgme's order
  KeyObject,    \* the application's keys, see NullKey
  HasImportKeys, \* gpgme has gpgme_op_import_keys()
  HasNoEncryptTo,\* gpgme has GPGME_ENCRYPT_NO_ENCRYPT_TO
  MaxKeys,      \* most keys given to an operation (bound)
  MaxNotations  \* most signature notations (bound)

\* A Key object: null, or somebody's, with what it is known by.
NullKey == [of |-> "nobody", fpr |-> "null", keyid |-> "null"]
KeyShape == [of : STRING, fpr : {"null", "empty", "full"}, keyid : {"null", "full"}]

ASSUME SettingsAssumption ==
  /\ KeyObject \subseteq KeyShape
  /\ \A k \in KeyObject : k.of = "nobody" => k = NullKey
  /\ OldModes \subseteq ListMode
  /\ {"local", "extern"} \subseteq ListMode \ OldModes
  /\ "none" \notin ListMode
  /\ MaxKeys \in Nat /\ MaxNotations \in Nat
  /\ HasImportKeys \in BOOLEAN /\ HasNoEncryptTo \in BOOLEAN
  /\ Engines \in Seq({"OpenPGP", "CMS", "Assuan", "G13"}) /\ Engines # <<>>

VARIABLES
  proto,     \* the protocol of the context, "none" without one
  orphans,   \* gpgme contexts that nothing will release
  listMode,  \* gpgme's key list mode
  flags,     \* those that are on
  engine,    \* gpgme's file name and home directory for each engine
  notations, \* gpgme's list of signature notations: "url" or "named"
  oldMode,   \* importKeys()'s local variable, while it exports
  job,       \* the last operation on keys, see NoJob
  asked      \* what the application asked for last, setting by setting, and
             \* whether it was disturbed by an export when it set the mode

settings     == <<listMode, flags, engine, notations>>
settingsVars == <<proto, orphans, settings, oldMode, job, asked>>

\* The keys the application gave to an operation, whether it wants no others,
\* and whose keys gpgme was told to use: those in "to", or everybody's, or a
\* passphrase instead, and perhaps also those that gpg is configured with.
NoJob == [kind |-> "none", keys |-> <<>>, only |-> FALSE, to |-> {}, how |-> "keys",
          more |-> FALSE]

Idling == oldMode = {"none"}

-----------------------------------------------------------------------------
(* Making and deleting contexts *)

Default  == [file |-> "default", home |-> "default"]
Defaults == [e \in ToSet(Engines) |-> Default]
Untouched == [listMode |-> {"local"}, flags |-> {}, file |-> "default",
              home |-> "default", disturbed |-> FALSE]

\* A context's settings are gpgme's defaults.
Fresh ==
  /\ listMode' = {"local"} /\ flags' = {} /\ engine' = Defaults
  /\ notations' = <<>> /\ job' = NoJob /\ asked' = Untouched

\* The protocol that createForProtocol() and createForEngine() set, if they
\* know what they are asked for.
ByProtocol == [OpenPGP |-> "OpenPGP", CMS |-> "CMS"]
ByEngine   == [AssuanEngine |-> "Assuan", G13Engine |-> "G13"]

\* gpgme refuses the protocol if it has no such engine; the context is then
\* released again.  It is not, where the function does not know the argument.
CreateContext(known, arg) ==
  /\ proto = "none"
  /\ \/ /\ arg \in DOMAIN known /\ known[arg] \in ToSet(Engines)
        /\ proto' = known[arg]
        /\ UNCHANGED orphans
     \/ /\ arg \notin DOMAIN known
        /\ orphans' = orphans \cup {arg}
        /\ UNCHANGED proto
  /\ Fresh
  /\ UNCHANGED oldMode

CreateForProtocol == \E p \in {"OpenPGP", "CMS", "UnknownProtocol"} : CreateContext(ByProtocol, p)
CreateForEngine   == \E e \in {"AssuanEngine", "G13Engine", "UnknownEngine"} : CreateContext(ByEngine, e)

\* ~Context
Delete ==
  /\ proto # "none" /\ Idling
  /\ proto' = "none"
  /\ Fresh
  /\ UNCHANGED <<orphans, oldMode>>

-----------------------------------------------------------------------------
(* Attributes *)

\* The bits that become bits of gpgme's.
Converted(mode) == mode \ OldModes

SetKeyListMode(m) ==
  /\ listMode' = Converted(m)
  /\ asked' = [asked EXCEPT !.listMode = m, !.disturbed = ~Idling]
  /\ UNCHANGED <<flags, engine, notations>>

AddKeyListMode(m) ==
  /\ listMode' = listMode \cup Converted(m)
  /\ asked' = [asked EXCEPT !.listMode = @ \cup m, !.disturbed = @ \/ ~Idling]
  /\ UNCHANGED <<flags, engine, notations>>

\* setArmor(), setTextMode(), setOffline()
SetFlag(f, on) ==
  /\ flags' = IF on THEN flags \cup {f} ELSE flags \ {f}
  /\ asked' = [asked EXCEPT !.flags = flags']
  /\ UNCHANGED <<listMode, engine, notations>>

\* engineInfo(): the first in gpgme's list, whatever the protocol is.
EngineInfo == engine[Engines[1]]

\* setEngineFileName() and setEngineHomeDirectory(): gpgme takes both at once.
SetEngineFileName(f) ==
  /\ engine' = [engine EXCEPT ![proto] = [file |-> f, home |-> EngineInfo.home]]
  /\ asked' = [asked EXCEPT !.file = f]
  /\ UNCHANGED <<listMode, flags, notations>>

\* Mutant: the other one is set to the default.
MutSetEngineHomeDirectory(h) ==
  /\ engine' = [engine EXCEPT ![proto] = [file |-> "default", home |-> h]]
  /\ asked' = [asked EXCEPT !.home = h]
  /\ UNCHANGED <<listMode, flags, notations>>

SetEngineHomeDirectory(h) ==
  /\ engine' = [engine EXCEPT ![proto] = [file |-> EngineInfo.file, home |-> h]]
  /\ asked' = [asked EXCEPT !.home = h]
  /\ UNCHANGED <<listMode, flags, notations>>

\* addSignatureNotation(), addSignaturePolicyURL(), clearSignatureNotations()
AddNotation(note) ==
  /\ Len(notations) < MaxNotations
  /\ notations' = Append(notations, note)
  /\ UNCHANGED <<listMode, flags, engine, asked>>

ClearNotations ==
  /\ notations' = <<>>
  /\ UNCHANGED <<listMode, flags, engine, asked>>

\* signaturePolicyURL() finds the first, signatureNotation() counts the others;
\* both as positions in gpgme's list, 0 for none.
SignaturePolicyURL == SelectInSeq(notations, LAMBDA note : note = "url")
SignatureNotation(idx) ==
  SelectInSeq([n \in DOMAIN notations |->
                 IF notations[n] = "named"
                 THEN Len(SelectSeq(SubSeq(notations, 1, n), LAMBDA note : note = "named"))
                 ELSE 0],
              LAMBDA count : count = idx + 1)

-----------------------------------------------------------------------------
(* Keys *)

Given == UNION {[1 .. n -> KeyObject] : n \in 0 .. MaxKeys}

Owners(ks) == {ks[n].of : n \in DOMAIN ks} \ {"nobody"}

\* Mutant: without a key left there are no recipients.
MutRecipients(ks) == IF Owners(ks) = {} THEN "null" ELSE "array"

\* getKeysFromRecipients(): the array without null keys, null without keys.
Recipients(ks) == IF ks = <<>> THEN "null" ELSE "array"

\* encrypt() and signAndEncrypt(), and their asynchronous forms.  gpgme encrypts
\* symmetrically without an array, and refuses an empty one.
Encrypt(kind, ks, only) ==
  /\ ~(kind = "encrypt" /\ only /\ ~HasNoEncryptTo)
  /\ Recipients(ks) = "array" => Owners(ks) # {}
  /\ job' = [kind |-> kind, keys |-> ks, only |-> only,
             to   |-> Owners(ks),
             how  |-> IF Recipients(ks) = "null" THEN "passphrase" ELSE "keys",
             more |-> ~(only /\ HasNoEncryptTo)]
  /\ UNCHANGED <<settings, oldMode, asked>>

\* createVFS() makes its array itself, an empty one without keys.
CreateVFS(ks) ==
  /\ proto = "G13"
  /\ Owners(ks) # {}
  /\ job' = [NoJob EXCEPT !.kind = "createVFS", !.keys = ks, !.to = Owners(ks)]
  /\ UNCHANGED <<settings, oldMode, asked>>

\* The pattern that importKeys() exports a key by: its fingerprint, or without
\* one its key ID.  A null key has neither.
Pattern(k) ==
  CASE k.fpr = "full"                      -> {k.of}
    [] k.fpr = "null" /\ k.keyid = "full"  -> {k.of}
    [] OTHER                               -> {}
Patterns(ks) == UNION {Pattern(ks[n]) : n \in DOMAIN ks}

\* importKeys() with gpgme_op_import_keys(), where that works.
ImportKeys(ks) ==
  /\ HasImportKeys
  /\ job' = [NoJob EXCEPT !.kind = "import", !.keys = ks, !.to = Owners(ks)]
  /\ UNCHANGED <<settings, oldMode, asked>>

\* And where it does not, or not for CMS: export, and import what that gives.
ImportByExport(ks) ==
  /\ proto = "CMS"
  /\ oldMode' = listMode
  /\ listMode' = {"extern"}
  /\ job' = [NoJob EXCEPT !.kind = "export", !.keys = ks, !.to = Patterns(ks),
                          !.how = IF Patterns(ks) = {} THEN "everybody" ELSE "keys"]
  /\ UNCHANGED <<flags, engine, notations, asked>>

\* Mutant: an export that failed returns at once.
MutExported(ok) ==
  /\ ~Idling
  /\ oldMode' = {"none"}
  /\ IF ok THEN listMode' = oldMode /\ job' = [job EXCEPT !.kind = "import"]
     ELSE UNCHANGED listMode /\ job' = NoJob
  /\ UNCHANGED <<flags, engine, notations, asked>>

\* The export is over.
Exported(ok) ==
  /\ ~Idling
  /\ oldMode' = {"none"}
  /\ listMode' = oldMode
  /\ job' = IF ok THEN [job EXCEPT !.kind = "import"] ELSE NoJob
  /\ UNCHANGED <<flags, engine, notations, asked>>

-----------------------------------------------------------------------------
SettingsInit ==
  /\ proto = "none" /\ orphans = {}
  /\ listMode = {"local"} /\ flags = {} /\ engine = Defaults /\ notations = <<>>
  /\ oldMode = {"none"} /\ job = NoJob /\ asked = Untouched

\* Also from callbacks.  An operation that is over is then forgotten.
Set ==
  \/ \E m \in SUBSET ListMode : SetKeyListMode(m) \/ AddKeyListMode(m)
  \/ \E f \in Flag, on \in BOOLEAN : SetFlag(f, on)
  \/ \E f \in FileName : SetEngineFileName(f)
  \/ \E h \in HomeDir : SetEngineHomeDirectory(h)
  \/ \E note \in {"url", "named"} : AddNotation(note)
  \/ ClearNotations

OnKeys(ks) ==
  \/ \E kind \in {"encrypt", "signAndEncrypt"}, only \in BOOLEAN : Encrypt(kind, ks, only)
  \/ CreateVFS(ks)
  \/ ImportKeys(ks)
  \/ ImportByExport(ks)

SettingsNext ==
  \/ CreateForProtocol \/ CreateForEngine \/ Delete
  \/ /\ proto # "none"
     /\ \/ Set /\ job' = (IF Idling THEN NoJob ELSE job) /\ UNCHANGED oldMode
        \/ Idling /\ \E ks \in Given : OnKeys(ks)
        \/ \E ok \in BOOLEAN : Exported(ok)
     /\ UNCHANGED <<proto, orphans>>

SettingsSpec == SettingsInit /\ [][SettingsNext]_settingsVars

-----------------------------------------------------------------------------
(* Properties *)

SettingsTypeOK ==
  /\ proto \in ToSet(Engines) \cup {"none"}
  /\ orphans \subseteq {"UnknownProtocol", "UnknownEngine"}
  /\ listMode \subseteq ListMode \ OldModes
  /\ flags \subseteq Flag
  /\ engine \in [ToSet(Engines) -> [file : FileName \cup {"default"},
                                    home : HomeDir \cup {"default"}]]
  /\ notations \in Seq({"url", "named"})
  /\ oldMode = {"none"} \/ oldMode \subseteq ListMode

\* Whatever operations run in between, and however they end, the context is set
\* as the application asked last.  The exceptions: a key list mode that a
\* callback sets while importKeys() exports is lost, and a context that is not
\* for the first engine gets that engine's file name or home directory along
\* with the one that is set (lines 491 and 501 read the first engine's).
SettingsKept ==
  proto # "none" =>
    /\ SettingsTypeOK
    /\ Idling /\ ~asked.disturbed => listMode = Converted(asked.listMode)
    /\ flags = asked.flags
    /\ \A e \in ToSet(Engines) \ {proto} : engine[e] = Default
    /\ \/ engine[proto] = [file |-> asked.file, home |-> asked.home]
       \/ /\ proto # Engines[1]
          /\ \/ engine[proto].file = asked.file /\ engine[proto].home = EngineInfo.home
             \/ engine[proto].home = asked.home /\ engine[proto].file = EngineInfo.file

\* importKeys() has no name to export it by.
Unnamed(k) == k.fpr = "empty" \/ (k.fpr = "null" /\ k.keyid = "null")

\* gpgme works with the keys of all those whom the application named and of
\* nobody else, and does without keys only if none was given: null keys never
\* turn encryption to somebody into encryption with a passphrase.  The
\* exceptions: importKeys() by export leaves out keys that it has no name for,
\* those with an empty fingerprint also if they have a key ID, imports
\* everybody's keys if it has no name at all, and signAndEncrypt() does not say
\* that an old gpgme adds the recipients it is configured with.
KeysGiven ==
  job.kind # "none" =>
    /\ job.how = "passphrase" => job.keys = <<>>
    /\ job.how = "everybody" =>
         /\ proto = "CMS"
         /\ \A n \in DOMAIN job.keys : Unnamed(job.keys[n])
    /\ job.to \subseteq Owners(job.keys)
    /\ \A n \in DOMAIN job.keys :
         \/ job.keys[n].of \in job.to \cup {"nobody"}
         \/ job.kind \in {"export", "import"} /\ proto = "CMS" /\ Unnamed(job.keys[n])
    /\ job.only /\ job.more => job.kind = "signAndEncrypt" /\ ~HasNoEncryptTo
=============================================================================
