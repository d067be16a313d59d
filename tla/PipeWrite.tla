------------------------------ MODULE PipeWrite ------------------------------
(***************************************************************************)
(* How an answer gets through the pipe to gpg, byte by byte: the loop      *)
(* writeAll() under the edit callback and the loop in                      *)
(* passphrase_callback().  The kernel may take fewer bytes than offered,   *)
(* or fail at any write; it never takes 0 of a non-empty offer, which is   *)
(* what POSIX promises for a pipe (both loops would spin on it).           *)
(***************************************************************************)
EXTENDS Naturals, Sequences

CONSTANTS
  Byte,      \* the bytes of an answer
  Newline,   \* the byte that ends it
  MaxLen     \* length of the longest answer (bound)

ASSUME ByteAssumption == Newline \notin Byte /\ MaxLen \in Nat

NoError  == "NO_ERROR"
Canceled == "CANCELED"
System   == "SYSTEM"       \* whatever errno says

VARIABLES
  kind,      \* which callback runs: "edit" or "passphrase"
  text,      \* what it has to write, <<>> for "" or a null pointer
  canceled,  \* getPassphrase() said that the user canceled
  pc,        \* "provide", "write", "wipe", "newline", "returned"
  written,   \* bytes accounted for: count - toWrite, or "written"
  got,       \* what the reader of the pipe has received
  err,       \* the callback's error
  buffer     \* the passphrase memory: "none", "clear", "wiped", "freed"

vars == <<kind, text, canceled, pc, written, got, err, buffer>>

Texts == UNION {[1 .. n -> Byte] : n \in 0 .. MaxLen}
Remaining == Len(text) - written

Init ==
  /\ kind \in {"edit", "passphrase"}
  /\ text \in Texts
  /\ canceled \in (IF kind = "passphrase" THEN BOOLEAN ELSE {FALSE})
  /\ pc = "provide"
  /\ written = 0
  /\ got = <<>>
  /\ err = NoError
  /\ buffer = "none"

-----------------------------------------------------------------------------
\* action() has returned its line; an empty one goes straight to the newline.
EditStart ==
  /\ kind = "edit"
  /\ pc = "provide"
  /\ pc' = IF text = <<>> THEN "newline" ELSE "write"
  /\ UNCHANGED <<kind, text, canceled, written, got, err, buffer>>

\* Mutant: a short write is not repeated.
MutEditWriteOnce ==
  /\ kind = "edit"
  /\ pc = "write"
  /\ \E n \in 1 .. Remaining : got' = got \o SubSeq(text, 1, n) /\ written' = written + n
  /\ pc' = "newline"
  /\ UNCHANGED <<kind, text, canceled, err, buffer>>

\* writeAll(): the kernel takes n bytes.  "buf" is not advanced, so every
\* round offers the text from its beginning.
EditWrite ==
  /\ kind = "edit"
  /\ pc = "write"
  /\ \E n \in 1 .. Remaining :
       /\ got' = got \o SubSeq(text, 1, n)
       /\ written' = written + n
       /\ pc' = IF n = Remaining THEN "newline" ELSE "write"
  /\ UNCHANGED <<kind, text, canceled, err, buffer>>

\* Mutant: the newline is written in any case.
MutEditWriteFails ==
  /\ kind = "edit"
  /\ pc = "write"
  /\ err' = System
  /\ pc' = "newline"
  /\ UNCHANGED <<kind, text, canceled, written, got, buffer>>

\* A write fails, of the text or of the newline: the callback gives up.
EditWriteFails ==
  /\ kind = "edit"
  /\ pc \in {"write", "newline"}
  /\ err' = System
  /\ pc' = "returned"
  /\ UNCHANGED <<kind, text, canceled, written, got, buffer>>

EditNewline ==
  /\ kind = "edit"
  /\ pc = "newline"
  /\ got' = Append(got, Newline)
  /\ pc' = "returned"
  /\ UNCHANGED <<kind, text, canceled, written, err, buffer>>

-----------------------------------------------------------------------------
\* Mutant: a cancellation goes straight to the newline.
MutPassProvide ==
  /\ kind = "passphrase"
  /\ pc = "provide"
  /\ buffer' = IF text = <<>> THEN "none" ELSE "clear"
  /\ err' = IF canceled THEN Canceled ELSE NoError
  /\ pc' = IF canceled THEN "newline" ELSE IF text = <<>> THEN "wipe" ELSE "write"
  /\ UNCHANGED <<kind, text, canceled, written, got>>

\* PassphraseProvider::getPassphrase() returns; a provider may hand out
\* memory also when it reports a cancellation.
PassProvide ==
  /\ kind = "passphrase"
  /\ pc = "provide"
  /\ buffer' = IF text = <<>> THEN "none" ELSE "clear"
  /\ err' = IF canceled THEN Canceled ELSE NoError
  /\ pc' = IF canceled \/ text = <<>> THEN "wipe" ELSE "write"
  /\ UNCHANGED <<kind, text, canceled, written, got>>

\* Mutant: every round offers the passphrase from its beginning.
MutPassWrite ==
  /\ kind = "passphrase"
  /\ pc = "write"
  /\ \E n \in 1 .. Remaining :
       /\ got' = got \o SubSeq(text, 1, n)
       /\ written' = written + n
       /\ pc' = IF n = Remaining THEN "wipe" ELSE "write"
  /\ UNCHANGED <<kind, text, canceled, err, buffer>>

\* The kernel takes n of the bytes that are left.
PassWrite ==
  /\ kind = "passphrase"
  /\ pc = "write"
  /\ \E n \in 1 .. Remaining :
       /\ got' = got \o SubSeq(text, written + 1, written + n)
       /\ written' = written + n
       /\ pc' = IF n = Remaining THEN "wipe" ELSE "write"
  /\ UNCHANGED <<kind, text, canceled, err, buffer>>

\* Mutant: the error of a write is lost.
MutPassWriteFails ==
  /\ kind = "passphrase"
  /\ pc = "write"
  /\ pc' = "wipe"
  /\ UNCHANGED <<kind, text, canceled, written, got, err, buffer>>

\* A write fails: the loop is left, what follows it is not.
PassWriteFails ==
  /\ kind = "passphrase"
  /\ pc = "write"
  /\ err' = System
  /\ pc' = "wipe"
  /\ UNCHANGED <<kind, text, canceled, written, got, buffer>>

\* wipememory(), then free().
Wipe ==
  /\ pc = "wipe"
  /\ buffer # "wiped"
  /\ buffer' = IF buffer = "clear" THEN "wiped" ELSE buffer
  /\ pc' = IF buffer = "clear" THEN "wipe" ELSE "newline"
  /\ UNCHANGED <<kind, text, canceled, written, got, err>>

Free ==
  /\ pc = "wipe"
  /\ buffer = "wiped"
  /\ buffer' = "freed"
  /\ pc' = "newline"
  /\ UNCHANGED <<kind, text, canceled, written, got, err>>

\* The newline is written in any case, and its result ignored.
PassNewline ==
  /\ kind = "passphrase"
  /\ pc = "newline"
  /\ got' \in {got, Append(got, Newline)}
  /\ pc' = "returned"
  /\ UNCHANGED <<kind, text, canceled, written, err, buffer>>

Next ==
  \/ EditStart \/ EditWrite \/ EditWriteFails \/ EditNewline
  \/ PassProvide \/ PassWrite \/ PassWriteFails \/ Wipe \/ Free \/ PassNewline

Spec == Init /\ [][Next]_vars

-----------------------------------------------------------------------------
\* The values the variables range over; neither loop counts more bytes as
\* written than it has, so the unsigned toWrite does not wrap.
TypeOK ==
  /\ kind \in {"edit", "passphrase"}
  /\ text \in Texts
  /\ canceled \in BOOLEAN
  /\ pc \in {"provide", "write", "wipe", "newline", "returned"}
  /\ written \in 0 .. Len(text)
  /\ got \in Seq(Byte \cup {Newline})
  /\ err \in {NoError, Canceled, System}
  /\ buffer \in {"none", "clear", "wiped", "freed"}

Returned == pc = "returned"
LineOut  == got # <<>> /\ got[Len(got)] = Newline

\* The comment "if there's a result, write it:" in the edit callback: a call
\* that reports success has written the action's result and a newline.
ResultWritten ==
  kind = "edit" /\ Returned /\ err = NoError => got = Append(text, Newline)

\* Short writes or not, a successful edit callback has written as many bytes
\* as it should, and exactly one line; a failed one never completes a line, so
\* gpg does not act on half an answer before gpgme has ended the operation.
OneLine ==
  /\ TypeOK
  /\ kind = "edit" /\ Returned /\ err = NoError
       => /\ Len(got) = Len(text) + 1
          /\ \A k \in 1 .. Len(got) : got[k] = Newline <=> k = Len(got)
  /\ kind = "edit" /\ err # NoError => ~LineOut

\* However the kernel splits or breaks the transfer, gpg takes a line for the
\* passphrase that is not the passphrase only if the callback reports an
\* error, CANCELED or that of the write; before, it has a beginning of it.
WrongPassphraseReported ==
  kind = "passphrase"
    => /\ Returned /\ LineOut /\ got # Append(text, Newline) => err # NoError
       /\ ~LineOut => got = SubSeq(text, 1, written)

\* The passphrase is wiped before its memory is freed and before the newline
\* makes gpg go on, on the success, the failure and the cancel path.
WipedBeforeNewline ==
  /\ LineOut \/ Returned => buffer # "clear"
  /\ Returned /\ kind = "passphrase" /\ text # <<>> => buffer = "freed"
=============================================================================
