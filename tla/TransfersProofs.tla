--------------------------- MODULE TransfersProofs ---------------------------
(***************************************************************************)
(* Transfers through a pipe, for answers of any length and data of any     *)
(* size, however the kernel splits them and whenever they fail.            *)
(*                                                                         *)
(* What the pipe has received is tied to the place a callback has reached: *)
(* under the edit callback only its length (writeAll() offers the text     *)
(* from its beginning every time), under the passphrase callback its       *)
(* content.                                                                *)
(***************************************************************************)
EXTENDS MCTransfers, SequenceTheorems, TLAPS

\* Where an edit callback is, and what gpg has received by then.
Editing ==
  /\ pc \in {"provide", "write", "newline", "returned"}
  /\ pc = "provide" => written = 0
  /\ pc # "returned" => got \in Seq(Byte) /\ Len(got) = written /\ err = NoError
  /\ pc = "newline" => written = Len(text)
  /\ pc = "returned" /\ err # NoError => got \in Seq(Byte)
  /\ pc = "returned" /\ err = NoError =>
       \E line \in Seq(Byte) : Len(line) = Len(text) /\ got = Append(line, Newline)

\* What gpg has of the passphrase.
Beginning == SubSeq(text, 1, written)

\* Where a passphrase callback is, and its memory.
Answering ==
  /\ pc = "provide" => written = 0 /\ err = NoError /\ buffer = "none"
  /\ pc = "write" => err = NoError /\ buffer = "clear" /\ text # <<>>
  /\ pc = "wipe" => buffer \in {"none", "clear", "wiped"}
                    /\ (text = <<>> <=> buffer = "none")
  /\ pc \in {"newline", "returned"} => buffer = IF text = <<>> THEN "none" ELSE "freed"
  /\ pc \in {"wipe", "newline", "returned"} /\ err = NoError => written = Len(text)
  /\ got = Beginning \/ (pc = "returned" /\ got = Append(Beginning, Newline))

\* The invariant of the write loops.
WInv ==
  /\ kind \in {"edit", "passphrase"}
  /\ text \in Texts
  /\ canceled \in BOOLEAN
  /\ pc \in {"provide", "write", "wipe", "newline", "returned"}
  /\ written \in 0 .. Len(text)
  /\ err \in {NoError, Canceled, System}
  /\ buffer \in {"none", "clear", "wiped", "freed"}
  /\ kind = "edit" => Editing /\ buffer = "none"
  /\ kind = "passphrase" => Answering

-----------------------------------------------------------------------------
LEMMA TextsAreSequences == Texts \subseteq Seq(Byte)
<1> SUFFICES ASSUME NEW n \in 0 .. MaxLen, NEW t \in [1 .. n -> Byte]
             PROVE  t \in Seq(Byte)
  BY DEF Texts
<1>1. n \in Nat
  BY ByteAssumption
<1>2. QED
  BY <1>1, SeqDef

\* The last byte tells whether a line is complete.
LEMMA LinesEndInNewline ==
  ASSUME NEW s \in Seq(Byte)
  PROVE  /\ s = <<>> \/ s[Len(s)] # Newline
         /\ Append(s, Newline) # <<>>
         /\ Append(s, Newline) \in Seq(Byte \cup {Newline})
         /\ Len(Append(s, Newline)) = Len(s) + 1
         /\ \A k \in 1 .. Len(s) + 1 : Append(s, Newline)[k] = Newline <=> k = Len(s) + 1
<1>1. s \in Seq(Byte \cup {Newline}) /\ Len(s) \in Nat
  BY SeqMonotonic, LenProperties
<1>2. s # <<>> => Len(s) \in 1 .. Len(s)
  BY <1>1, EmptySeq
<1>3. \A k \in 1 .. Len(s) : s[k] \in Byte
  BY ElementOfSeq
<1>4. /\ Append(s, Newline) \in Seq(Byte \cup {Newline})
      /\ Append(s, Newline) # <<>>
      /\ Len(Append(s, Newline)) = Len(s) + 1
      /\ \A k \in 1 .. Len(s) : Append(s, Newline)[k] = s[k]
      /\ Append(s, Newline)[Len(s) + 1] = Newline
  BY <1>1, AppendProperties
<1>5. QED
  BY <1>1, <1>2, <1>3, <1>4, ByteAssumption

\* What a write of n bytes from place m on adds.
LEMMA PieceOfText ==
  ASSUME NEW t \in Seq(Byte), NEW m \in 0 .. Len(t), NEW n \in 0 .. Len(t) - m
  PROVE  /\ SubSeq(t, m + 1, m + n) \in Seq(Byte)
         /\ Len(SubSeq(t, m + 1, m + n)) = n
         /\ SubSeq(t, 1, m) \in Seq(Byte)
         /\ SubSeq(t, 1, m) \o SubSeq(t, m + 1, m + n) = SubSeq(t, 1, m + n)
<1>1. Len(t) \in Nat /\ \A k \in 1 .. Len(t) : t[k] \in Byte
  BY LenProperties, ElementOfSeq
<1>2. SubSeq(t, m + 1, m + n) \in Seq(Byte) /\ Len(SubSeq(t, m + 1, m + n)) = n
  <2>1. /\ m + 1 \in Int /\ m + n \in Int
        /\ \A i \in m + 1 .. m + n : t[i] \in Byte
    BY <1>1
  <2>2. /\ SubSeq(t, m + 1, m + n) \in Seq(Byte)
        /\ Len(SubSeq(t, m + 1, m + n)) = IF m + 1 <= m + n THEN (m + n) - (m + 1) + 1 ELSE 0
    BY <2>1, SubSeqProperties
  <2>3. QED
    BY <1>1, <2>2
<1>3. SubSeq(t, 1, m) \in Seq(Byte)
  BY <1>1, SubSeqProperties
<1>4. 1 \in 1 .. Len(t) + 1 /\ m \in 1 - 1 .. Len(t) /\ m + n \in m .. Len(t)
  BY <1>1
<1>5. QED
  BY <1>2, <1>3, <1>4, ConcatAdjacentSubSeq

LEMMA WInit == Init => WInv
<1> SUFFICES ASSUME Init
             PROVE  WInv
  OBVIOUS
<1>1. text \in Seq(Byte) /\ Len(text) \in Nat
  BY TextsAreSequences, LenProperties DEF Init
<1>2. written \in 0 .. Len(text) /\ canceled \in BOOLEAN
  <2>1. canceled \in BOOLEAN
    <3>1. CASE kind = "passphrase"
      BY <3>1, Zenon DEF Init
    <3>2. CASE kind # "passphrase"
      BY <3>2, Zenon DEF Init
    <3>3. QED
      BY <3>1, <3>2
  <2>2. QED
    BY <1>1, <2>1 DEF Init
<1>3. Editing
  BY EmptySeq DEF Init, Editing
<1>4. Beginning = <<>>
  BY SubSeqEmpty DEF Init, Beginning
<1>5. Answering
  BY <1>4 DEF Init, Answering
<1>6. QED
  BY <1>2, <1>3, <1>5 DEF Init, WInv

LEMMA EditPreserves ==
  ASSUME WInv, EditStart \/ EditWrite \/ EditWriteFails \/ EditNewline
  PROVE  WInv'
<1>1. /\ kind = "edit" /\ Editing /\ buffer = "none"
      /\ UNCHANGED <<kind, text, canceled, buffer>>
  BY DEF EditStart, EditWrite, EditWriteFails, EditNewline, WInv
<1>2. /\ text \in Seq(Byte) /\ Len(text) \in Nat /\ (text = <<>> => Len(text) = 0)
      /\ written \in 0 .. Len(text)
  BY TextsAreSequences, LenProperties, EmptySeq DEF WInv
<1>3. CASE EditStart
  <2>1. Editing' /\ UNCHANGED <<written, err>> /\ pc' \in {"newline", "write"}
    BY <1>1, <1>2, <1>3 DEF EditStart, Editing
  <2>2. QED
    BY <1>1, <2>1 DEF WInv
<1>4. CASE EditWrite
  <2>1. PICK n \in 1 .. Remaining :
          /\ got' = got \o SubSeq(text, 1, n)
          /\ written' = written + n
          /\ pc' = IF n = Remaining THEN "newline" ELSE "write"
    BY <1>4 DEF EditWrite
  <2>2. /\ pc = "write" /\ UNCHANGED err
        /\ got \in Seq(Byte) /\ Len(got) = written /\ err = NoError
    BY <1>1, <1>4 DEF EditWrite, Editing
  <2>3. n \in 0 .. Len(text) - 0 /\ 0 \in 0 .. Len(text) /\ n \in Nat
    BY <1>2, <2>1 DEF Remaining
  <2>4. SubSeq(text, 1, n) \in Seq(Byte) /\ Len(SubSeq(text, 1, n)) = n
    <3>1. SubSeq(text, 0 + 1, 0 + n) \in Seq(Byte) /\ Len(SubSeq(text, 0 + 1, 0 + n)) = n
      BY <1>2, <2>3, PieceOfText
    <3>2. 0 + 1 = 1 /\ 0 + n = n
      BY <2>3
    <3>3. QED
      BY <3>1, <3>2
  <2>5. got' \in Seq(Byte) /\ Len(got') = written'
    BY <2>1, <2>2, <2>4, ConcatProperties
  <2>6. /\ written' \in 0 .. Len(text)
        /\ pc' \in {"newline", "write"}
        /\ pc' = "newline" => written' = Len(text)
    BY <1>2, <2>1 DEF Remaining
  <2>7. Editing'
    BY <1>1, <2>2, <2>5, <2>6 DEF Editing
  <2>8. QED
    BY <1>1, <2>2, <2>6, <2>7 DEF WInv
<1>5. CASE EditWriteFails
  <2>1. /\ got \in Seq(Byte) /\ pc' = "returned" /\ err' = System /\ UNCHANGED <<written, got>>
    BY <1>1, <1>5 DEF EditWriteFails, Editing
  <2>2. Editing'
    BY <2>1 DEF Editing, System, NoError
  <2>3. QED
    BY <1>1, <2>1, <2>2 DEF WInv
<1>6. CASE EditNewline
  <2>1. /\ got \in Seq(Byte) /\ Len(got) = Len(text) /\ err = NoError
        /\ got' = Append(got, Newline) /\ pc' = "returned" /\ UNCHANGED <<written, err>>
    BY <1>1, <1>6 DEF EditNewline, Editing
  <2>2. Editing'
    BY <1>1, <2>1 DEF Editing
  <2>3. QED
    BY <1>1, <2>1, <2>2 DEF WInv
<1>7. QED
  BY <1>3, <1>4, <1>5, <1>6
LEMMA PassPreserves ==
  ASSUME WInv,
         kind = "passphrase",
         PassProvide \/ PassWrite \/ PassWriteFails \/ Wipe \/ Free \/ PassNewline
  PROVE  WInv'
<1>1. /\ Answering
      /\ UNCHANGED <<kind, text, canceled>>
  BY DEF PassProvide, PassWrite, PassWriteFails, Wipe, Free, PassNewline, WInv
<1>2. /\ text \in Seq(Byte) /\ Len(text) \in Nat /\ (text = <<>> => Len(text) = 0)
      /\ written \in 0 .. Len(text)
  BY TextsAreSequences, LenProperties, EmptySeq DEF WInv
\* Steps that neither write nor change what is written.
<1>3. ASSUME UNCHANGED <<written, got>>
      PROVE  Beginning' = Beginning
  BY <1>1, <1>3 DEF Beginning
<1>4. CASE PassProvide
  <2>1. Answering'
    BY <1>1, <1>2, <1>3, <1>4 DEF PassProvide, Answering, NoError, Canceled
  <2>2. QED
    BY <1>1, <1>4, <2>1 DEF PassProvide, WInv
<1>5. CASE PassWrite
  <2>1. PICK n \in 1 .. Remaining :
          /\ got' = got \o SubSeq(text, written + 1, written + n)
          /\ written' = written + n
          /\ pc' = IF n = Remaining THEN "wipe" ELSE "write"
    BY <1>5 DEF PassWrite
  <2>2. /\ UNCHANGED <<err, buffer>> /\ err = NoError /\ buffer = "clear" /\ text # <<>>
        /\ got = SubSeq(text, 1, written)
    BY <1>1, <1>5 DEF PassWrite, Answering, Beginning
  <2>3. n \in 0 .. Len(text) - written
    BY <1>2, <2>1 DEF Remaining
  <2>4. got' = SubSeq(text, 1, written + n)
    BY <1>2, <2>1, <2>2, <2>3, PieceOfText
  <2>5. /\ written' \in 0 .. Len(text)
        /\ pc' \in {"wipe", "write"}
        /\ pc' = "wipe" => written' = Len(text)
    BY <1>2, <2>1 DEF Remaining
  <2>6. Answering'
    BY <1>1, <2>1, <2>2, <2>4, <2>5 DEF Answering, Beginning
  <2>7. QED
    BY <1>1, <2>2, <2>5, <2>6 DEF WInv
<1>6. CASE PassWriteFails
  <2>1. Answering'
    BY <1>1, <1>3, <1>6 DEF PassWriteFails, Answering, NoError, System
  <2>2. QED
    BY <1>1, <1>6, <2>1 DEF PassWriteFails, WInv
<1>7. CASE Wipe
  <2>1. Answering'
    BY <1>1, <1>3, <1>7 DEF Wipe, Answering
  <2>2. QED
    BY <1>1, <1>7, <2>1 DEF Wipe, WInv
<1>8. CASE Free
  <2>1. Answering'
    BY <1>1, <1>3, <1>8 DEF Free, Answering
  <2>2. QED
    BY <1>1, <1>8, <2>1 DEF Free, WInv
<1>9. CASE PassNewline
  <2>1. /\ UNCHANGED <<written, err, buffer>> /\ pc' = "returned"
        /\ got = Beginning /\ got' \in {got, Append(got, Newline)}
        /\ Beginning' = Beginning
    BY <1>1, <1>9 DEF PassNewline, Answering, Beginning
  <2>2. Answering'
    BY <1>1, <1>9, <2>1 DEF PassNewline, Answering
  <2>3. QED
    BY <1>1, <1>9, <2>1, <2>2 DEF WInv
<1>10. QED
  BY <1>4, <1>5, <1>6, <1>7, <1>8, <1>9

LEMMA WNext == WInv /\ [Next]_vars => WInv'
<1> SUFFICES ASSUME WInv, [Next]_vars
             PROVE  WInv'
  OBVIOUS
<1>1. CASE EditStart \/ EditWrite \/ EditWriteFails \/ EditNewline
  BY <1>1, EditPreserves
<1>2. CASE PassProvide \/ PassWrite \/ PassWriteFails \/ Wipe \/ Free \/ PassNewline
  <2>1. kind = "passphrase"
    BY <1>2 DEF WInv, Editing, PassProvide, PassWrite, PassWriteFails, Wipe, Free, PassNewline
  <2>2. QED
    BY <1>2, <2>1, PassPreserves
<1>3. CASE UNCHANGED vars
  BY <1>3 DEF vars, WInv, Editing, Answering, Beginning
<1>4. QED
  BY <1>1, <1>2, <1>3 DEF Next

\* What the invariant says of gpg's side.
LEMMA WMeans == WInv => OneLine /\ WrongPassphraseReported /\ WipedBeforeNewline
<1> SUFFICES ASSUME WInv
             PROVE  OneLine /\ WrongPassphraseReported /\ WipedBeforeNewline
  OBVIOUS
<1>1. /\ text \in Seq(Byte) /\ Len(text) \in Nat /\ written \in 0 .. Len(text)
      /\ text = <<>> => Len(text) = 0
  BY TextsAreSequences, LenProperties, EmptySeq DEF WInv
<1>2. Beginning \in Seq(Byte)
  <2>1. \A k \in 1 .. written : text[k] \in Byte
    BY <1>1, ElementOfSeq
  <2>2. QED
    BY <1>1, <2>1, SubSeqProperties DEF Beginning
<1>3. CASE kind = "edit"
  <2>1. Editing /\ buffer = "none"
    BY <1>3 DEF WInv
  <2>2. CASE got \in Seq(Byte) /\ ~(pc = "returned" /\ err = NoError)
    <3>1. ~LineOut
      BY <2>2, LinesEndInNewline DEF LineOut
    <3>2. got \in Seq(Byte \cup {Newline})
      BY <2>2, SeqMonotonic
    <3>3. QED
      BY <1>3, <2>1, <2>2, <3>1, <3>2
         DEF WInv, OneLine, TypeOK, WrongPassphraseReported, WipedBeforeNewline, Returned
  <2>3. CASE pc = "returned" /\ err = NoError
    <3>1. PICK line \in Seq(Byte) : Len(line) = Len(text) /\ got = Append(line, Newline)
      BY <2>1, <2>3 DEF Editing
    <3>2. /\ got \in Seq(Byte \cup {Newline}) /\ Len(got) = Len(text) + 1
          /\ \A k \in 1 .. Len(got) : got[k] = Newline <=> k = Len(got)
      BY <3>1, LinesEndInNewline
    <3>3. QED
      BY <1>3, <2>1, <2>3, <3>2
         DEF WInv, OneLine, TypeOK, WrongPassphraseReported, WipedBeforeNewline, Returned
  <2>4. QED
    BY <2>1, <2>2, <2>3 DEF Editing, WInv
<1>4. CASE kind = "passphrase"
  <2>1. Answering
    BY <1>4 DEF WInv
  <2>2. /\ Beginning = <<>> \/ Beginning[Len(Beginning)] # Newline
        /\ Append(Beginning, Newline) # <<>>
        /\ Append(Beginning, Newline)[Len(Append(Beginning, Newline))] = Newline
        /\ Append(Beginning, Newline) \in Seq(Byte \cup {Newline})
    <3>1. Len(Beginning) \in Nat
      BY <1>2, LenProperties
    <3>2. QED
      BY <1>2, <3>1, LinesEndInNewline
  <2>3. Beginning \in Seq(Byte \cup {Newline})
    BY <1>2, SeqMonotonic
  <2>4. LineOut <=> pc = "returned" /\ got = Append(Beginning, Newline)
    BY <2>1, <2>2 DEF Answering, LineOut
  <2>5. written = Len(text) => Beginning = text
    BY <1>1, SubSeqFull DEF Beginning
  <2>6. OneLine
    BY <1>4, <2>1, <2>2, <2>3 DEF WInv, Answering, OneLine, TypeOK
  <2>7. WrongPassphraseReported
    BY <1>4, <2>1, <2>4, <2>5 DEF WInv, Answering, WrongPassphraseReported, Returned, Beginning
  <2>8. WipedBeforeNewline
    BY <1>4, <2>1, <2>4 DEF WInv, Answering, WipedBeforeNewline, Returned
  <2>9. QED
    BY <2>6, <2>7, <2>8
<1>5. QED
  BY <1>3, <1>4 DEF WInv
-----------------------------------------------------------------------------
(* Reading from a device *)

\* Every unit of data is left or has been read, unless a process crashed; errors
\* come from devices that failed or are at their end; gpgme reads on after an
\* error only when that was its last result; and it takes for complete what it
\* has read completely, or what a socket or an error ended.
DInv ==
  /\ Device!TypeOK
  /\ taken + left <= Total
  /\ device # "crashed" => taken + left = Total
  /\ source = "process" => device \in {"open", "finished", "crashed"}
  /\ device = "crashed" => source = "process"
  /\ device \in {"finished", "gone"} => left = 0
  /\ device \in {"open", "finished"} => ~mErrorOccurred
  /\ device \in {"open", "finished"} => reader # "failed"
  /\ mErrorOccurred /\ reader = "reading" => rc = "error" /\ device # "crashed"
  /\ reader = "complete" => mErrorOccurred \/ source = "socket" \/ taken = Total

LEMMA DInit == Device!Init => DInv
<1> SUFFICES ASSUME Device!Init
             PROVE  DInv
  OBVIOUS
<1>1. /\ source \in Kinds /\ left = Total /\ taken = 0 /\ device = "open"
      /\ errno \in {0, 1} /\ mErrorOccurred = FALSE /\ rc = "data" /\ reader = "reading"
  BY DEF Device!Init
<1>2. Device!TypeOK
  <2>1. left \in 0 .. Total
    BY <1>1, DeviceAssumption
  <2>2. taken \in 0 .. Total
    BY <1>1, DeviceAssumption
  <2>3. mErrorOccurred \in BOOLEAN
    BY <1>1, Zenon
  <2>4. errno \in {0, 1} /\ rc \in {"data", "eof", "error"} /\ device = "open" /\ reader \in {"reading", "complete", "failed"}
    BY <1>1
  <2>5. QED
    BY <1>1, <2>1, <2>2, <2>3, <2>4 DEF Device!TypeOK
<1>3. QED
  BY <1>1, <1>2, DeviceAssumption DEF DInv

LEMMA ReadPreserves == DInv /\ Device!Read => DInv'
<1> SUFFICES ASSUME DInv, Device!Read
             PROVE  DInv'
  OBVIOUS
<1> USE DeviceAssumption
<1>1. PICK n \in Device!DeviceRead :
        /\ Device!Deliver(n)
        /\ left' = IF n.num = "data" THEN left - 1 ELSE left
        /\ taken' = IF n.num = "data" THEN taken + 1 ELSE taken
  BY DEF Device!Read
<1>2. /\ reader = "reading" /\ UNCHANGED <<source, device>>
      /\ reader' = CASE rc' = "eof" -> "complete"
                      [] rc' = "error" /\ errno' # 0 -> "failed"
                      [] OTHER -> "reading"
  BY DEF Device!Read
<1>3. /\ source \in Kinds /\ left \in 0 .. Total /\ taken \in 0 .. Total
      /\ errno \in {0, 1} /\ mErrorOccurred \in BOOLEAN
      /\ device \in {"open", "finished", "gone", "crashed", "broken", "silent"}
      /\ taken + left <= Total
  BY DEF DInv, Device!TypeOK
\* What the device may answer.
<1>4. \/ /\ n = [num |-> "data", errno |-> errno]
         /\ left > 0 /\ device \in {"open", "finished", "crashed"}
      \/ /\ n = [num |-> "eof", errno |-> errno]
         /\ device = "finished" \/ source = "socket"
         /\ device \in {"open", "finished"}
      \/ /\ n = [num |-> "error", errno |-> 1]
         /\ device \in {"crashed", "broken"}
      \/ /\ n = [num |-> "error", errno |-> errno]
         /\ device \in {"gone", "silent"}
  <2>1. CASE source = "process"
    <3>1. n \in Device!ProcessRead
      BY <2>1 DEF Device!DeviceRead
    <3>2. QED
      BY <1>3, <2>1, <3>1 DEF Device!ProcessRead, DInv
  <2>2. CASE source # "process"
    <3>1. n \in Device!OtherRead
      BY <2>2 DEF Device!DeviceRead
    <3>2. CASE device \in {"finished", "gone", "crashed", "broken", "silent"}
      <4>1. device # "crashed"
        BY <2>2, <3>2 DEF DInv
      <4>2. QED
        BY <2>2, <3>1, <3>2, <4>1 DEF Device!OtherRead
    <3>3. CASE device = "open"
      <4>1. n \in {[num |-> r, errno |-> errno] :
                     r \in (IF left > 0 THEN {"data"} ELSE {})
                       \cup (IF source = "socket" THEN {"eof"} ELSE {})}
        BY <3>1, <3>3 DEF Device!OtherRead
      <4>2. QED
        BY <3>3, <4>1
    <3>4. QED
      BY <1>3, <3>2, <3>3
  <2>3. QED
    BY <2>1, <2>2
\* The device answers with data, with its end, or with an error.
<1>5. CASE /\ n = [num |-> "data", errno |-> errno]
           /\ left > 0 /\ device \in {"open", "finished", "crashed"}
  <2>1. /\ left' = left - 1 /\ taken' = taken + 1
        /\ errno' = errno /\ rc' = "data" /\ mErrorOccurred' = mErrorOccurred
    <3>1. n.num = "data" /\ n.errno = errno
      BY <1>5
    <3>2. /\ errno' = n.errno /\ rc' = n.num
          /\ mErrorOccurred' = (mErrorOccurred \/ n.num = "error")
      BY <1>1, <3>1 DEF Device!Deliver
    <3>3. mErrorOccurred' = mErrorOccurred
      BY <1>3, <3>1, <3>2
    <3>4. QED
      BY <1>1, <3>1, <3>2, <3>3
  <2>2. reader' = "reading"
    BY <1>2, <2>1
  <2>3. QED
    BY <1>2, <1>3, <1>5, <2>1, <2>2 DEF DInv, Device!TypeOK
<1>6. CASE /\ n = [num |-> "eof", errno |-> errno]
           /\ device = "finished" \/ source = "socket"
           /\ device \in {"open", "finished"}
  <2>1. /\ left' = left /\ taken' = taken
        /\ errno' = errno /\ rc' = "eof" /\ mErrorOccurred' = mErrorOccurred
    <3>1. n.num = "eof" /\ n.errno = errno
      BY <1>6
    <3>2. /\ errno' = n.errno /\ rc' = n.num
          /\ mErrorOccurred' = (mErrorOccurred \/ n.num = "error")
      BY <1>1, <3>1 DEF Device!Deliver
    <3>3. mErrorOccurred' = mErrorOccurred
      BY <1>3, <3>1, <3>2
    <3>4. QED
      BY <1>1, <3>1, <3>2, <3>3
  <2>2. reader' = "complete"
    BY <1>2, <2>1
  <2>3. source = "socket" \/ taken = Total
    BY <1>3, <1>6 DEF DInv
  <2>4. QED
    BY <1>2, <1>3, <1>6, <2>1, <2>2, <2>3 DEF DInv, Device!TypeOK
<1>7. CASE /\ n.num = "error"
           /\ \/ device \in {"crashed", "broken"} /\ n.errno = 1
              \/ device \in {"gone", "silent"} /\ n.errno = errno
  <2>1. /\ left' = left /\ taken' = taken /\ mErrorOccurred' = TRUE
        /\ \/ n.errno # 0 /\ mErrorOccurred /\ errno' = 1 /\ rc' = "error"
           \/ n.errno # 0 /\ ~mErrorOccurred /\ errno' = n.errno /\ rc' = "eof"
           \/ n.errno = 0 /\ errno' = 0 /\ rc' = "error"
    <3>1. left' = left /\ taken' = taken
      BY <1>1, <1>7
    <3>2. mErrorOccurred' = TRUE
      BY <1>1, <1>7 DEF Device!Deliver
    <3>3. /\ n.errno # 0 /\ mErrorOccurred => errno' = 1 /\ rc' = "error"
          /\ n.errno # 0 /\ ~mErrorOccurred => errno' = n.errno /\ rc' = "eof"
          /\ n.errno = 0 => errno' = 0 /\ rc' = "error"
      BY <1>1, <1>7 DEF Device!Deliver, Device!HasSystemError
    <3>4. QED
      BY <3>1, <3>2, <3>3
  <2>2. errno' \in {0, 1} /\ rc' \in {"eof", "error"}
    BY <1>3, <1>7, <2>1
  <2>3. /\ rc' = "eof" => reader' = "complete"
        /\ rc' = "error" /\ errno' # 0 => reader' = "failed"
        /\ rc' = "error" /\ errno' = 0 => reader' = "reading"
    BY <1>2
  <2>4. /\ reader' \in {"reading", "complete", "failed"}
        /\ reader' = "reading" => rc' = "error" /\ device # "crashed"
    BY <1>7, <2>1, <2>2, <2>3
  <2>5. QED
    BY <1>2, <1>3, <1>7, <2>1, <2>2, <2>4 DEF DInv, Device!TypeOK
<1>8. QED
  BY <1>4, <1>5, <1>6, <1>7

LEMMA EndPreserves == DInv /\ Device!End => DInv'
<1> SUFFICES ASSUME DInv, Device!End
             PROVE  DInv'
  OBVIOUS
<1>1. /\ UNCHANGED <<source, taken, errno, mErrorOccurred, rc, reader>>
      /\ left \in 0 .. Total /\ taken \in 0 .. Total /\ device = "open"
      /\ taken + left = Total
      /\ ~mErrorOccurred /\ reader # "failed"
  BY DEF Device!End, DInv, Device!TypeOK
<1>2. \/ left = 0 /\ device' \in {"finished", "gone"} /\ left' = left
         /\ (device' = "gone" => source # "process")
      \/ source = "process" /\ device' = "crashed" /\ left' \in 0 .. left
      \/ source # "process" /\ device' \in {"broken", "silent"} /\ left' = left
  BY DEF Device!End
<1>3. left' \in 0 .. Total /\ taken' + left' <= Total
  BY <1>1, <1>2, DeviceAssumption
<1>4. Device!TypeOK'
  BY <1>1, <1>2, <1>3 DEF DInv, Device!TypeOK
<1>5. QED
  BY <1>1, <1>2, <1>3, <1>4 DEF DInv

LEMMA MeanwhilePreserves == DInv /\ Device!Meanwhile => DInv'
BY DEF DInv, Device!TypeOK, Device!Meanwhile

LEMMA DMeans == DInv => TruncationNeedsError
BY DeviceAssumption
   DEF DInv, Device!TypeOK, Device!TruncationNeedsError, Device!Truncated, TruncationNeedsError

\* The device, in a step of any transfer.
DNext == [Device!Next]_deviceVars

\* The read that is the last one of a device at its end.
LEMMA LastRead ==
  ASSUME DInv, DNext, reader' # reader, device \in {"finished", "gone"}
  PROVE  \/ reader' = "complete" /\ (taken' = Total \/ source = "socket")
         \/ device = "gone" /\ rc = "error" /\ rc' = "error"
<1>1. Device!Read
  BY DEF DNext, deviceVars, Device!Next, Device!Meanwhile, Device!End
<1>2. DInv' /\ UNCHANGED <<source, device>>
  BY <1>1, ReadPreserves DEF Device!Read
<1>3. left = 0 /\ taken = Total /\ reader = "reading" /\ left' = 0
  BY <1>1, <1>2, DeviceAssumption DEF DInv, Device!TypeOK, Device!Read
<1>4. CASE reader' = "complete"
  <2>1. taken' \in 0 .. Total /\ left' = 0 /\ taken' + left' = Total
    BY <1>2, <1>3 DEF DInv, Device!TypeOK
  <2>2. taken' = Total
    BY <2>1, SMT
  <2>3. QED
    BY <1>4, <2>2
<1>5. CASE reader' # "complete"
  <2>1. reader' = "failed" /\ rc' = "error" /\ device = "gone"
    BY <1>1, <1>2, <1>5 DEF DInv, Device!TypeOK, Device!Read
  <2>2. PICK n \in Device!DeviceRead :
          /\ Device!Deliver(n)
          /\ reader' = CASE rc' = "eof" -> "complete"
                         [] rc' = "error" /\ errno' # 0 -> "failed"
                         [] OTHER -> "reading"
    BY <1>1 DEF Device!Read
  <2>3. n = [num |-> "error", errno |-> errno]
    <3>1. source # "process"
      BY <2>1 DEF DInv
    <3>2. QED
      BY <2>1, <2>2, <3>1 DEF Device!DeviceRead, Device!OtherRead
  <2>4. errno' # 0
    BY <2>1, <2>2
  <2>5. mErrorOccurred
    BY <2>1, <2>2, <2>3, <2>4 DEF Device!Deliver, Device!HasSystemError
  <2>6. QED
    BY <1>3, <2>1, <2>5 DEF DInv
<1>6. QED
  BY <1>4, <1>5

-----------------------------------------------------------------------------
(* The transfers together *)

LEMMA TransfersStart == MCInit => WInv /\ DInv
BY WInit, DInit DEF MCInit

LEMMA TransfersGoOn ==
  WInv /\ DInv /\ [Writing \/ Reading \/ Between \/ Ending]_transferVars =>
    WInv' /\ DInv' /\ DNext
<1> SUFFICES ASSUME WInv, DInv, [Writing \/ Reading \/ Between \/ Ending]_transferVars
             PROVE  WInv' /\ DInv' /\ DNext
  OBVIOUS
<1>1. UNCHANGED deviceVars => DInv' /\ DNext
  BY DEF deviceVars, DInv, Device!TypeOK, DNext
<1>2. CASE Writing
  BY <1>1, <1>2, WNext DEF Writing
<1>3. CASE Reading
  BY <1>3, WNext, ReadPreserves DEF Reading, DNext, Device!Next
<1>4. CASE Between
  BY <1>4, WNext, MeanwhilePreserves DEF Between, DNext, Device!Next
<1>5. CASE Ending
  BY <1>5, WNext, EndPreserves DEF Ending, DNext, Device!Next
<1>6. CASE UNCHANGED transferVars
  BY <1>1, <1>6, WNext DEF transferVars
<1>7. QED
  BY <1>2, <1>3, <1>4, <1>5, <1>6

LEMMA TransfersInvariant == MCSpec => [](WInv /\ DInv)
BY TransfersStart, TransfersGoOn, PTL DEF MCSpec

\* A successful edit callback has written as many bytes as it should and one
\* line, a failed one no complete line, for answers of any length.
THEOREM EditsWriteOneLine == MCSpec => []OneLine
BY TransfersInvariant, WMeans, PTL

\* gpg takes a line for the passphrase that is not the passphrase only if the
\* callback reports an error.
THEOREM WrongPassphrasesReported == MCSpec => []WrongPassphraseReported
BY TransfersInvariant, WMeans, PTL

\* The passphrase is wiped before it is freed and before gpg goes on.
THEOREM PassphrasesWiped == MCSpec => []WipedBeforeNewline
BY TransfersInvariant, WMeans, PTL

\* Data that gpgme takes for complete is complete, but for sockets and for
\* errors of the device.
THEOREM TruncationsHaveErrors == MCSpec => []TruncationNeedsError
BY TransfersInvariant, DMeans, PTL

\* Reading from a device that does not fail ends with all data, and as an error
\* only after a -1 with an errno of 0, whatever errno is when read() looks at it.
THEOREM CleanEndsAreComplete == MCSpec => CleanEndIsComplete
<1>1. DInv /\ DNext =>
        [reader' # reader /\ device \in {"finished", "gone"} =>
           \/ reader' = "complete" /\ (taken' = Total \/ source = "socket")
           \/ device = "gone" /\ rc = "error" /\ rc' = "error"]_(Device!vars)
  BY LastRead
<1>2. QED
  BY <1>1, TransfersInvariant, TransfersGoOn, PTL
     DEF MCSpec, CleanEndIsComplete, Device!CleanEndIsComplete
=============================================================================
