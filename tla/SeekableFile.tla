---------------------------- MODULE SeekableFile ----------------------------
(***************************************************************************)
(* What gpgme may expect of QByteArrayDataProvider: a file with a position *)
(* that is at most Limit bytes long.  Reading past the end is the end of   *)
(* the file, writing past the end fills the gap with zeros, writing across *)
(* the end makes the file longer, and a failed call changes nothing, but   *)
(* for a write beyond the limit.                                           *)
(***************************************************************************)
EXTENDS Integers, Sequences

CONSTANTS
  Byte,     \* the values of a byte
  Zero,     \* the byte that fills a gap
  Offsets,  \* what seeks are called with
  Whences,
  Limit,    \* length of the longest file, and the highest position
  MaxChunk  \* most bytes in one call (bound)

VARIABLES
  content,  \* the bytes of the file
  pos,      \* the position, negative after a seek to nowhere
  result,   \* the bytes that the last call handed out
  returned  \* what the last call returned

Least(a, b) == IF a <= b THEN a ELSE b
Most(a, b)  == IF a >= b THEN a ELSE b

\* The bytes that a read of n bytes returns.
Readable(n) == SubSeq(content, pos + 1, Least(pos + n, Len(content)))

\* The content after "data" is written at the position.
Written(data) ==
  [k \in 1 .. Most(Len(content), pos + Len(data)) |->
     CASE k \in pos + 1 .. pos + Len(data) -> data[k - pos]
       [] k \notin pos + 1 .. pos + Len(data) /\ k <= Len(content) -> content[k]
       [] OTHER -> Zero]

Init == content \in Seq(Byte) /\ pos = 0 /\ result = <<>> /\ returned = 0

Read == /\ pos >= 0
        /\ \E n \in 1 .. MaxChunk : result' = Readable(n)
        /\ pos' = pos + Len(result')
        /\ returned' = Len(result')
        /\ UNCHANGED content

\* The data is what the new content has between the old and the new position.
Write ==
  /\ pos >= 0
  /\ pos' \in pos + 1 .. Least(pos + MaxChunk, Limit)
  /\ Len(content') >= pos'
  /\ content' = Written(SubSeq(content', pos + 1, pos'))
  /\ result' = <<>>
  /\ returned' = pos' - pos

\* A write that would go beyond the limit fails.  The content may be lost.
WriteTooFar ==
  /\ pos >= Len(content)
  /\ pos + MaxChunk > Limit
  /\ content' \in Seq(Byte)
  /\ result' = <<>>
  /\ returned' = -1
  /\ UNCHANGED pos

Target(offset, whence) ==
  CASE whence = "SET" -> offset
    [] whence = "CUR" -> pos + offset
    [] whence = "END" -> Len(content) + offset

\* The position for a target: the target, if it is one.
Position(x) == ((x + Limit + 1) % (2 * (Limit + 1))) - (Limit + 1)

Seek ==
  /\ \E offset \in Offsets, whence \in Whences : pos' = Position(Target(offset, whence))
  /\ result' = <<>>
  /\ returned' = pos'
  /\ UNCHANGED content

Release == content' = <<>> /\ result' = <<>> /\ returned' = 0 /\ UNCHANGED pos

\* A call that asks for nothing, or that fails.
Refuse == result' = <<>> /\ returned' \in {0, -1} /\ UNCHANGED <<content, pos>>

Next == Read \/ Write \/ WriteTooFar \/ Seek \/ Release \/ Refuse

Spec == Init /\ [][Next]_<<content, pos, result, returned>>
=============================================================================
