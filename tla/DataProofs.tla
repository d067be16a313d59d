----------------------------- MODULE DataProofs -----------------------------
(***************************************************************************)
(* QByteArrayDataProvider and the Data objects on top of it, for arrays,   *)
(* calls and ints of any size and any number of handles; and the Assuan    *)
(* transactions, for any texts, tags and readers.                          *)
(*                                                                         *)
(* The provider is a file: each call is one of SeekableFile, by the        *)
(* arithmetic of offsets, and also where an int cannot hold the result.    *)
(* Data objects keep their provider because every body that lives has a    *)
(* handle or is the one of an inquiry, and that is what gpgme reads from   *)
(* or came with an error (Owned).                                          *)
(*                                                                         *)
(* Transactions: what a recursive function computes for every text comes   *)
(* by induction over a set of numbers (NumbersByInduction), which holds    *)
(* because every set of numbers has a least one.  A status line reads as   *)
(* the server meant it (StatusInv), and what is received and what is to    *)
(* come are together what the server replied (AnswerInv).                  *)
(***************************************************************************)
EXTENDS MCData, SequenceTheorems, FiniteSetTheorems, WellFoundedInduction, TLAPS

LEMMA ArraysAreSequences ==
  ASSUME NEW S, NEW n \in Nat, NEW f \in [1 .. n -> S]
  PROVE  f \in Seq(S) /\ Len(f) = n
<1>1. f \in Seq(S)
  BY SeqDef
<1>2. DOMAIN f = 1 .. n /\ DOMAIN f = 1 .. Len(f) /\ Len(f) \in Nat
  BY <1>1, LenProperties
<1>3. QED
  BY <1>1, <1>2

LEMMA ChunkIsData ==
  ASSUME NEW data \in Chunks
  PROVE  /\ data \in Seq(Byte) /\ Len(data) \in 0 .. MaxChunk
         /\ DOMAIN data = 1 .. Len(data)
         /\ data # <<>> => Len(data) \in 1 .. MaxChunk
<1>1. PICK n \in 0 .. MaxChunk : data \in [1 .. n -> Byte]
  BY DEF Chunks
<1>2. n \in Nat
  BY ProviderAssumption
<1>3. data \in Seq(Byte) /\ Len(data) = n
  BY <1>1, <1>2, ArraysAreSequences
<1>4. data # <<>> => Len(data) # 0
  BY <1>3, EmptySeq
<1>5. QED
  BY <1>1, <1>2, <1>3, <1>4, LenProperties

\* An int for every off_t.
LEMMA ToIntIsInt ==
  ASSUME NEW x \in Int
  PROVE  /\ ToInt(x) \in -Half .. Half - 1
         /\ ToInt(x) = File!Position(x)
<1>1. Half \in Nat /\ Half > 0
  BY ProviderAssumption DEF Half
<1> DEFINE y == (x + Half) % (2 * Half)
<1>2. y \in 0 .. 2 * Half - 1
  BY <1>1
<1> HIDE DEF y
<1>3. y - Half \in -Half .. Half - 1
  BY <1>1, <1>2
<1>4. ToInt(x) \in -Half .. Half - 1
  BY <1>3 DEF ToInt, y
<1>5. Half - 1 + 1 = Half /\ x + (Half - 1) + 1 = x + Half
  BY <1>1
<1>6. QED
  BY <1>4, <1>5 DEF ToInt, File!Position

-----------------------------------------------------------------------------
(* Calls of the provider *)

Call ==
  \/ Nothing \/ ReadEOF
  \/ \E n \in 1 .. MaxChunk : Read(n)
  \/ \E data \in Chunks \ {<<>>} : WriteBeyond(data) \/ WriteTooFar(data) \/ WriteWithin(data)
  \/ \E offset \in Offsets, whence \in Whences : Seek(offset, whence)

\* What a call does: a step of a file, which loses all of its bytes only in a
\* write that fails.
Serves ==
  /\ TypeOK'
  /\ [File!Next]_<<mArray, mOff, out, ret>>
  /\ mArray # <<>> /\ mArray' = <<>> => ret' = -1 /\ mOff >= Size

LEMMA SizeOfArray ==
  ASSUME TypeOK
  PROVE  /\ mArray \in Seq(Byte) /\ Size \in Nat /\ Size < Half /\ DOMAIN mArray = 1 .. Size
         /\ mOff \in Int /\ mOff < Half /\ Half \in Nat /\ Half > 0
         /\ \A k \in 1 .. Size : mArray[k] \in Byte
<1>1. mArray \in Seq(Byte) /\ Size < Half /\ mOff \in -Half .. Half - 1
  BY DEF TypeOK
<1>2. Size \in Nat /\ DOMAIN mArray = 1 .. Size /\ \A k \in 1 .. Size : mArray[k] \in Byte
  BY <1>1, LenProperties, ElementOfSeq DEF Size
<1>3. Half \in Nat /\ Half > 0
  BY ProviderAssumption DEF Half
<1>4. QED
  BY <1>1, <1>2, <1>3

\* Calls that leave the array and the offset alone, broken ones too.
LEMMA NothingServes ==
  ASSUME TypeOK, Nothing \/ ReadEOF \/ Breaks
  PROVE  Serves
<1>1. UNCHANGED <<mArray, mOff>>
  BY DEF Nothing, ReadEOF, Breaks
<1>2. CASE Nothing \/ ReadEOF
  <2>1. out' = <<>> /\ ret' \in {0, -1} /\ UNCHANGED undefined
    BY <1>2 DEF Nothing, ReadEOF, Returns
  <2>2. File!Refuse
    BY <1>1, <2>1 DEF File!Refuse
  <2>3. TypeOK'
    BY <1>1, <2>1, EmptySeq DEF TypeOK, Size
  <2>4. QED
    BY <1>1, <2>2, <2>3 DEF Serves, File!Next
<1>3. CASE Breaks
  <2>1. TypeOK'
    BY <1>3 DEF Breaks, TypeOK, Size
  <2>2. QED
    BY <1>3, <2>1 DEF Breaks, Serves
<1>4. QED
  BY <1>2, <1>3

LEMMA ReadServes ==
  ASSUME TypeOK, NEW n \in 1 .. MaxChunk, Read(n)
  PROVE  Serves
<1> USE ProviderAssumption
<1> DEFINE amount == IF n <= Size - mOff THEN n ELSE Size - mOff
<1>1. CASE mOff < 0
  <2>1. Breaks
    BY <1>1 DEF Read
  <2>2. QED
    BY <2>1, NothingServes
<1>2. CASE ~(mOff < 0)
  <2>1. /\ mOff \in Nat /\ Size \in Nat /\ mOff < Size /\ n \in Nat /\ n > 0
        /\ ret' = amount /\ out' = SubSeq(mArray, mOff + 1, mOff + amount)
        /\ mOff' = mOff + amount
        /\ UNCHANGED <<mArray, undefined>>
    BY <1>2, SizeOfArray DEF Read, Returns
  <2>2. /\ amount \in 1 .. Size /\ mOff + amount \in 1 .. Size
        /\ mOff + amount = File!Least(mOff + n, Size)
    BY <2>1 DEF File!Least
  <2> HIDE DEF amount
  <2>3. out' \in Seq(Byte) /\ Len(out') = amount
    <3>1. /\ mOff + 1 \in Int /\ mOff + amount \in Int
          /\ \A k \in mOff + 1 .. mOff + amount : mArray[k] \in Byte
      BY <2>1, <2>2, SizeOfArray
    <3>2. /\ out' \in Seq(Byte)
          /\ Len(out') = IF mOff + 1 <= mOff + amount THEN (mOff + amount) - (mOff + 1) + 1 ELSE 0
      BY <2>1, <3>1, SubSeqProperties
    <3>3. QED
      BY <2>1, <2>2, <3>2
  <2>4. out' = File!Readable(n)
    BY <2>1, <2>2 DEF File!Readable, Size
  <2>5. File!Read
    <3>1. \E m \in 1 .. MaxChunk : out' = File!Readable(m)
      BY <2>4
    <3>2. mOff >= 0 /\ mOff' = mOff + Len(out') /\ ret' = Len(out')
      BY <2>1, <2>3
    <3>3. QED
      BY <2>1, <3>1, <3>2, Zenon DEF File!Read
  <2>6. TypeOK'
    <3>1. mOff' \in -Half .. Half - 1
      BY <2>1, <2>2, SizeOfArray
    <3>2. QED
      BY <2>1, <2>2, <2>3, <3>1 DEF TypeOK, Size
  <2>7. QED
    BY <2>1, <2>5, <2>6 DEF Serves, File!Next
<1>3. QED
  BY <1>1, <1>2

\* A write that leaves what a file has after it.
LEMMA WrittenServes ==
  ASSUME TypeOK, NEW data \in Chunks, data # <<>>,
         mOff \in Nat, mOff + Len(data) < Half,
         mArray' = File!Written(data), mOff' = mOff + Len(data),
         ret' = Len(data), out' = <<>>, UNCHANGED undefined
  PROVE  Serves
<1> USE ProviderAssumption
<1> DEFINE L == Len(data)  top == File!Most(Size, mOff + L)
<1>1. /\ data \in Seq(Byte) /\ L \in 1 .. MaxChunk /\ L \in Nat
      /\ \A k \in 1 .. L : data[k] \in Byte
  BY ChunkIsData, ElementOfSeq
<1>2. /\ top \in Nat /\ mOff + L <= top /\ top < Half
      /\ Size \in Nat /\ \A k \in 1 .. Size : mArray[k] \in Byte
  BY <1>1, SizeOfArray DEF File!Most
<1>3. /\ mArray' \in [1 .. top -> Byte]
      /\ \A k \in mOff + 1 .. mOff + L : mArray'[k] = data[k - mOff]
  <2> HIDE DEF top
  <2>1. mArray' = [k \in 1 .. top |->
                     CASE k \in mOff + 1 .. mOff + L -> data[k - mOff]
                       [] k \notin mOff + 1 .. mOff + L /\ k <= Size -> mArray[k]
                       [] OTHER -> Zero]
    BY DEF File!Written, top, Size
  <2> HIDE DEF L
  <2>2. ASSUME NEW k \in 1 .. top
        PROVE  /\ k \in mOff + 1 .. mOff + L => mArray'[k] = data[k - mOff]
               /\ mArray'[k] \in Byte
    <3>1. CASE k \in mOff + 1 .. mOff + L
      <4>1. k - mOff \in 1 .. L
        BY <1>1, <3>1
      <4>2. mArray'[k] = data[k - mOff]
        BY <2>1, <3>1
      <4>3. QED
        BY <1>1, <4>1, <4>2
    <3>2. CASE k \notin mOff + 1 .. mOff + L /\ k <= Size
      BY <1>2, <2>1, <3>2
    <3>3. CASE k \notin mOff + 1 .. mOff + L /\ ~(k <= Size)
      BY <2>1, <3>3
    <3>4. QED
      BY <3>1, <3>2, <3>3
  <2>3. mArray' \in [1 .. top -> Byte]
    <3>1. DOMAIN mArray' = 1 .. top /\ mArray' = [k \in 1 .. top |-> mArray'[k]]
      BY <2>1
    <3>2. QED
      BY <2>2, <3>1
  <2>4. \A k \in mOff + 1 .. mOff + L : k \in 1 .. top
    BY <1>1, <1>2 DEF L
  <2>5. QED
    BY <2>2, <2>3, <2>4 DEF L
<1> HIDE DEF top
<1>4. mArray' \in Seq(Byte) /\ Len(mArray') = top
  BY <1>2, <1>3, ArraysAreSequences
<1>5. SubSeq(mArray', mOff + 1, mOff') = data
  <2> DEFINE piece == SubSeq(mArray', mOff + 1, mOff + L)
  <2>1. /\ mOff + 1 \in Int /\ mOff + L \in Int
        /\ \A k \in mOff + 1 .. mOff + L : mArray'[k] \in Byte
    BY <1>1, <1>2, <1>3
  <2>2. /\ piece \in Seq(Byte)
        /\ Len(piece) = IF mOff + 1 <= mOff + L THEN (mOff + L) - (mOff + 1) + 1 ELSE 0
        /\ \A k \in 1 .. (mOff + L) - (mOff + 1) + 1 : piece[k] = mArray'[(mOff + 1) + k - 1]
    BY <2>1, SubSeqProperties
  <2> HIDE DEF piece
  <2>3. Len(piece) = L
    BY <1>1, <2>2
  <2>4. ASSUME NEW k \in 1 .. L
        PROVE  piece[k] = data[k]
    <3>1. /\ k \in 1 .. (mOff + L) - (mOff + 1) + 1
          /\ (mOff + 1) + k - 1 \in mOff + 1 .. mOff + L
          /\ ((mOff + 1) + k - 1) - mOff = k
      BY <1>1
    <3>2. QED
      BY <1>3, <2>2, <3>1
  <2>5. piece = data
    BY <1>1, <2>2, <2>3, <2>4, SeqEqual
  <2>6. QED
    BY <2>5 DEF piece
<1>6. File!Write
  <2>1. /\ mOff' \in mOff + 1 .. File!Least(mOff + MaxChunk, Half - 1)
        /\ Len(mArray') >= mOff' /\ ret' = mOff' - mOff
    BY <1>1, <1>2, <1>4, SizeOfArray DEF File!Least
  <2>2. mArray' = File!Written(SubSeq(mArray', mOff + 1, mOff'))
    BY <1>5
  <2>3. QED
    BY <2>1, <2>2 DEF File!Write
<1>7. TypeOK'
  <2>1. mOff' \in -Half .. Half - 1 /\ ret' \in Int
    BY <1>1, SizeOfArray
  <2>2. QED
    BY <1>2, <1>4, <2>1, EmptySeq DEF TypeOK, Size
<1>8. mArray' # <<>>
  BY <1>1, <1>2, <1>4, EmptySeq
<1>9. QED
  BY <1>6, <1>7, <1>8 DEF Serves, File!Next

\* A write at the end of more than an array can have.
LEMMA WriteTooFarServes ==
  ASSUME TypeOK, NEW data \in Chunks, data # <<>>, WriteTooFar(data)
  PROVE  Serves
<1> USE ProviderAssumption
<1> DEFINE size == ToInt(mOff + Len(data))
           n    == IF size < 0 THEN 0 ELSE size
<1>1. Len(data) \in 1 .. MaxChunk /\ Len(data) \in Nat
  BY ChunkIsData
<1>2. mOff \in Nat /\ mOff >= Size /\ mOff + Len(data) >= Half
  BY SizeOfArray DEF WriteTooFar
<1>3. size \in -Half .. Half - 1 /\ n \in Nat /\ n < Half
  <2>1. mOff + Len(data) \in Int
    BY <1>1, <1>2
  <2>2. size \in -Half .. Half - 1
    BY <2>1, ToIntIsInt
  <2> HIDE DEF size
  <2>3. QED
    BY <2>2, SizeOfArray
<1>4. CASE size > mOff
  <2>1. Breaks
    BY <1>4 DEF WriteTooFar
  <2>2. QED
    BY <2>1, NothingServes
<1>5. CASE ~(size > mOff)
  <2>1. /\ mArray' \in Resized(size) /\ ret' = -1 /\ out' = <<>>
        /\ UNCHANGED <<mOff, undefined>>
    BY <1>5 DEF WriteTooFar, Returns
  <2>2. mArray' \in [1 .. n -> Byte]
    BY <2>1 DEF Resized
  <2> HIDE DEF n, size
  <2>3. mArray' \in Seq(Byte) /\ Len(mArray') = n
    BY <1>3, <2>2, ArraysAreSequences
  <2>4. TypeOK'
    BY <1>3, <2>1, <2>3, EmptySeq DEF TypeOK, Size
  <2>5. mOff >= Len(mArray) /\ mOff + MaxChunk > Half - 1
    BY <1>1, <1>2, SizeOfArray DEF Size
  <2>6. File!WriteTooFar
    BY <2>1, <2>3, <2>5 DEF File!WriteTooFar
  <2>7. QED
    BY <1>2, <2>1, <2>4, <2>6 DEF Serves, File!Next
<1>6. QED
  BY <1>4, <1>5

LEMMA WritesServe ==
  ASSUME TypeOK, NEW data \in Chunks, data # <<>>, WriteBeyond(data) \/ WriteWithin(data)
  PROVE  Serves
<1> USE ProviderAssumption
<1> DEFINE L == Len(data)
<1>1. /\ data \in Seq(Byte) /\ L \in 1 .. MaxChunk /\ L \in Nat
  BY ChunkIsData
<1>2. Size \in Nat /\ Size < Half /\ mOff \in Int /\ Half \in Nat
  BY SizeOfArray
<1>3. CASE WriteBeyond(data)
  <2>1. /\ mOff >= Size /\ mOff + L < Half
        /\ mArray' = [k \in 1 .. mOff + L |->
                        IF k <= Size THEN mArray[k]
                        ELSE IF k <= mOff THEN Zero ELSE data[k - mOff]]
        /\ mOff' = mOff + L /\ ret' = L /\ out' = <<>> /\ UNCHANGED undefined
    BY <1>3 DEF WriteBeyond, Returns
  <2> HIDE DEF L
  <2>2. File!Most(Size, mOff + L) = mOff + L
    BY <1>1, <1>2, <2>1 DEF File!Most
  <2>3. ASSUME NEW k \in 1 .. mOff + L
        PROVE  (IF k <= Size THEN mArray[k] ELSE IF k <= mOff THEN Zero ELSE data[k - mOff])
                 = CASE k \in mOff + 1 .. mOff + L -> data[k - mOff]
                     [] k \notin mOff + 1 .. mOff + L /\ k <= Size -> mArray[k]
                     [] OTHER -> Zero
    BY <1>1, <1>2, <2>1
  <2>4. mArray' = [k \in 1 .. mOff + L |->
                     CASE k \in mOff + 1 .. mOff + L -> data[k - mOff]
                       [] k \notin mOff + 1 .. mOff + L /\ k <= Size -> mArray[k]
                       [] OTHER -> Zero]
    BY <2>1, <2>3
  <2>5. mArray' = File!Written(data)
    BY <2>2, <2>4 DEF File!Written, Size, L
  <2>6. mOff \in Nat
    BY <1>2, <2>1
  <2>7. QED
    BY <2>1, <2>5, <2>6, WrittenServes DEF L
<1>4. CASE WriteWithin(data) /\ (mOff < 0 \/ L > Size - mOff)
  <2>1. Breaks
    BY <1>4 DEF WriteWithin
  <2>2. QED
    BY <2>1, NothingServes
<1>5. CASE WriteWithin(data) /\ ~(mOff < 0 \/ L > Size - mOff)
  <2>1. /\ mArray' = [k \in 1 .. Size |->
                        IF k \in mOff + 1 .. mOff + L THEN data[k - mOff] ELSE mArray[k]]
        /\ mOff' = mOff + L /\ ret' = L /\ out' = <<>> /\ UNCHANGED undefined
    BY <1>5 DEF WriteWithin, Returns
  <2> HIDE DEF L
  <2>2. File!Most(Size, mOff + L) = Size /\ mOff \in Nat /\ mOff + L < Half
    BY <1>1, <1>2, <1>5 DEF File!Most
  <2>3. ASSUME NEW k \in 1 .. Size
        PROVE  (IF k \in mOff + 1 .. mOff + L THEN data[k - mOff] ELSE mArray[k])
                 = CASE k \in mOff + 1 .. mOff + L -> data[k - mOff]
                     [] k \notin mOff + 1 .. mOff + L /\ k <= Size -> mArray[k]
                     [] OTHER -> Zero
    BY <1>2
  <2>4. mArray' = [k \in 1 .. Size |->
                     CASE k \in mOff + 1 .. mOff + L -> data[k - mOff]
                       [] k \notin mOff + 1 .. mOff + L /\ k <= Size -> mArray[k]
                       [] OTHER -> Zero]
    BY <2>1, <2>3
  <2>5. mArray' = File!Written(data)
    BY <2>2, <2>4 DEF File!Written, Size, L
  <2>6. QED
    BY <2>1, <2>2, <2>5, WrittenServes DEF L
<1>6. QED
  BY <1>3, <1>4, <1>5

LEMMA SeekServes ==
  ASSUME TypeOK, NEW offset \in Offsets, NEW whence \in Whences, Seek(offset, whence)
  PROVE  Serves
<1>1. Target(offset, whence) \in Int /\ Target(offset, whence) = File!Target(offset, whence)
  <2>1. offset \in Int /\ whence \in {"SET", "CUR", "END"}
    BY ProviderAssumption
  <2>2. QED
    BY <2>1, SizeOfArray DEF Target, File!Target, Size
<1>2. /\ mOff' = File!Position(File!Target(offset, whence))
      /\ mOff' \in -Half .. Half - 1 /\ mOff' \in Int
  BY <1>1, ToIntIsInt, SizeOfArray DEF Seek
<1>3. ret' = mOff' /\ out' = <<>> /\ UNCHANGED <<mArray, undefined>>
  BY DEF Seek, Returns
<1>4. File!Seek
  BY <1>2, <1>3 DEF File!Seek
<1>5. TypeOK'
  BY <1>2, <1>3, EmptySeq DEF TypeOK, Size
<1>6. QED
  BY <1>3, <1>4, <1>5 DEF Serves, File!Next

LEMMA CallServes ==
  ASSUME TypeOK, Call
  PROVE  Serves
BY NothingServes, ReadServes, WritesServe, WriteTooFarServes, SeekServes DEF Call

\* release() makes the file empty.
LEMMA ReleaseServes ==
  ASSUME TypeOK, Release
  PROVE  /\ TypeOK' /\ mArray' = <<>>
         /\ [File!Next]_<<mArray, mOff, out, ret>>
<1>1. mArray' = <<>> /\ out' = <<>> /\ ret' = 0 /\ UNCHANGED <<mOff, undefined>>
  BY DEF Release, Returns
<1>2. TypeOK'
  BY <1>1, EmptySeq, SizeOfArray DEF TypeOK, Size
<1>3. QED
  BY <1>1, <1>2 DEF File!Next, File!Release

\* Before the first call.
LEMMA InitServes == Init => TypeOK /\ File!Init
<1> SUFFICES ASSUME Init
             PROVE  TypeOK /\ File!Init
  OBVIOUS
<1>1. mArray \in Seq(Byte) /\ Size < Half
  BY ChunkIsData DEF Init, Size
<1>2. Half \in Nat /\ Half > 0
  BY ProviderAssumption DEF Half
<1>3. TypeOK
  <2>1. mOff \in -Half .. Half - 1
    BY <1>2 DEF Init
  <2>2. ret \in Int /\ out \in Seq(Byte)
    BY EmptySeq DEF Init
  <2>3. undefined \in BOOLEAN
    BY Zenon DEF Init
  <2>4. QED
    BY <1>1, <2>1, <2>2, <2>3 DEF TypeOK
<1>4. File!Init
  BY <1>1 DEF Init, File!Init
<1>5. QED
  BY <1>3, <1>4
-----------------------------------------------------------------------------
(* Data objects *)

Alive == {b \in Body : body[b] # Free}

\* The last part of DataTypeOK, and the function that it leaves open.
Bodies ==
  /\ body \in [Body -> {Free, Null, Own, From(supports)}]
  /\ handle \in [Handle -> Alive \cup {Static}]
  /\ inquired \in Alive \cup {Static}
  /\ serving \in Body \cup {Static} /\ refused \in BOOLEAN
  /\ supports \in Supports /\ exists \in BOOLEAN /\ dangling \in BOOLEAN

\* What lives has a handle or is the one of an inquiry.  That one is what gpgme
\* reads, or there is none to read, or it came with an error.
Owned ==
  /\ \A b \in Body : body[b] # Free => Held(b)
  /\ serving # Static => inquired = serving /\ ~refused
  /\ inquired # Static /\ serving = Static => body[inquired].kind = "null" \/ refused
  /\ dangling => ~exists

\* A provider that is gone is that of refused data at most.
Orphaned ==
  \A b \in Body :
    body[b].kind = "provider" /\ ~exists =>
      b = inquired /\ refused /\ \A h \in Handle : handle[h] # b

DInv == TypeOK /\ Bodies /\ Owned /\ Orphaned

\* The provider's bytes go when the last handle does, or in a write that fails.
LastReleases ==
  \A b \in Body :
    LET was == body[b].kind = "provider" /\ exists
    IN /\ was /\ Ended(b) /\ "release" \in supports => mArray' = <<>>
       /\ was /\ mArray # <<>> /\ mArray' = <<>> =>
            \/ \E c \in Body : body[c].kind = "provider" /\ body'[c] = Free /\ ~Held(c)'
            \/ ret' = -1 /\ mOff >= Size

\* What a step has to do.
Keeps == DInv' /\ LastReleases /\ [File!Next]_<<mArray, mOff, out, ret>>

\* A step that only calls the provider, and perhaps dangles.
LEMMA KindsDiffer ==
  /\ Free # Null /\ Free # Own /\ Null # Own
  /\ \A ops : From(ops) # Free /\ From(ops) # Null /\ From(ops) # Own
  /\ Free.kind # "provider" /\ Null.kind # "provider" /\ Own.kind # "provider"
  /\ Free.kind # "null" /\ Null.kind = "null" /\ Own.kind # "null"
  /\ \A ops : From(ops).kind = "provider" /\ From(ops).cbs = ops
  /\ Free.cbs = {} /\ Null.cbs = {} /\ Own.cbs = {}
<1>1. Free.kind = "free" /\ Null.kind = "null" /\ Own.kind = "own"
  BY DEF Free, Null, Own
<1>2. \A ops : From(ops).kind = "provider" /\ From(ops).cbs = ops
  BY DEF From
<1>3. Free.cbs = {} /\ Null.cbs = {} /\ Own.cbs = {}
  BY DEF Free, Null, Own
<1>4. QED
  BY <1>1, <1>2, <1>3

LEMMA DInitHolds == DataInit => DInv /\ File!Init
<1> SUFFICES ASSUME DataInit
             PROVE  DInv /\ File!Init
  OBVIOUS
<1>1. TypeOK /\ File!Init
  BY InitServes DEF DataInit
<1>2. Bodies
  <2>1. exists \in BOOLEAN /\ dangling \in BOOLEAN /\ refused \in BOOLEAN
    BY Zenon DEF DataInit
  <2>2. QED
    BY <2>1 DEF DataInit, Bodies
<1>3. Owned
  BY DEF DataInit, Owned
<1>4. Orphaned
  BY KindsDiffer DEF DataInit, Orphaned
<1>5. QED
  BY <1>1, <1>2, <1>3, <1>4 DEF DInv

\* A step after which every body has its holders.
LEMMA HoldersKept ==
  ASSUME DInv, UNCHANGED <<body, holders>>
  PROVE  \A b \in Body : Held(b)' = Held(b) /\ ~Ended(b)
BY DEF holders, Held, Ended

\* gpgme calls the provider.
LEMMA CallbackKeeps ==
  ASSUME DInv, DataRead \/ DataWrite \/ DataSeek
  PROVE  Keeps
<1>1. /\ UNCHANGED <<body, holders, serving, refused, supports, exists>>
      /\ \/ exists /\ Call /\ UNCHANGED dangling
         \/ ~exists /\ dangling' = TRUE /\ UNCHANGED vars
  BY DEF DataRead, DataWrite, DataSeek, Callback, Call
<1>2. /\ TypeOK' /\ [File!Next]_<<mArray, mOff, out, ret>>
      /\ mArray # <<>> /\ mArray' = <<>> => ret' = -1 /\ mOff >= Size
  <2>1. CASE Call
    BY <2>1, CallServes DEF DInv, Serves
  <2>2. CASE UNCHANGED vars
    BY <2>2 DEF vars, DInv, TypeOK, Size
  <2>3. QED
    BY <1>1, <2>1, <2>2
<1>3. dangling' \in BOOLEAN /\ (dangling' => ~exists')
  <2>1. CASE UNCHANGED dangling
    BY <1>1, <2>1 DEF DInv, Bodies, Owned
  <2>2. CASE ~exists /\ dangling' = TRUE
    BY <1>1, <2>2
  <2>3. QED
    BY <1>1, <2>1, <2>2
<1>4. Bodies'
  BY <1>1, <1>3 DEF holders, DInv, Bodies, Alive
<1>5. Owned' /\ Orphaned'
  BY <1>1, <1>3 DEF holders, DInv, Owned, Orphaned, Held
<1>6. LastReleases
  BY <1>1, <1>2, HoldersKept DEF LastReleases
<1>7. QED
  BY <1>2, <1>4, <1>5, <1>6 DEF Keeps, DInv

\* Holders move between bodies that live, and what lost its last one goes.
LEMMA SettleKeeps ==
  ASSUME DInv,
         handle' \in [Handle -> Alive \cup {Static}], inquired' \in Alive \cup {Static},
         serving' \in Body \cup {Static}, refused' \in BOOLEAN,
         UNCHANGED <<supports, exists>>,
         serving' # Static => inquired' = serving' /\ ~refused',
         inquired' # Static /\ serving' = Static => body[inquired'].kind = "null" \/ refused',
         ~exists => \A b \in Body : body[b].kind = "provider" =>
                      (inquired' = b => refused') /\ \A h \in Handle : handle'[h] # b,
         Settle
  PROVE  Keeps
<1> USE DataAssumption, KindsDiffer
<1> DEFINE over == {b \in Body : Ended(b)}
           told == \E b \in over : "release" \in body[b].cbs
<1>1. /\ body' = [b \in Body |-> IF b \in over THEN Free ELSE body[b]]
      /\ \/ told /\ exists /\ Release /\ UNCHANGED dangling
         \/ told /\ ~exists /\ dangling' = TRUE /\ UNCHANGED vars
         \/ ~told /\ UNCHANGED <<vars, dangling>>
  BY DEF Settle
<1>2. \A b \in over : Held(b) /\ ~Held(b)' /\ body'[b] = Free
  BY <1>1 DEF Ended
<1>3. \A b \in Body : body[b] # Free =>
          (Held(b)' /\ body'[b] = body[b]) \/ (b \in over /\ body'[b] = Free)
  BY <1>1 DEF Ended, DInv, Owned
<1>4. \A b \in Body : body[b] = Free => body'[b] = Free
  BY <1>1 DEF Ended
<1>5. \A b \in over : "release" \in body[b].cbs => body[b].kind = "provider" /\ "release" \in supports
  BY DEF DInv, Bodies
<1> HIDE DEF over
<1>6. \A b \in Alive : Held(b)' => b \in Alive'
  BY <1>2, <1>3 DEF Alive
<1>7. /\ handle' \in [Handle -> Alive' \cup {Static}]
      /\ inquired' \in Alive' \cup {Static}
      /\ inquired' # Static => body'[inquired'] = body[inquired']
  <2>1. \A b \in Body : (inquired' = b \/ \E h \in Handle : handle'[h] = b) => Held(b)'
    BY DEF Held
  <2>2. \A b \in Alive : Held(b)' => b \in Alive' /\ body'[b] = body[b]
    BY <1>2, <1>3, <1>6 DEF Alive
  <2>3. inquired' # Static => inquired' \in Alive' /\ body'[inquired'] = body[inquired']
    BY <2>1, <2>2 DEF Alive
  <2>4. \A h \in Handle : handle'[h] # Static => handle'[h] \in Alive'
    BY <2>1, <2>2 DEF Alive
  <2>5. QED
    BY <2>3, <2>4
<1>8. /\ TypeOK' /\ [File!Next]_<<mArray, mOff, out, ret>>
      /\ mArray # <<>> /\ mArray' = <<>> => told /\ exists
      /\ told /\ exists => mArray' = <<>>
  <2> HIDE DEF told
  <2>1. CASE told /\ exists /\ Release
    BY <2>1, ReleaseServes DEF DInv
  <2>2. CASE (~told \/ ~exists) /\ UNCHANGED vars
    BY <2>2 DEF vars, DInv, TypeOK, Size
  <2>3. QED
    BY <1>1, <2>1, <2>2
<1>9. dangling' \in BOOLEAN /\ (dangling' => ~exists')
  <2> HIDE DEF told
  <2>1. CASE UNCHANGED dangling
    BY <2>1 DEF DInv, Bodies, Owned
  <2>2. CASE ~exists /\ dangling' = TRUE
    BY <2>2
  <2>3. QED
    BY <1>1, <2>1, <2>2
<1>10. Bodies'
  <2>1. body' \in [Body -> {Free, Null, Own, From(supports')}]
    BY <1>1 DEF DInv, Bodies
  <2>2. QED
    BY <1>7, <1>9, <2>1 DEF DInv, Bodies
<1>11. Owned'
  <2>1. \A b \in Body : body'[b] # Free => Held(b)'
    BY <1>3, <1>4
  <2>2. QED
    BY <1>7, <1>9, <2>1 DEF Owned
<1>12. Orphaned'
  <2>1. ASSUME NEW b \in Body, body'[b].kind = "provider", ~exists'
        PROVE  b = inquired' /\ refused' /\ \A h \in Handle : handle'[h] # b
    <3>1. body'[b] = body[b] /\ Held(b)' /\ body[b].kind = "provider"
      BY <1>3, <1>4, <2>1
    <3>2. (inquired' = b => refused') /\ \A h \in Handle : handle'[h] # b
      BY <2>1, <3>1
    <3>3. QED
      BY <3>1, <3>2 DEF Held
  <2>2. QED
    BY <2>1 DEF Orphaned
<1>13. LastReleases
  <2>1. ASSUME NEW b \in Body, body[b].kind = "provider", exists, Ended(b), "release" \in supports
        PROVE  mArray' = <<>>
    <3>1. b \in over /\ body[b].cbs = supports
      BY <2>1 DEF over, DInv, Bodies
    <3>2. QED
      BY <1>8, <2>1, <3>1
  <2>2. ASSUME exists, mArray # <<>>, mArray' = <<>>
        PROVE  \E c \in Body : body[c].kind = "provider" /\ body'[c] = Free /\ ~Held(c)'
    <3>1. PICK c \in over : "release" \in body[c].cbs
      BY <1>8, <2>2
    <3>2. QED
      BY <1>2, <1>5, <3>1 DEF over
  <2>3. QED
    BY <2>1, <2>2 DEF LastReleases
<1>14. QED
  BY <1>8, <1>10, <1>11, <1>12, <1>13 DEF Keeps, DInv

\* A new body, for a variable or an inquiry that held nothing.
LEMMA MadeKeeps ==
  ASSUME DInv,
         NEW b \in Body, body[b] = Free,
         NEW x \in {Null, Own, From(supports)}, x = From(supports) => exists,
         body' = [body EXCEPT ![b] = x],
         handle' \in [Handle -> Alive \cup {b, Static}], inquired' \in Alive \cup {b, Static},
         Held(b)', \A c \in Body : Held(c) => Held(c)',
         serving' \in Body \cup {Static}, refused' \in BOOLEAN,
         serving' # Static => inquired' = serving' /\ ~refused',
         inquired' # Static /\ serving' = Static => body'[inquired'].kind = "null" \/ refused',
         ~exists => inquired' = inquired /\ refused' = refused
                    /\ \A h \in Handle : handle'[h] \in {handle[h], b},
         UNCHANGED <<supports, exists, dangling>>,
         UNCHANGED vars \/ Seek(0, "SET")
  PROVE  Keeps
<1> USE DataAssumption, KindsDiffer
<1>1. /\ TypeOK' /\ [File!Next]_<<mArray, mOff, out, ret>>
      /\ mArray # <<>> => mArray' # <<>>
  <2>1. CASE Seek(0, "SET")
    BY <2>1, SeekServes, ProviderAssumption DEF DInv, Serves, Seek
  <2>2. CASE UNCHANGED vars
    BY <2>2 DEF vars, DInv, TypeOK, Size
  <2>3. QED
    BY <2>1, <2>2
<1>2. /\ \A c \in Body : body'[c] = IF c = b THEN x ELSE body[c]
      /\ Alive' = Alive \cup {b}
  BY DEF DInv, Bodies, Alive
<1>3. Bodies'
  <2>1. body' \in [Body -> {Free, Null, Own, From(supports')}]
    BY DEF DInv, Bodies
  <2>2. QED
    BY <1>2, <2>1 DEF DInv, Bodies
<1>4. Owned'
  BY <1>2 DEF DInv, Owned
<1>5. Orphaned'
  <2>1. ASSUME NEW c \in Body, body'[c].kind = "provider", ~exists'
        PROVE  c = inquired' /\ refused' /\ \A h \in Handle : handle'[h] # c
    <3>1. c # b /\ body[c].kind = "provider"
      BY <1>2, <2>1
    <3>2. c = inquired /\ refused /\ \A h \in Handle : handle[h] # c
      BY <2>1, <3>1 DEF DInv, Orphaned
    <3>3. QED
      BY <2>1, <3>1, <3>2
  <2>2. QED
    BY <2>1 DEF Orphaned
<1>6. LastReleases
  BY <1>1 DEF LastReleases, Ended
<1>7. QED
  BY <1>1, <1>3, <1>4, <1>5, <1>6 DEF Keeps, DInv

-----------------------------------------------------------------------------
(* The operations on Data *)

\* New Data, of gpgme's own or of the provider.
LEMMA NewKeeps ==
  ASSUME DInv, NEW h \in Handle, NEW b \in Body, New(h, b) \/ NewFromProvider(h, b)
  PROVE  Keeps
<1> USE DataAssumption, KindsDiffer
<1>1. /\ handle[h] = Static /\ body[b] = Free /\ handle' = [handle EXCEPT ![h] = b]
      /\ UNCHANGED <<inquired, serving, refused, supports, exists, dangling>>
  BY DEF New, NewFromProvider
<1>2. PICK x \in {Null, Own, From(supports)} :
        /\ x = From(supports) => exists
        /\ body' = [body EXCEPT ![b] = x]
        /\ UNCHANGED vars \/ Seek(0, "SET")
  <2>1. CASE New(h, b)
    BY <2>1 DEF New
  <2>2. CASE NewFromProvider(h, b)
    BY <2>2 DEF NewFromProvider, Provided
  <2>3. QED
    BY <2>1, <2>2
<1>3. /\ \A g \in Handle : handle'[g] = IF g = h THEN b ELSE handle[g]
      /\ handle' \in [Handle -> Alive \cup {b, Static}]
  BY <1>1 DEF DInv, Bodies
<1>4. Held(b)' /\ \A c \in Body : Held(c) => Held(c)'
  BY <1>1, <1>3 DEF Held
<1>5. inquired # b
  BY <1>1 DEF DInv, Bodies, Alive
<1>6. body'[b] = x /\ \A c \in Body : c # b => body'[c] = body[c]
  BY <1>2 DEF DInv, Bodies
<1>7. /\ inquired' \in Alive \cup {b, Static} /\ serving' \in Body \cup {Static}
      /\ serving' # Static => inquired' = serving' /\ ~refused'
      /\ inquired' # Static /\ serving' = Static => body'[inquired'].kind = "null" \/ refused'
  BY <1>1, <1>5, <1>6 DEF DInv, Bodies, Owned, Alive
<1>8. refused' \in BOOLEAN
  BY <1>1 DEF DInv, Bodies
<1>9. \A g \in Handle : handle'[g] \in {handle[g], b}
  BY <1>3
<1>10. QED
  BY <1>1, <1>2, <1>3, <1>4, <1>7, <1>8, <1>9, MadeKeeps

\* An inquiry with a provider's Data.
LEMMA InquireNewKeeps ==
  ASSUME DInv, NEW b \in Body, NEW err \in BOOLEAN, InquireNew(b, err)
  PROVE  Keeps
<1> USE DataAssumption, KindsDiffer
<1>1. /\ serving = Static /\ inquired = Static /\ exists /\ body[b] = Free
      /\ inquired' = b
      /\ serving' = IF err \/ body'[b].kind = "null" THEN Static ELSE b
      /\ refused' = err
      /\ UNCHANGED <<handle, supports, exists, dangling>>
  BY DEF InquireNew, Kept
<1>2. PICK x \in {Null, Own, From(supports)} :
        /\ body' = [body EXCEPT ![b] = x]
        /\ UNCHANGED vars \/ Seek(0, "SET")
  BY DEF InquireNew, Provided
<1>3. Held(b)' /\ \A c \in Body : Held(c) => Held(c)'
  BY <1>1 DEF Held
<1>4. handle' \in [Handle -> Alive \cup {b, Static}]
  BY <1>1 DEF DInv, Bodies
<1>5. /\ serving' # Static => inquired' = serving' /\ ~refused'
      /\ inquired' # Static /\ serving' = Static => body'[inquired'].kind = "null" \/ refused'
      /\ serving' \in Body \cup {Static}
  BY <1>1
<1>6. QED
  BY <1>1, <1>2, <1>3, <1>4, <1>5, MadeKeeps

\* A copy of a handle, or none, takes the place of another.
LEMMA AssignKeeps ==
  ASSUME DInv, NEW h \in Handle, (\E g \in Handle : Assign(h, g)) \/ Drop(h)
  PROVE  Keeps
<1>1. PICK b \in {handle[g] : g \in Handle} \cup {Static} : handle' = [handle EXCEPT ![h] = b]
  BY DEF Assign, Drop
<1>2. Settle /\ UNCHANGED <<inquired, serving, refused, supports, exists>>
  BY DEF Assign, Drop
<1>3. /\ handle' \in [Handle -> Alive \cup {Static}]
      /\ \A g \in Handle : handle'[g] \in {handle[k] : k \in Handle} \cup {Static}
  BY <1>1 DEF DInv, Bodies
<1>4. /\ inquired' \in Alive \cup {Static} /\ serving' \in Body \cup {Static}
      /\ serving' # Static => inquired' = serving' /\ ~refused'
      /\ inquired' # Static /\ serving' = Static => body[inquired'].kind = "null" \/ refused'
  BY <1>2 DEF DInv, Bodies, Owned
<1>5. refused' \in BOOLEAN
  BY <1>2 DEF DInv, Bodies
<1>6. ~exists => \A b_1 \in Body : body[b_1].kind = "provider" =>
                   (inquired' = b_1 => refused') /\ \A g \in Handle : handle'[g] # b_1
  BY <1>2, <1>3, DataAssumption DEF DInv, Orphaned
<1>7. QED
  BY <1>2, <1>3, <1>4, <1>5, <1>6, SettleKeeps

\* An inquiry with a copy of a handle.
LEMMA InquireCopyKeeps ==
  ASSUME DInv, NEW b \in Body \cup {Static}, NEW err \in BOOLEAN, InquireCopy(b, err)
  PROVE  Keeps
<1>1. /\ serving = Static /\ b \in {handle[h] : h \in Handle} \cup {Static}
      /\ inquired' = b
      /\ serving' = IF err \/ IsNull(b) THEN Static ELSE b
      /\ refused' = (err /\ ~IsNull(b))
      /\ UNCHANGED <<handle, supports, exists>> /\ Settle
  BY DEF InquireCopy, Kept
<1>2. handle' \in [Handle -> Alive \cup {Static}] /\ inquired' \in Alive \cup {Static}
  BY <1>1 DEF DInv, Bodies
<1>3. refused' \in BOOLEAN
  BY <1>1, Zenon
<1>4. serving' \in Body \cup {Static}
  BY <1>1
<1>5. serving' # Static => inquired' = serving' /\ ~refused'
  BY <1>1
<1>6. inquired' # Static /\ serving' = Static => body[inquired'].kind = "null" \/ refused'
  BY <1>1 DEF IsNull
<1>7. ~exists => \A c \in Body : body[c].kind = "provider" =>
                   (inquired' = c => refused') /\ \A h \in Handle : handle'[h] # c
  BY <1>1, DataAssumption DEF DInv, Orphaned
<1>8. QED
  BY <1>1, <1>2, <1>3, <1>4, <1>5, <1>6, <1>7, SettleKeeps

\* The end of an inquiry.
LEMMA InquiryDoneKeeps ==
  ASSUME DInv, InquiryDone
  PROVE  Keeps
<1>1. /\ serving # Static /\ inquired' = Static /\ serving' = Static /\ refused' = FALSE
      /\ UNCHANGED <<handle, supports, exists>> /\ Settle
  BY DEF InquiryDone
<1>2. handle' \in [Handle -> Alive \cup {Static}]
  BY <1>1 DEF DInv, Bodies
<1>3. refused' \in BOOLEAN
  BY <1>1, Zenon
<1>4. ~exists => \A c \in Body : body[c].kind = "provider" =>
                   (inquired' = c => refused') /\ \A h \in Handle : handle'[h] # c
  BY <1>1, DataAssumption DEF DInv, Orphaned
<1>5. QED
  BY <1>1, <1>2, <1>3, <1>4, SettleKeeps

\* gpgme refuses by itself, the provider goes, or nothing happens.
LEMMA RestKeeps ==
  ASSUME DInv, DataFails \/ ProviderGoes \/ UNCHANGED <<vars, dataVars>>
  PROVE  Keeps
<1>1. UNCHANGED <<mArray, mOff, undefined, body, holders, serving, refused, supports, dangling>>
  BY DEF DataFails, ProviderGoes, vars, dataVars
<1>2. /\ exists' \in BOOLEAN /\ (exists' => exists)
      /\ exists # exists' => serving = Static /\ exists' = FALSE
                             /\ \A h \in Handle, b \in Body : handle[h] = b => body[b].kind # "provider"
  <2>1. CASE exists' = exists
    BY <2>1 DEF DInv, Bodies
  <2>2. CASE ProviderGoes
    <3>1. exists' = FALSE
      BY <2>2 DEF ProviderGoes
    <3>2. exists' \in BOOLEAN
      BY <3>1, Zenon
    <3>3. QED
      BY <2>2, <3>1, <3>2 DEF ProviderGoes
  <2>3. QED
    BY <2>1, <2>2 DEF DataFails, dataVars
<1>3. TypeOK' /\ [File!Next]_<<mArray, mOff, out, ret>>
  <2>1. CASE DataFails
    <3>1. ret' = -1 /\ out' = <<>>
      BY <2>1 DEF DataFails, Returns
    <3>2. TypeOK'
      BY <1>1, <3>1, EmptySeq DEF DInv, TypeOK, Size
    <3>3. File!Refuse
      BY <1>1, <3>1 DEF File!Refuse
    <3>4. QED
      BY <3>2, <3>3 DEF File!Next
  <2>2. CASE UNCHANGED vars
    BY <2>2 DEF vars, DInv, TypeOK, Size
  <2>3. QED
    BY <2>1, <2>2 DEF ProviderGoes
<1>4. Bodies'
  BY <1>1, <1>2 DEF holders, DInv, Bodies, Alive
<1>5. Owned'
  BY <1>1, <1>2 DEF holders, DInv, Owned, Held
<1>6. Orphaned'
  <2>1. CASE exists' = exists
    BY <1>1, <2>1 DEF holders, DInv, Orphaned
  <2>2. CASE exists' # exists
    <3>1. ASSUME NEW b \in Body, body[b].kind = "provider"
          PROVE  b = inquired /\ refused /\ \A h \in Handle : handle[h] # b
      BY <1>2, <2>2, <3>1, KindsDiffer, DataAssumption DEF DInv, Owned, Held
    <3>2. QED
      BY <1>1, <3>1 DEF holders, Orphaned
  <2>3. QED
    BY <2>1, <2>2
<1>7. LastReleases
  BY <1>1, HoldersKept DEF holders, LastReleases
<1>8. QED
  BY <1>1, <1>3, <1>4, <1>5, <1>6, <1>7 DEF Keeps, DInv

-----------------------------------------------------------------------------
(* What holds of Data *)

LEMMA DataStepKeeps ==
  ASSUME DInv, [DataNext]_<<vars, dataVars>>
  PROVE  Keeps
<1>1. CASE \E h \in Handle, b \in Body : New(h, b) \/ NewFromProvider(h, b)
  BY <1>1, NewKeeps
<1>2. CASE (\E h, g \in Handle : Assign(h, g)) \/ \E h \in Handle : Drop(h)
  BY <1>2, AssignKeeps
<1>3. CASE DataRead \/ DataWrite \/ DataSeek
  BY <1>3, CallbackKeeps
<1>4. CASE \E b \in Body \cup {Static}, err \in BOOLEAN : InquireCopy(b, err)
  BY <1>4, InquireCopyKeeps
<1>5. CASE \E b \in Body, err \in BOOLEAN : InquireNew(b, err)
  BY <1>5, InquireNewKeeps
<1>6. CASE InquiryDone
  BY <1>6, InquiryDoneKeeps
<1>7. CASE DataFails \/ ProviderGoes \/ UNCHANGED <<vars, dataVars>>
  BY <1>7, RestKeeps
<1>8. QED
  BY <1>1, <1>2, <1>3, <1>4, <1>5, <1>6, <1>7 DEF DataNext

\* The invariant says more than the property: nothing lives without a holder.
LEMMA InvariantIsEnough == DInv => NothingDangles
<1> SUFFICES ASSUME DInv
             PROVE  NothingDangles
  OBVIOUS
<1>1. DataTypeOK
  BY DEF DInv, Bodies, Alive, DataTypeOK
<1>2. serving # Static => body[serving] # Free
  BY DEF DInv, Owned, Bodies, Alive
<1>3. \A b \in Body :
        body[b].kind = "provider" /\ ~exists =>
          b = inquired /\ refused /\ \A h \in Handle : handle[h] # b
  BY DEF DInv, Orphaned
<1>4. QED
  BY <1>1, <1>2, <1>3 DEF NothingDangles, DInv, Owned

LEMMA DataKeepsInvariant == DataSpec => []DInv
<1>1. DataInit => DInv
  BY DInitHolds
<1>2. DInv /\ [DataNext]_<<vars, dataVars>> => DInv'
  BY DataStepKeeps DEF Keeps
<1>3. QED
  BY <1>1, <1>2, PTL DEF DataSpec

\* The data that gpgme reads for an inquiry lives until gpgme is done with it,
\* and no provider is called after its end unless it is that of Data which
\* inquire() returned along with an error: for any number of handles and
\* bodies, whatever the provider supports.
THEOREM DataLiveLongEnough == DataSpec => []NothingDangles
<1>1. DataSpec => []DInv
  BY DataKeepsInvariant
<1>2. QED
  BY <1>1, InvariantIsEnough, PTL

\* The provider's release() is called by the last handle of a Data, and its
\* bytes go by nothing else, but for a write that fails.
THEOREM LastHandleReleases == DataSpec => ReleasedByLast
<1>1. DInv /\ [DataNext]_<<vars, dataVars>> => [LastReleases]_<<vars, dataVars>>
  BY DataStepKeeps DEF Keeps
<1>2. DataSpec => []DInv
  BY DataKeepsInvariant
<1>3. QED
  BY <1>1, <1>2, PTL DEF DataSpec, ReleasedByLast, LastReleases

\* Behind any number of Data, QByteArrayDataProvider is a file with a position:
\* what gpgme reads, writes, seeks and releases is what a file would do that is
\* as long as an int counts at most, what it is told of each call too, and
\* nothing that the handles or the inquiries do shows in it.
THEOREM DataServesAFile == DataSpec => IsFile
<1>1. DataInit => File!Init
  BY DInitHolds
<1>2. DInv /\ [DataNext]_<<vars, dataVars>> => [File!Next]_<<mArray, mOff, out, ret>>
  BY DataStepKeeps DEF Keeps
<1>3. DataSpec => []DInv
  BY DataKeepsInvariant
<1>4. QED
  BY <1>1, <1>2, <1>3, PTL DEF DataSpec, IsFile, File!Spec

-----------------------------------------------------------------------------
(* Induction and recursive functions, for what transactions collect *)

\* The least number of a set, by way of the intervals up to its numbers.
LEMMA SmallestOf ==
  ASSUME NEW T \in SUBSET Nat, T # {}
  PROVE  \E m \in T : \A k \in T : m <= k
<1> DEFINE U == {1 .. k : k \in T}
<1>1. U \subseteq FiniteSubsetsOf(Nat) /\ U # {}
  <2>1. \A k \in T : IsFiniteSet(1 .. k)
    BY FS_Interval
  <2>2. \A k \in T : 1 .. k \in FiniteSubsetsOf(Nat)
    BY <2>1 DEF FiniteSubsetsOf
  <2>3. QED
    BY <2>2
<1>2. PICK x \in U : \A y \in U : <<y, x>> \notin StrictSubsetOrdering(Nat)
  BY <1>1, WFMin, FS_StrictSubsetOrderingWellFounded
<1>3. PICK m \in T : x = 1 .. m
  BY <1>2
<1>4. ASSUME NEW k \in T, k < m
      PROVE  FALSE
  <2>1. 1 .. k \subseteq 1 .. m /\ m \in 1 .. m /\ m \notin 1 .. k
    BY <1>4
  <2>2. 1 .. k \in SUBSET Nat /\ 1 .. m \in SUBSET Nat /\ 1 .. k # 1 .. m
    BY <2>1
  <2>3. <<1 .. k, 1 .. m>> \in StrictSubsetOrdering(Nat)
    BY <2>1, <2>2 DEF StrictSubsetOrdering
  <2>4. QED
    BY <1>2, <1>3, <2>3
<1>5. QED
  BY <1>4

\* Induction for a set in the place of a property.
LEMMA NumbersByInduction ==
  ASSUME NEW T, 0 \in T, \A n \in Nat : n \in T => n + 1 \in T
  PROVE  Nat \subseteq T
<1>1. SUFFICES ASSUME Nat \ T # {} PROVE FALSE
  OBVIOUS
<1>2. PICK m \in Nat \ T : \A k \in Nat \ T : m <= k
  BY <1>1, SmallestOf
<1>3. m # 0 /\ m - 1 \in Nat
  BY <1>2
<1>4. m - 1 \in T
  BY <1>2, <1>3
<1>5. m \in T
  BY <1>3, <1>4
<1>6. QED
  BY <1>2, <1>5

\* A function that is given by its first value and its steps exists.
StepsBy(f, n, V, b, g) ==
  f \in [0 .. n -> V] /\ f[0] = b /\ \A i \in 1 .. n : f[i] = g[i][f[i - 1]]

LEMMA StepwiseFunction ==
  ASSUME NEW n \in Nat, NEW V, NEW b \in V, NEW g \in [1 .. n -> [V -> V]]
  PROVE  \E f : StepsBy(f, n, V, b, g)
<1> DEFINE Fits(f, k) == f[0] = b /\ \A i \in 1 .. n : i <= k => f[i] = g[i][f[i - 1]]
           T == {k \in Nat : \E f \in [0 .. n -> V] : Fits(f, k)}
<1>1. 0 \in T
  <2>1. [i \in 0 .. n |-> b] \in [0 .. n -> V] /\ Fits([i \in 0 .. n |-> b], 0)
    OBVIOUS
  <2>2. QED
    BY <2>1
<1>2. ASSUME NEW k \in Nat, k \in T
      PROVE  k + 1 \in T
  <2>1. PICK f \in [0 .. n -> V] : Fits(f, k)
    BY <1>2
  <2>2. CASE k + 1 > n
    <3>1. Fits(f, k + 1)
      BY <2>1, <2>2
    <3>2. QED
      BY <3>1
  <2>3. CASE k + 1 <= n
    <3> DEFINE h == [f EXCEPT ![k + 1] = g[k + 1][f[k]]]
    <3>1. k + 1 \in 1 .. n /\ k \in 0 .. n
      BY <2>3
    <3>2. g[k + 1] \in [V -> V] /\ f[k] \in V
      BY <3>1
    <3>3. h \in [0 .. n -> V] /\ h[k + 1] = g[k + 1][f[k]] /\ \A i \in 0 .. k : h[i] = f[i]
      BY <3>1, <3>2
    <3>4. Fits(h, k + 1)
      BY <2>1, <3>1, <3>3
    <3>5. QED
      <4> HIDE DEF h, Fits
      <4>1. QED
        BY <3>3, <3>4
  <2>4. QED
    BY <2>2, <2>3
<1>3. n \in T
  <2> HIDE DEF T
  <2>1. QED
    BY <1>1, <1>2, NumbersByInduction
<1>4. QED
  BY <1>3 DEF StepsBy

-----------------------------------------------------------------------------
(* Status lines under a tag *)

TaggedBy(list, tag, f, n) ==
  IF n = 0 THEN <<>>
  ELSE IF list[n].tag = tag THEN Append(f[n - 1], list[n])
  ELSE f[n - 1]

\* f collects what Tagged() does, from the front of the list.
TaggedSoFar(list, tag, f, V) ==
  /\ f \in [0 .. Len(list) -> Seq(V)]
  /\ \A n \in 0 .. Len(list) : f[n] = TaggedBy(list, tag, f, n)
  /\ Tagged(list, tag) = f[Len(list)]

LEMMA TaggedUnfolds ==
  ASSUME NEW V, NEW list \in Seq(V), NEW tag
  PROVE  \E f : TaggedSoFar(list, tag, f, V)
<1> DEFINE N == Len(list)
           W == Seq(V)
           nil == <<>>
           g == [i \in 1 .. N |-> [s \in W |-> IF list[i].tag = tag THEN Append(s, list[i]) ELSE s]]
           Meets(f) == f = [n \in 0 .. N |-> TaggedBy(list, tag, f, n)]
           f == CHOOSE h : Meets(h)
           T == {k \in Nat : k <= N => f[k] \in W}
<1>1. N \in Nat /\ nil \in W /\ \A i \in 1 .. N : list[i] \in V
  OBVIOUS
<1>2. \A i \in 1 .. N, s \in W : Append(s, list[i]) \in W
  BY <1>1, AppendProperties
<1>3. Tagged(list, tag) = f[N]
  BY DEF Tagged, TaggedBy
<1>4. /\ \A h : TaggedBy(list, tag, h, 0) = nil
      /\ \A h : \A i \in 1 .. N : TaggedBy(list, tag, h, i)
                  = IF list[i].tag = tag THEN Append(h[i - 1], list[i]) ELSE h[i - 1]
  BY <1>1 DEF TaggedBy
<1> HIDE DEF N, W, nil
<1>5. /\ g \in [1 .. N -> [W -> W]]
      /\ \A i \in 1 .. N, s \in W : g[i][s] = IF list[i].tag = tag THEN Append(s, list[i]) ELSE s
  BY <1>2
<1> HIDE DEF g
<1>6. PICK e : StepsBy(e, N, W, nil, g)
  <2> HIDE DEF Meets, f
  <2>1. N \in Nat /\ nil \in W /\ g \in [1 .. N -> [W -> W]]
    BY <1>1, <1>5
  <2>2. QED
    BY <2>1, StepwiseFunction
<1>7. e \in [0 .. N -> W] /\ e[0] = nil /\ \A i \in 1 .. N : e[i] = g[i][e[i - 1]]
  BY <1>6 DEF StepsBy
<1>8. ASSUME NEW i \in 0 .. N
      PROVE  e[i] = TaggedBy(list, tag, e, i)
  <2>1. CASE i = 0
    BY <1>4, <1>7, <2>1
  <2>2. CASE i \in 1 .. N
    <3>1. e[i - 1] \in W
      <4>1. i - 1 \in 0 .. N
        BY <1>1, <2>2
      <4>2. QED
        BY <1>7, <4>1
    <3>2. QED
      BY <1>4, <1>5, <1>7, <2>2, <3>1
  <2>3. QED
    BY <1>1, <2>1, <2>2
<1>9. Meets(e)
  <2>1. e = [n \in 0 .. N |-> e[n]]
    BY <1>7
  <2>2. QED
    BY <1>8, <2>1
<1>10. Meets(f)
  <2> HIDE DEF Meets
  <2>1. QED
    BY <1>9
<1> HIDE DEF f
<1>11. \A n \in 0 .. N : f[n] = TaggedBy(list, tag, f, n)
  BY <1>10
<1>12. 0 \in T
  BY <1>1, <1>4, <1>11
<1>13. ASSUME NEW k \in Nat, k \in T
       PROVE  k + 1 \in T
  <2>1. CASE k + 1 <= N
    <3>1. f[k] \in W /\ k + 1 \in 1 .. N /\ k + 1 \in 0 .. N /\ (k + 1) - 1 = k
      BY <1>1, <1>13, <2>1
    <3>2. f[k + 1] = IF list[k + 1].tag = tag THEN Append(f[k], list[k + 1]) ELSE f[k]
      BY <1>4, <1>11, <3>1
    <3>3. f[k + 1] \in W
      BY <1>2, <3>1, <3>2
    <3>4. QED
      BY <3>3
  <2>2. CASE k + 1 > N
    BY <1>1, <2>2
  <2>3. QED
    BY <1>1, <2>1, <2>2
<1>14. Nat \subseteq T
  <2> HIDE DEF T
  <2>1. QED
    BY <1>12, <1>13, NumbersByInduction
<1>15. f \in [0 .. N -> W]
  <2>1. \A k \in 0 .. N : f[k] \in W
    BY <1>1, <1>14
  <2>2. QED
    BY <1>10, <2>1
<1>16. QED
  BY <1>3, <1>11, <1>15 DEF N, W, TaggedSoFar

\* Of two lists with the same tags in the same places, the same places are
\* picked.
LEMMA TaggedAlike ==
  ASSUME NEW V, NEW list \in Seq(V), NEW Q, NEW other \in Seq(Q), NEW tag,
         Len(other) = Len(list), \A i \in 1 .. Len(list) : other[i].tag = list[i].tag
  PROVE  /\ Tagged(list, tag) \in Seq(V) /\ Tagged(other, tag) \in Seq(Q)
         /\ Len(Tagged(other, tag)) = Len(Tagged(list, tag))
         /\ \A k \in 1 .. Len(Tagged(list, tag)) : \E i \in 1 .. Len(list) :
              Tagged(list, tag)[k] = list[i] /\ Tagged(other, tag)[k] = other[i]
<1> DEFINE N == Len(list)
<1>1. N \in Nat /\ Len(other) = N
  OBVIOUS
<1>2. PICK e : TaggedSoFar(list, tag, e, V)
  BY TaggedUnfolds
<1>3. PICK h : TaggedSoFar(other, tag, h, Q)
  BY TaggedUnfolds
<1>4. /\ e \in [0 .. N -> Seq(V)] /\ Tagged(list, tag) = e[N]
      /\ \A n \in 0 .. N : e[n] = TaggedBy(list, tag, e, n)
  BY <1>2 DEF TaggedSoFar
<1>5. /\ h \in [0 .. N -> Seq(Q)] /\ Tagged(other, tag) = h[N]
       /\ \A n \in 0 .. N : h[n] = TaggedBy(other, tag, h, n)
  BY <1>1, <1>3 DEF TaggedSoFar
<1> DEFINE Picked(n, k) == \E i \in 1 .. N : e[n][k] = list[i] /\ h[n][k] = other[i]
           Agree(n) == Len(h[n]) = Len(e[n]) /\ \A k \in 1 .. Len(e[n]) : Picked(n, k)
           T == {n \in Nat : n <= N => Agree(n)}
<1>6. 0 \in T
  <2>1. 0 \in 0 .. N
    BY <1>1
  <2>2. e[0] = <<>> /\ h[0] = <<>>
    BY <2>1, <1>4, <1>5 DEF TaggedBy
  <2>3. QED
    BY <2>2
<1>7. ASSUME NEW n \in Nat, n \in T
      PROVE  n + 1 \in T
  <2>1. SUFFICES ASSUME n + 1 <= N PROVE Agree(n + 1)
    <3> HIDE DEF Agree
    <3>1. QED
      BY <1>1
  <2>2. n \in 0 .. N /\ n + 1 \in 0 .. N /\ n + 1 \in 1 .. N /\ n + 1 # 0 /\ (n + 1) - 1 = n
    BY <1>1, <2>1
  <2>3. Agree(n)
    BY <1>7, <2>1
  <2>4. e[n] \in Seq(V) /\ h[n] \in Seq(Q) /\ list[n + 1] \in V /\ other[n + 1] \in Q
    BY <1>1, <1>4, <1>5, <2>2
  <2>5. other[n + 1].tag = list[n + 1].tag
    BY <2>2
  <2>6. /\ e[n + 1] = IF list[n + 1].tag = tag THEN Append(e[n], list[n + 1]) ELSE e[n]
        /\ h[n + 1] = IF other[n + 1].tag = tag THEN Append(h[n], other[n + 1]) ELSE h[n]
    BY <1>4, <1>5, <2>2 DEF TaggedBy
  <2>7. CASE list[n + 1].tag # tag
    BY <2>3, <2>5, <2>6, <2>7
  <2>8. CASE list[n + 1].tag = tag
    <3>1. e[n + 1] = Append(e[n], list[n + 1]) /\ h[n + 1] = Append(h[n], other[n + 1])
      BY <2>5, <2>6, <2>8
    <3>2. Len(e[n]) \in Nat
      BY <2>4
    <3>3. /\ Len(e[n + 1]) = Len(e[n]) + 1
          /\ \A k \in 1 .. Len(e[n]) : e[n + 1][k] = e[n][k]
          /\ e[n + 1][Len(e[n]) + 1] = list[n + 1]
      BY <2>4, <3>1, AppendProperties
    <3>4. /\ Len(h[n + 1]) = Len(h[n]) + 1
          /\ \A k \in 1 .. Len(h[n]) : h[n + 1][k] = h[n][k]
          /\ h[n + 1][Len(h[n]) + 1] = other[n + 1]
      BY <2>4, <3>1, AppendProperties
    <3>5. ASSUME NEW k \in 1 .. Len(e[n + 1])
          PROVE  Picked(n + 1, k)
      <4>1. CASE k \in 1 .. Len(e[n])
        <5>1. Picked(n, k) /\ e[n + 1][k] = e[n][k] /\ h[n + 1][k] = h[n][k]
          BY <2>3, <3>3, <3>4, <4>1
        <5>2. QED
          BY <5>1
      <4>2. CASE k = Len(e[n]) + 1
        <5>1. e[n + 1][k] = list[n + 1] /\ h[n + 1][k] = other[n + 1]
          BY <2>3, <3>3, <3>4, <4>2
        <5>2. QED
          BY <2>2, <5>1
      <4>3. QED
        BY <3>2, <3>3, <4>1, <4>2
    <3>6. QED
      BY <2>3, <3>3, <3>4, <3>5
  <2>9. QED
    BY <2>7, <2>8
<1>8. Agree(N)
  <2>1. Nat \subseteq T
    <3> HIDE DEF T
    <3>1. QED
      BY <1>6, <1>7, NumbersByInduction
  <2>2. QED
    <3> HIDE DEF Agree
    <3>1. QED
      BY <1>1, <2>1
<1>9. e[N] \in Seq(V) /\ h[N] \in Seq(Q)
  BY <1>1, <1>4, <1>5
<1>10. QED
  BY <1>8, <1>9, <1>4, <1>5

-----------------------------------------------------------------------------
(* Sequences in a row *)

\* f puts the sequences together from the front.
FlatSoFar(seqs, f, V) ==
  /\ f \in [0 .. Len(seqs) -> Seq(V)]
  /\ f[0] = <<>>
  /\ \A i \in 1 .. Len(seqs) : f[i] = f[i - 1] \o seqs[i]
  /\ FlattenSeq(seqs) = f[Len(seqs)]

LEMMA FlattenUnfolds ==
  ASSUME NEW V, NEW seqs \in Seq(Seq(V))
  PROVE  \E f : FlatSoFar(seqs, f, V)
<1> DEFINE N == Len(seqs)
           W == Seq(V)
           nil == <<>>
           g == [i \in 1 .. N |-> [s \in W |-> s \o seqs[i]]]
           Meets(f) == f = [i \in 1 .. N |-> IF i = 1 THEN seqs[i] ELSE f[i - 1] \o seqs[i]]
           f == CHOOSE h : Meets(h)
<1>1. N \in Nat /\ nil \in W /\ \A i \in 1 .. N : seqs[i] \in W
  OBVIOUS
<1>2. \A i \in 1 .. N, s \in W : s \o seqs[i] \in W
  BY <1>1, ConcatProperties
<1>3. FlattenSeq(seqs) = IF N = 0 THEN seqs ELSE f[N]
  BY DEF FlattenSeq
<1>4. /\ \A s \in W : nil \o s = s
      /\ N = 0 => seqs = nil
  BY EmptySeq, ConcatEmptySeq
<1> HIDE DEF N, W, nil
<1>5. /\ g \in [1 .. N -> [W -> W]]
      /\ \A i \in 1 .. N, s \in W : g[i][s] = s \o seqs[i]
  BY <1>2
<1> HIDE DEF g
<1>6. PICK e : StepsBy(e, N, W, nil, g)
  <2> HIDE DEF Meets, f
  <2>1. N \in Nat /\ nil \in W /\ g \in [1 .. N -> [W -> W]]
    BY <1>1, <1>5
  <2>2. QED
    BY <2>1, StepwiseFunction
<1>7. e \in [0 .. N -> W] /\ e[0] = nil /\ \A i \in 1 .. N : e[i] = g[i][e[i - 1]]
  BY <1>6 DEF StepsBy
<1>8. \A i \in 1 .. N : e[i] = e[i - 1] \o seqs[i]
  <2> TAKE i \in 1 .. N
  <2>1. i - 1 \in 0 .. N
    BY <1>1
  <2>2. QED
    BY <1>5, <1>7, <2>1
<1> DEFINE h == [i \in 1 .. N |-> e[i]]
<1>9. Meets(h)
  <2>1. ASSUME NEW i \in 1 .. N
        PROVE  h[i] = IF i = 1 THEN seqs[i] ELSE h[i - 1] \o seqs[i]
    <3>1. CASE i = 1
      <4>1. e[i] = nil \o seqs[i] /\ seqs[i] \in W
        <5>1. i - 1 = 0
          BY <3>1
        <5>2. e[i] = e[i - 1] \o seqs[i]
          BY <1>8
        <5>3. QED
          BY <1>1, <1>7, <5>1, <5>2
      <4>2. nil \o seqs[i] = seqs[i]
        BY <1>4, <4>1
      <4>3. QED
        BY <3>1, <4>1, <4>2
    <3>2. CASE i # 1
      <4>1. i - 1 \in 1 .. N
        BY <1>1, <3>2
      <4>2. QED
        BY <1>8, <3>2, <4>1
    <3>3. QED
      BY <3>1, <3>2
  <2>2. QED
    BY <2>1
<1>10. Meets(f)
  <2> HIDE DEF Meets, h
  <2>1. QED
    BY <1>9
<1> HIDE DEF f, h
<1> DEFINE T == {k \in Nat : k \in 1 .. N => f[k] = e[k]}
<1>11. 0 \in T
  OBVIOUS
<1>12. ASSUME NEW k \in Nat, k \in T
       PROVE  k + 1 \in T
  <2>1. CASE k = 0 /\ 1 <= N
    <3>1. 1 \in 1 .. N /\ 1 - 1 = 0
      BY <1>1, <2>1
    <3>2. f[1] = seqs[1] /\ e[1] = nil \o seqs[1]
      BY <1>7, <1>8, <1>10, <3>1
    <3>3. seqs[1] \in W /\ k + 1 = 1
      BY <1>1, <2>1, <3>1
    <3>4. nil \o seqs[1] = seqs[1]
      BY <1>4, <3>3
    <3>5. f[k + 1] = e[k + 1]
      BY <3>2, <3>3, <3>4
    <3>6. QED
      BY <3>5
  <2>2. CASE k \in 1 .. N /\ k + 1 <= N
    <3>1. k + 1 \in 1 .. N /\ k + 1 # 1 /\ (k + 1) - 1 = k
      BY <1>1, <2>2
    <3>2. f[k + 1] = f[k] \o seqs[k + 1] /\ e[k + 1] = e[k] \o seqs[k + 1]
      BY <1>8, <1>10, <3>1
    <3>3. f[k] = e[k]
      BY <1>12, <2>2
    <3>4. f[k + 1] = e[k + 1]
      BY <3>2, <3>3
    <3>5. QED
      BY <3>4
  <2>3. CASE k + 1 > N
    BY <1>1, <2>3
  <2>4. QED
    BY <1>1, <2>1, <2>2, <2>3
<1>13. Nat \subseteq T
  <2> HIDE DEF T
  <2>1. QED
    BY <1>11, <1>12, NumbersByInduction
<1>14. FlattenSeq(seqs) = e[N]
  <2>1. CASE N = 0
    BY <1>3, <1>4, <1>7, <2>1
  <2>2. CASE N # 0
    <3>1. N \in 1 .. N
      BY <1>1, <2>2
    <3>2. f[N] = e[N]
      BY <1>1, <1>13, <3>1
    <3>3. QED
      BY <1>3, <2>2, <3>2
  <2>3. QED
    BY <2>1, <2>2
<1>15. QED
  BY <1>7, <1>8, <1>14 DEF N, W, nil, FlatSoFar

-----------------------------------------------------------------------------
(* percent_unescape() *)

UnescapedByte(s, i) ==
  IF s[i] = Percent /\ Len(s) - i >= 2 THEN HexDigit(s[i + 1]) * 16 + HexDigit(s[i + 2])
  ELSE IF s[i] = Plus THEN Space ELSE s[i]

UnescapeBy(s, f, i) ==
  IF i > Len(s) THEN <<>>
  ELSE IF s[i] = Percent /\ Len(s) - i >= 2
       THEN <<HexDigit(s[i + 1]) * 16 + HexDigit(s[i + 2])>> \o f[i + 3]
  ELSE <<IF s[i] = Plus THEN Space ELSE s[i]>> \o f[i + 1]

\* f[i] is what the text gives from its byte i on.
UnescapedFrom(s, f) ==
  /\ f \in [1 .. Len(s) + 3 -> Seq(Octet)]
  /\ \A i \in 1 .. Len(s) + 3 : f[i] = UnescapeBy(s, f, i)
  /\ Unescape(s) = f[1]

LEMMA DigitIsSmall ==
  ASSUME NEW ch
  PROVE  HexDigit(ch) \in 0 .. 15
BY DEF HexDigit

LEMMA UnescapedIsOctet ==
  ASSUME NEW s \in Seq(Octet), NEW i \in 1 .. Len(s)
  PROVE  UnescapedByte(s, i) \in Octet
<1>1. s[i] \in Octet
  OBVIOUS
<1>2. HexDigit(s[i + 1]) \in 0 .. 15 /\ HexDigit(s[i + 2]) \in 0 .. 15
  BY DigitIsSmall
<1>3. \A a, b \in 0 .. 15 : a * 16 + b \in Octet
  BY DEF Octet
<1>4. HexDigit(s[i + 1]) * 16 + HexDigit(s[i + 2]) \in Octet
  BY <1>2, <1>3
<1>5. Space \in Octet
  BY DEF Octet, Space
<1>6. QED
  BY <1>1, <1>4, <1>5 DEF UnescapedByte

\* What it makes of a text, from what it makes of shorter ends of it.
LEMMA UnescapeSteps ==
  ASSUME NEW s \in Seq(Octet), NEW f, NEW i \in 1 .. Len(s) + 3
  PROVE  /\ i > Len(s) => UnescapeBy(s, f, i) = <<>>
         /\ i <= Len(s) /\ s[i] = Percent /\ Len(s) - i >= 2 =>
              UnescapeBy(s, f, i) = <<UnescapedByte(s, i)>> \o f[i + 3]
         /\ i <= Len(s) /\ ~(s[i] = Percent /\ Len(s) - i >= 2) =>
              UnescapeBy(s, f, i) = <<UnescapedByte(s, i)>> \o f[i + 1]
<1>1. Len(s) \in Nat
  OBVIOUS
<1>2. QED
  BY <1>1 DEF UnescapeBy, UnescapedByte

LEMMA UnescapeStepTyped ==
  ASSUME NEW s \in Seq(Octet), NEW f, NEW i \in 1 .. Len(s) + 3,
         i <= Len(s) => f[i + 1] \in Seq(Octet) /\ f[i + 3] \in Seq(Octet)
  PROVE  UnescapeBy(s, f, i) \in Seq(Octet)
<1>1. Len(s) \in Nat
  OBVIOUS
<1>2. CASE i > Len(s)
  <2>1. UnescapeBy(s, f, i) = <<>>
    BY <1>2, UnescapeSteps
  <2>2. QED
    BY <2>1
<1>3. CASE i <= Len(s)
  <2> DEFINE one == <<UnescapedByte(s, i)>>
  <2>1. i \in 1 .. Len(s)
    BY <1>1, <1>3
  <2>2. one \in Seq(Octet)
    BY <2>1, UnescapedIsOctet
  <2>3. UnescapeBy(s, f, i) = one \o f[i + 3] \/ UnescapeBy(s, f, i) = one \o f[i + 1]
    BY <1>3, UnescapeSteps
  <2> HIDE DEF one
  <2>4. QED
    BY <1>3, <2>2, <2>3, ConcatProperties
<1>4. QED
  BY <1>1, <1>2, <1>3

LEMMA UnescapeUnfolds ==
  ASSUME NEW s \in Seq(Octet)
  PROVE  \E f : UnescapedFrom(s, f)
<1> DEFINE N == Len(s) + 3
           W == Seq(Octet)
           nil == <<>>
           Meets(f) == f = [i \in 1 .. N |-> UnescapeBy(s, f, i)]
           f == CHOOSE h : Meets(h)
           Fits(h, k) == /\ h \in [1 .. N -> W]
                         /\ \A i \in 1 .. N : i > N - k => h[i] = UnescapeBy(s, h, i)
           T == {k \in Nat : k <= N => \E h : Fits(h, k)}
<1>1. N \in Nat /\ Len(s) \in Nat /\ N = Len(s) + 3 /\ nil \in W
  OBVIOUS
<1>2. Unescape(s) = f[1]
  BY DEF Unescape, UnescapeBy
<1> HIDE DEF N, nil
<1>3. 0 \in T
  <2>1. [i \in 1 .. N |-> nil] \in [1 .. N -> W]
    <3> HIDE DEF W
    <3>1. QED
      BY <1>1
  <2>2. \A i \in 1 .. N : ~(i > N - 0)
    BY <1>1
  <2>3. Fits([i \in 1 .. N |-> nil], 0)
    BY <2>1, <2>2
  <2>4. \E h : Fits(h, 0)
    <3> HIDE DEF Fits
    <3>1. QED
      BY <2>3
  <2>5. QED
    BY <2>4
<1>4. ASSUME NEW k \in Nat, k \in T
      PROVE  k + 1 \in T
  <2>1. SUFFICES ASSUME k + 1 <= N PROVE \E h : Fits(h, k + 1)
    <3> HIDE DEF Fits
    <3>1. QED
      BY <1>1
  <2>2. PICK h : Fits(h, k)
    <3> HIDE DEF Fits
    <3>1. QED
      BY <1>1, <1>4, <2>1
  <2> DEFINE j == N - k
             e == [h EXCEPT ![j] = UnescapeBy(s, h, j)]
  <2>3. j \in 1 .. N /\ j \in 1 .. Len(s) + 3
    BY <1>1, <2>1
  <2>4. UnescapeBy(s, h, j) \in W
    <3>1. ASSUME j <= Len(s)
          PROVE  h[j + 1] \in W /\ h[j + 3] \in W
      <4>1. j + 1 \in 1 .. N /\ j + 3 \in 1 .. N
        BY <1>1, <2>3, <3>1
      <4>2. QED
        BY <2>2, <4>1
    <3> HIDE DEF j
    <3>2. QED
      BY <2>3, <3>1, UnescapeStepTyped
  <2>5. /\ e \in [1 .. N -> W]
        /\ e[j] = UnescapeBy(s, h, j)
        /\ \A i \in 1 .. N : i # j => e[i] = h[i]
    <3> HIDE DEF W, j
    <3>1. QED
      BY <2>2, <2>3, <2>4
  <2>6. ASSUME NEW i \in 1 .. N, i > N - (k + 1)
        PROVE  e[i] = UnescapeBy(s, e, i)
    <3>1. i >= j /\ i \in 1 .. Len(s) + 3
      BY <1>1, <2>6
    <3>2. i <= Len(s) => e[i + 1] = h[i + 1] /\ e[i + 3] = h[i + 3]
      <4>1. i <= Len(s) => i + 1 \in 1 .. N /\ i + 3 \in 1 .. N /\ i + 1 # j /\ i + 3 # j
        BY <1>1, <2>3, <3>1
      <4> HIDE DEF e, j
      <4>2. QED
        BY <2>5, <4>1
    <3>3. UnescapeBy(s, e, i) = UnescapeBy(s, h, i)
      <4> HIDE DEF e, j
      <4>1. QED
        BY <1>1, <3>1, <3>2 DEF UnescapeBy
    <3>4. i # j => h[i] = UnescapeBy(s, h, i)
      BY <1>1, <2>2, <2>3, <3>1
    <3> HIDE DEF e, j
    <3>5. QED
      BY <2>5, <3>3, <3>4
  <2>7. Fits(e, k + 1)
    <3> HIDE DEF e
    <3>1. QED
      BY <2>5, <2>6
  <2>8. QED
    <3> HIDE DEF Fits, e
    <3>1. QED
      BY <2>7
<1>5. PICK h : Fits(h, N)
  <2>1. Nat \subseteq T
    <3> HIDE DEF T
    <3>1. QED
      BY <1>3, <1>4, NumbersByInduction
  <2> HIDE DEF Fits
  <2>2. QED
    BY <1>1, <2>1
<1>6. Meets(h)
  <2>1. \A i \in 1 .. N : i > N - N
    BY <1>1
  <2>2. \A i \in 1 .. N : h[i] = UnescapeBy(s, h, i)
    BY <1>5, <2>1
  <2>3. h = [i \in 1 .. N |-> h[i]]
    BY <1>5
  <2>4. QED
    BY <2>2, <2>3
<1>7. Meets(f)
  <2> HIDE DEF Meets
  <2>1. QED
    BY <1>6
<1> HIDE DEF f
<1>8. \A i \in 1 .. N : f[i] = UnescapeBy(s, f, i)
  BY <1>7
<1> DEFINE U == {k \in Nat : \A i \in 1 .. N : i > N - k => f[i] \in W}
<1>9. 0 \in U
  BY <1>1
<1>10. ASSUME NEW k \in Nat, k \in U
       PROVE  k + 1 \in U
  <2>1. ASSUME NEW i \in 1 .. N, i > N - (k + 1)
        PROVE  f[i] \in W
    <3>1. i \in 1 .. Len(s) + 3
      BY <1>1
    <3>2. ASSUME i <= Len(s)
          PROVE  f[i + 1] \in W /\ f[i + 3] \in W
      <4>1. i + 1 \in 1 .. N /\ i + 1 > N - k /\ i + 3 \in 1 .. N /\ i + 3 > N - k
        BY <1>1, <2>1, <3>2
      <4>2. QED
        BY <1>10, <4>1
    <3>3. UnescapeBy(s, f, i) \in W
      BY <3>1, <3>2, UnescapeStepTyped
    <3>4. QED
      BY <1>8, <3>3
  <2>2. QED
    BY <2>1
<1>11. f \in [1 .. N -> W]
  <2>1. Nat \subseteq U
    <3> HIDE DEF U
    <3>1. QED
      BY <1>9, <1>10, NumbersByInduction
  <2>2. \A i \in 1 .. N : f[i] \in W
    BY <1>1, <2>1
  <2>3. QED
    BY <1>7, <2>2
<1>12. QED
  BY <1>2, <1>8, <1>11 DEF N, UnescapedFrom

\* The pieces of a text keep their places in it.
InPlace(seqs, F, i) ==
  /\ Len(F[i]) = Len(F[i - 1]) + Len(seqs[i])
  /\ Len(F[i]) <= Len(FlattenSeq(seqs))
  /\ \A k \in 1 .. Len(F[i]) : FlattenSeq(seqs)[k] = F[i][k]
  /\ \A j \in 1 .. Len(seqs[i]) : FlattenSeq(seqs)[Len(F[i - 1]) + j] = seqs[i][j]

LEMMA FlatPlaces ==
  ASSUME NEW V, NEW seqs \in Seq(Seq(V)), NEW F, FlatSoFar(seqs, F, V)
  PROVE  \A i \in 1 .. Len(seqs) : InPlace(seqs, F, i)
<1> DEFINE N == Len(seqs)
           W == Seq(V)
           Stays(i, m) == /\ Len(F[i]) <= Len(F[m])
                          /\ \A k \in 1 .. Len(F[i]) : F[m][k] = F[i][k]
           T == {m \in Nat : m <= N => \A i \in 1 .. m : Stays(i, m)}
           Grows(i, h) == /\ h \in 0 .. N /\ F[h] \in W /\ F[i] \in W /\ seqs[i] \in W
                          /\ Len(F[i]) = Len(F[h]) + Len(seqs[i])
                          /\ Len(F[h]) \in Nat /\ Len(seqs[i]) \in Nat
                          /\ \A k \in 1 .. Len(F[h]) : F[i][k] = F[h][k]
                          /\ \A j \in 1 .. Len(seqs[i]) : F[i][Len(F[h]) + j] = seqs[i][j]
<1>1. N \in Nat /\ \A i \in 1 .. N : seqs[i] \in W
  OBVIOUS
<1>2. /\ F \in [0 .. N -> W] /\ FlattenSeq(seqs) = F[N]
      /\ \A i \in 1 .. N : F[i] = F[i - 1] \o seqs[i]
  BY DEF FlatSoFar
<1> HIDE DEF N
<1>3. ASSUME NEW i \in 1 .. N
      PROVE  Grows(i, i - 1)
  <2>1. i - 1 \in 0 .. N /\ i \in 0 .. N
    BY <1>1
  <2>2. F[i - 1] \in W /\ F[i] \in W /\ seqs[i] \in W
    BY <1>1, <1>2, <2>1
  <2>3. Len(F[i - 1]) \in Nat /\ Len(seqs[i]) \in Nat
    BY <2>2
  <2>4. F[i] = F[i - 1] \o seqs[i]
    BY <1>2
  <2> DEFINE a == F[i - 1]
             b == seqs[i]
  <2>5. /\ Len(a \o b) = Len(a) + Len(b)
        /\ \A k \in 1 .. Len(a) + Len(b) : (a \o b)[k] = IF k <= Len(a) THEN a[k] ELSE b[k - Len(a)]
    <3> HIDE DEF a, b
    <3>1. a \in W /\ b \in W
      BY <2>2 DEF a, b
    <3>2. QED
      BY <3>1, ConcatProperties
  <2>6. /\ \A k \in 1 .. Len(a) : (a \o b)[k] = a[k]
        /\ \A j \in 1 .. Len(b) : (a \o b)[Len(a) + j] = b[j]
    <3> HIDE DEF a, b
    <3>1. Len(a) \in Nat /\ Len(b) \in Nat
      BY <2>3 DEF a, b
    <3>2. \A j \in 1 .. Len(b) : /\ Len(a) + j \in 1 .. Len(a) + Len(b)
                                 /\ ~(Len(a) + j <= Len(a)) /\ (Len(a) + j) - Len(a) = j
      BY <3>1
    <3>3. \A k \in 1 .. Len(a) : k \in 1 .. Len(a) + Len(b) /\ k <= Len(a)
      BY <3>1
    <3>4. QED
      BY <2>5, <3>2, <3>3
  <2>7. QED
    BY <2>1, <2>2, <2>3, <2>4, <2>5, <2>6
<1>4. 0 \in T
  OBVIOUS
<1>5. ASSUME NEW m \in Nat, m \in T
      PROVE  m + 1 \in T
  <2>1. SUFFICES ASSUME m + 1 <= N, NEW i \in 1 .. m + 1 PROVE Stays(i, m + 1)
    <3> HIDE DEF Stays
    <3>1. QED
      BY <1>1
  <2>2. m + 1 \in 1 .. N /\ (m + 1) - 1 = m
    BY <1>1, <2>1
  <2>3. CASE i = m + 1
    <3>1. F[m + 1] \in W
      BY <1>3, <2>2
    <3>2. QED
      BY <2>3, <3>1
  <2>4. CASE i \in 1 .. m
    <3>1. Stays(i, m)
      <4> HIDE DEF Stays
      <4>1. QED
        BY <1>1, <1>5, <2>1, <2>4
    <3>2. i \in 1 .. N
      BY <1>1, <2>1, <2>4
    <3>3. F[i] \in W
      BY <1>3, <3>2
    <3>4. /\ Len(F[m + 1]) = Len(F[m]) + Len(seqs[m + 1])
          /\ Len(F[m]) \in Nat /\ Len(seqs[m + 1]) \in Nat
          /\ \A k \in 1 .. Len(F[m]) : F[m + 1][k] = F[m][k]
      <4>1. Grows(m + 1, m)
        <5> HIDE DEF Grows
        <5>1. QED
          BY <1>3, <2>2
      <4>2. QED
        BY <4>1
    <3>5. Len(F[i]) \in Nat
      BY <3>3
    <3>6. Len(F[i]) <= Len(F[m + 1])
      <4> DEFINE a == Len(F[i])
                 b == Len(F[m])
                 c == Len(seqs[m + 1])
                 e == Len(F[m + 1])
      <4>1. a \in Nat /\ b \in Nat /\ c \in Nat /\ a <= b /\ e = b + c
        BY <3>1, <3>4, <3>5
      <4>2. a <= e
        <5> HIDE DEF a, b, c, e
        <5>1. QED
          BY <4>1
      <4>3. QED
        BY <4>2
    <3>7. ASSUME NEW k \in 1 .. Len(F[i])
          PROVE  F[m + 1][k] = F[i][k]
      <4>1. k \in 1 .. Len(F[m])
        BY <3>1, <3>4, <3>5
      <4>2. QED
        BY <3>1, <3>4, <4>1
    <3>8. QED
      BY <3>6, <3>7
  <2>5. QED
    BY <2>1, <2>3, <2>4
<1>6. ASSUME NEW i \in 1 .. N
      PROVE  Stays(i, N)
  <2>1. Nat \subseteq T
    <3> HIDE DEF T
    <3>1. QED
      BY <1>4, <1>5, NumbersByInduction
  <2> HIDE DEF Stays
  <2>2. QED
    BY <1>1, <2>1
<1>7. ASSUME NEW i \in 1 .. N, NEW j \in 1 .. Len(seqs[i])
      PROVE  F[N][Len(F[i - 1]) + j] = seqs[i][j]
  <2>1. /\ F[i][Len(F[i - 1]) + j] = seqs[i][j]
        /\ Len(F[i - 1]) + j \in 1 .. Len(F[i])
    <3>1. Grows(i, i - 1)
      BY <1>3
    <3> DEFINE a == Len(F[i - 1])
               b == Len(seqs[i])
    <3>2. a \in Nat /\ b \in Nat /\ Len(F[i]) = a + b /\ j \in 1 .. b
      BY <3>1
    <3>3. F[i][a + j] = seqs[i][j]
      BY <3>1
    <3> HIDE DEF a, b
    <3>4. a + j \in 1 .. Len(F[i])
      BY <3>2
    <3>5. QED
      BY <3>3, <3>4 DEF a
  <2>2. QED
    BY <1>6, <2>1
<1>8. ASSUME NEW i \in 1 .. N
      PROVE  InPlace(seqs, F, i)
  <2>1. Len(F[i]) = Len(F[i - 1]) + Len(seqs[i])
    BY <1>3
  <2>2. Len(F[i]) <= Len(F[N]) /\ \A k \in 1 .. Len(F[i]) : F[N][k] = F[i][k]
    BY <1>6
  <2>3. \A j \in 1 .. Len(seqs[i]) : F[N][Len(F[i - 1]) + j] = seqs[i][j]
    BY <1>7
  <2>4. QED
    BY <1>2, <2>1, <2>2, <2>3 DEF InPlace
<1>9. QED
  BY <1>8 DEF N

\* A text reads as the bytes at those of its places where reading goes on.
LEMMA ReadFromPlaces ==
  ASSUME NEW s \in Seq(Octet), NEW p \in Seq(Octet), NEW at \in [1 .. Len(p) + 1 -> Nat],
         at[1] = 1, at[Len(p) + 1] = Len(s) + 1,
         \A i \in 1 .. Len(p) :
           /\ at[i] \in 1 .. Len(s) /\ UnescapedByte(s, at[i]) = p[i]
           /\ at[i + 1] = IF s[at[i]] = Percent /\ Len(s) - at[i] >= 2
                          THEN at[i] + 3 ELSE at[i] + 1
  PROVE  Unescape(s) = p
<1> DEFINE n == Len(p)
           W == Seq(Octet)
<1>1. n \in Nat /\ Len(s) \in Nat
  OBVIOUS
<1>2. PICK f : UnescapedFrom(s, f)
  BY UnescapeUnfolds
<1>3. Unescape(s) = f[1] /\ \A i \in 1 .. Len(s) + 3 : f[i] = UnescapeBy(s, f, i)
  BY <1>2 DEF UnescapedFrom
<1> DEFINE Rest(i) == f[at[i]] = SubSeq(p, i, n)
           T == {k \in Nat : k <= n => Rest(n + 1 - k)}
<1>4. 0 \in T
  <2>1. at[n + 1] = Len(s) + 1 /\ Len(s) + 1 \in 1 .. Len(s) + 3 /\ Len(s) + 1 > Len(s)
    BY <1>1
  <2>2. f[at[n + 1]] = <<>>
    BY <1>3, <2>1, UnescapeSteps
  <2>3. SubSeq(p, n + 1, n) = <<>>
    BY <1>1, SubSeqEmpty
  <2>4. Rest(n + 1 - 0)
    <3>1. n + 1 - 0 = n + 1
      BY <1>1
    <3>2. QED
      BY <2>2, <2>3, <3>1
  <2> HIDE DEF Rest
  <2>5. QED
    BY <2>4
<1>5. ASSUME NEW k \in Nat, k \in T
      PROVE  k + 1 \in T
  <2>1. SUFFICES ASSUME k + 1 <= n PROVE Rest(n + 1 - (k + 1))
    <3> HIDE DEF Rest
    <3>1. QED
      BY <1>1
  <2> DEFINE i == n - k
  <2>2. i \in 1 .. n /\ n + 1 - k = i + 1 /\ n + 1 - (k + 1) = i /\ n \in i .. n
    BY <1>1, <2>1
  <2>3. Rest(i + 1)
    <3> HIDE DEF Rest, i
    <3>1. Rest(n + 1 - k)
      BY <1>1, <1>5, <2>1
    <3>2. QED
      BY <2>2, <3>1
  <2> HIDE DEF i
  <2>4. /\ at[i] \in 1 .. Len(s) /\ UnescapedByte(s, at[i]) = p[i]
        /\ at[i + 1] = IF s[at[i]] = Percent /\ Len(s) - at[i] >= 2
                       THEN at[i] + 3 ELSE at[i] + 1
    BY <2>2
  <2> DEFINE a == at[i]
  <2>5. a \in 1 .. Len(s) /\ a \in 1 .. Len(s) + 3 /\ a <= Len(s)
    BY <1>1, <2>4
  <2>6. UnescapeBy(s, f, a) = <<UnescapedByte(s, a)>> \o f[at[i + 1]]
    <3>1. CASE s[a] = Percent /\ Len(s) - a >= 2
      <4>1. at[i + 1] = a + 3
        BY <2>4, <3>1
      <4>2. UnescapeBy(s, f, a) = <<UnescapedByte(s, a)>> \o f[a + 3]
        <5> HIDE DEF a
        <5>1. QED
          BY <2>5, <3>1, UnescapeSteps
      <4>3. QED
        BY <4>1, <4>2
    <3>2. CASE ~(s[a] = Percent /\ Len(s) - a >= 2)
      <4>1. at[i + 1] = a + 1
        BY <2>4, <3>2
      <4>2. UnescapeBy(s, f, a) = <<UnescapedByte(s, a)>> \o f[a + 1]
        <5> HIDE DEF a
        <5>1. QED
          BY <2>5, <3>2, UnescapeSteps
      <4>3. QED
        BY <4>1, <4>2
    <3>3. QED
      BY <3>1, <3>2
  <2>7. f[a] = <<p[i]>> \o SubSeq(p, i + 1, n)
    BY <1>3, <2>3, <2>4, <2>5, <2>6
  <2>8. SubSeq(p, i, n) = <<p[i]>> \o SubSeq(p, i + 1, n)
    BY <2>2, SubSeqRecursiveFirst
  <2>9. QED
    BY <2>2, <2>7, <2>8
<1>6. Rest(1)
  <2>1. Nat \subseteq T
    <3> HIDE DEF T
    <3>1. QED
      BY <1>4, <1>5, NumbersByInduction
  <2>2. Rest(n + 1 - n)
    <3> HIDE DEF Rest
    <3>1. QED
      BY <1>1, <2>1
  <2>3. QED
    <3> HIDE DEF Rest
    <3>1. n + 1 - n = 1
      BY <1>1
    <3>2. QED
      BY <2>2, <3>1
<1>7. SubSeq(p, 1, n) = p
  BY SubSeqFull
<1>8. QED
  BY <1>3, <1>6, <1>7

\* What a server does not escape reads as it is, without "+" and "%".
LEMMA UnescapeOfPlain ==
  ASSUME NEW s \in Seq(Octet), \A b \in {Plus, Percent} : ~Contains(s, b)
  PROVE  Unescape(s) = s
<1> DEFINE at == [i \in 1 .. Len(s) + 1 |-> i]
<1>1. Len(s) \in Nat
  OBVIOUS
<1>2. \A i \in 1 .. Len(s) : s[i] # Plus /\ s[i] # Percent
  BY DEF Contains
<1>3. \A i \in 1 .. Len(s) : UnescapedByte(s, i) = s[i]
  BY <1>2 DEF UnescapedByte
<1>4. /\ at \in [1 .. Len(s) + 1 -> Nat]
      /\ \A i \in 1 .. Len(s) + 1 : at[i] = i
      /\ 1 \in 1 .. Len(s) + 1 /\ Len(s) + 1 \in 1 .. Len(s) + 1
      /\ \A i \in 1 .. Len(s) : i \in 1 .. Len(s) + 1 /\ i + 1 \in 1 .. Len(s) + 1
  BY <1>1
<1> HIDE DEF at
<1>5. at[1] = 1 /\ at[Len(s) + 1] = Len(s) + 1
  BY <1>4
<1>6. \A i \in 1 .. Len(s) :
        /\ at[i] \in 1 .. Len(s) /\ UnescapedByte(s, at[i]) = s[i]
        /\ at[i + 1] = IF s[at[i]] = Percent /\ Len(s) - at[i] >= 2
                       THEN at[i] + 3 ELSE at[i] + 1
  BY <1>2, <1>3, <1>4
<1>7. QED
  BY <1>4, <1>5, <1>6, ReadFromPlaces

\* A byte as the server sends it, with ten for the first of the letters.
EscapedByte(b, ten) ==
  IF b = Space THEN <<Plus>>
  ELSE IF b \in {Percent, Plus} \/ b < Space
       THEN <<Percent, Hex(b \div 16, ten), Hex(b % 16, ten)>>
  ELSE <<b>>

\* What a piece that stands for a byte looks like.
ReadsAs(piece, b) ==
  \/ Len(piece) = 1 /\ piece[1] = Plus /\ b = Space
  \/ /\ Len(piece) = 3 /\ piece[1] = Percent
     /\ HexDigit(piece[2]) * 16 + HexDigit(piece[3]) = b
  \/ Len(piece) = 1 /\ piece[1] = b /\ b \notin {Percent, Plus}

LEMMA DigitOfHex ==
  ASSUME NEW q \in 0 .. 15, NEW ten \in {65, 97}
  PROVE  Hex(q, ten) \in Octet /\ HexDigit(Hex(q, ten)) = q
<1>1. CASE q < 10
  <2>1. Hex(q, ten) = 48 + q
    BY <1>1 DEF Hex
  <2>2. QED
    BY <1>1, <2>1 DEF HexDigit, Octet
<1>2. CASE q >= 10
  <2>1. Hex(q, ten) = ten + q - 10
    BY <1>2 DEF Hex
  <2>2. CASE ten = 65
    BY <1>2, <2>1, <2>2 DEF HexDigit, Octet
  <2>3. CASE ten = 97
    BY <1>2, <2>1, <2>3 DEF HexDigit, Octet
  <2>4. QED
    BY <2>2, <2>3
<1>3. QED
  BY <1>1, <1>2

LEMMA EscapedReads ==
  ASSUME NEW b \in Octet, NEW ten \in {65, 97}
  PROVE  EscapedByte(b, ten) \in Seq(Octet) /\ ReadsAs(EscapedByte(b, ten), b)
<1>1. b \in 0 .. 255
  BY DEF Octet
<1>2. Plus \in Octet /\ Percent \in Octet
  BY DEF Octet, Plus, Percent
<1>3. CASE b = Space
  <2>1. EscapedByte(b, ten) = <<Plus>>
    BY <1>3 DEF EscapedByte
  <2>2. QED
    BY <1>2, <1>3, <2>1 DEF ReadsAs
<1>4. CASE b # Space /\ (b \in {Percent, Plus} \/ b < Space)
  <2> DEFINE q == b \div 16
             r == b % 16
             x == Hex(q, ten)
             y == Hex(r, ten)
  <2>1. q \in 0 .. 15 /\ r \in 0 .. 15 /\ q * 16 + r = b
    BY <1>1
  <2>2. EscapedByte(b, ten) = <<Percent, x, y>>
    BY <1>4 DEF EscapedByte
  <2> HIDE DEF q, r
  <2>3. x \in Octet /\ HexDigit(x) = q /\ y \in Octet /\ HexDigit(y) = r
    BY <2>1, DigitOfHex
  <2> HIDE DEF x, y
  <2>4. <<Percent, x, y>> \in Seq(Octet)
    BY <1>2, <2>3
  <2>5. QED
    BY <2>1, <2>2, <2>3, <2>4 DEF ReadsAs
<1>5. CASE b # Space /\ ~(b \in {Percent, Plus} \/ b < Space)
  <2>1. EscapedByte(b, ten) = <<b>>
    BY <1>5 DEF EscapedByte
  <2>2. QED
    BY <1>5, <2>1 DEF ReadsAs
<1>6. QED
  BY <1>3, <1>4, <1>5

\* What a server escapes reads as it meant it.
LEMMA UnescapeOfEscape ==
  ASSUME NEW p \in Seq(Octet), NEW ten \in {65, 97}
  PROVE  Escape(p, ten) \in Seq(Octet) /\ Unescape(Escape(p, ten)) = p
<1> DEFINE n == Len(p)
           seqs == [i \in 1 .. n |-> EscapedByte(p[i], ten)]
           s == FlattenSeq(seqs)
<1>1. n \in Nat /\ \A i \in 1 .. n : p[i] \in Octet
  OBVIOUS
<1>2. Escape(p, ten) = s
  BY DEF Escape, EscapedByte
<1>3. \A i \in 1 .. n : seqs[i] \in Seq(Octet) /\ ReadsAs(seqs[i], p[i])
  BY <1>1, EscapedReads
<1>4. seqs \in [1 .. n -> Seq(Octet)]
  <2>1. \A i \in 1 .. n : EscapedByte(p[i], ten) \in Seq(Octet)
    BY <1>1, EscapedReads
  <2>2. QED
    BY <2>1
<1> HIDE DEF seqs
<1>5. seqs \in Seq(Seq(Octet)) /\ Len(seqs) = n
  BY <1>1, <1>4, ArraysAreSequences
<1>6. PICK F : FlatSoFar(seqs, F, Octet)
  BY <1>5, FlattenUnfolds
<1>7. F \in [0 .. n -> Seq(Octet)] /\ F[0] = <<>> /\ s = F[n]
  BY <1>5, <1>6 DEF FlatSoFar
<1>8. \A i \in 1 .. n :
        /\ Len(F[i]) = Len(F[i - 1]) + Len(seqs[i])
        /\ Len(F[i]) <= Len(s)
        /\ \A j \in 1 .. Len(seqs[i]) : s[Len(F[i - 1]) + j] = seqs[i][j]
  <2>1. \A i \in 1 .. n : InPlace(seqs, F, i)
    <3> HIDE DEF s
    <3>1. QED
      BY <1>5, <1>6, FlatPlaces
  <2>2. QED
    BY <2>1 DEF InPlace
<1>9. s \in Seq(Octet)
  BY <1>1, <1>7
<1> HIDE DEF s
<1> DEFINE at == [i \in 1 .. n + 1 |-> Len(F[i - 1]) + 1]
<1>10. at \in [1 .. n + 1 -> Nat]
  <2>1. ASSUME NEW i \in 1 .. n + 1
        PROVE  Len(F[i - 1]) + 1 \in Nat
    <3>1. i - 1 \in 0 .. n
      BY <1>1
    <3>2. F[i - 1] \in Seq(Octet)
      BY <1>7, <3>1
    <3>3. QED
      BY <3>2
  <2>2. QED
    BY <2>1
<1>11. at[1] = 1 /\ at[n + 1] = Len(s) + 1
  <2>1. 1 \in 1 .. n + 1 /\ n + 1 \in 1 .. n + 1 /\ 1 - 1 = 0 /\ (n + 1) - 1 = n
    BY <1>1
  <2>2. at[1] = Len(F[0]) + 1 /\ at[n + 1] = Len(F[n]) + 1
    BY <2>1
  <2>3. Len(F[0]) = 0
    BY <1>7
  <2>4. QED
    BY <1>7, <2>2, <2>3
<1>12. ASSUME NEW i \in 1 .. n
       PROVE  /\ at[i] \in 1 .. Len(s) /\ UnescapedByte(s, at[i]) = p[i]
              /\ at[i + 1] = IF s[at[i]] = Percent /\ Len(s) - at[i] >= 2
                             THEN at[i] + 3 ELSE at[i] + 1
  <2> DEFINE a == Len(F[i - 1])
             b == Len(F[i])
             w == seqs[i]
  <2>1. i \in 1 .. n + 1 /\ i + 1 \in 1 .. n + 1 /\ (i + 1) - 1 = i /\ i - 1 \in 0 .. n
    BY <1>1
  <2>2. at[i] = a + 1 /\ at[i + 1] = b + 1
    BY <2>1
  <2>3. a \in Nat
    BY <1>7, <2>1
  <2>4. /\ b = a + Len(w) /\ b <= Len(s) /\ ReadsAs(w, p[i])
        /\ \A j \in 1 .. Len(w) : s[a + j] = w[j]
    BY <1>3, <1>8
  <2>5. Len(s) \in Nat
    BY <1>9
  <2> HIDE DEF a, b, w, at
  <2>6. CASE Len(w) = 1 /\ w[1] = Plus /\ p[i] = Space
    <3>1. s[a + 1] = Plus /\ b = a + 1 /\ a + 1 \in 1 .. Len(s)
      BY <2>3, <2>4, <2>5, <2>6
    <3>2. s[a + 1] # Percent
      BY <3>1 DEF Plus, Percent
    <3>3. UnescapedByte(s, a + 1) = p[i]
      BY <2>6, <3>1, <3>2 DEF UnescapedByte
    <3>4. QED
      BY <2>2, <3>1, <3>2, <3>3
  <2>7. CASE /\ Len(w) = 3 /\ w[1] = Percent
             /\ HexDigit(w[2]) * 16 + HexDigit(w[3]) = p[i]
    <3>1. /\ s[a + 1] = w[1] /\ s[a + 2] = w[2] /\ s[a + 3] = w[3]
          /\ b = a + 3 /\ a + 1 \in 1 .. Len(s) /\ Len(s) - (a + 1) >= 2
      BY <2>3, <2>4, <2>5, <2>7
    <3>2. (a + 1) + 1 = a + 2 /\ (a + 1) + 2 = a + 3 /\ b + 1 = (a + 1) + 3
      BY <2>3, <3>1
    <3>3. UnescapedByte(s, a + 1) = p[i]
      BY <2>7, <3>1, <3>2 DEF UnescapedByte
    <3>4. QED
      BY <2>2, <2>7, <3>1, <3>2, <3>3
  <2>8. CASE Len(w) = 1 /\ w[1] = p[i] /\ p[i] \notin {Percent, Plus}
    <3>1. s[a + 1] = p[i] /\ b = a + 1 /\ a + 1 \in 1 .. Len(s)
      BY <2>3, <2>4, <2>5, <2>8
    <3>2. UnescapedByte(s, a + 1) = p[i]
      BY <2>8, <3>1 DEF UnescapedByte
    <3>3. QED
      BY <2>2, <2>8, <3>1, <3>2
  <2>9. QED
    BY <2>4, <2>6, <2>7, <2>8 DEF ReadsAs
<1> HIDE DEF at
<1>13. Unescape(s) = p
  BY <1>9, <1>10, <1>11, <1>12, ReadFromPlaces
<1>14. QED
  BY <1>2, <1>9, <1>13

LEMMA UnescapeIsText ==
  ASSUME NEW s \in Seq(Octet)
  PROVE  Unescape(s) \in Seq(Octet)
<1>1. PICK f : UnescapedFrom(s, f)
  BY UnescapeUnfolds
<1>2. 1 \in 1 .. Len(s) + 3
  OBVIOUS
<1>3. QED
  BY <1>1, <1>2 DEF UnescapedFrom

\* Every text has an end for a char pointer.
LEMMA CStringEnds ==
  ASSUME NEW s \in Seq(Octet)
  PROVE  \E n \in 0 .. Len(s) :
           /\ CString(s) = SubSeq(s, 1, n)
           /\ \A k \in 1 .. n : s[k] # 0
           /\ n < Len(s) => s[n + 1] = 0
<1> DEFINE T == {k \in Nat : k = Len(s) \/ (k < Len(s) /\ s[k + 1] = 0)}
           Ends(n) == (\A k \in 1 .. n : s[k] # 0) /\ (n < Len(s) => s[n + 1] = 0)
<1>1. Len(s) \in Nat /\ Len(s) \in T
  OBVIOUS
<1>2. PICK m \in T : \A k \in T : m <= k
  BY <1>1, SmallestOf
<1>3. m \in 0 .. Len(s) /\ (m < Len(s) => s[m + 1] = 0)
  BY <1>1, <1>2
<1>4. ASSUME NEW k \in 1 .. m
      PROVE  s[k] # 0
  <2>1. k - 1 \in Nat /\ k - 1 < m /\ k - 1 < Len(s) /\ (k - 1) + 1 = k
    BY <1>1, <1>3
  <2>2. k - 1 \notin T
    BY <1>2, <2>1
  <2>3. QED
    BY <2>1, <2>2
<1>5. \E n \in 0 .. Len(s) : Ends(n)
  BY <1>3, <1>4
<1> DEFINE e == CHOOSE n \in 0 .. Len(s) : Ends(n)
<1>6. e \in 0 .. Len(s) /\ Ends(e)
  <2> HIDE DEF Ends
  <2>1. QED
    BY <1>5
<1>7. CString(s) = SubSeq(s, 1, e)
  BY DEF CString
<1> HIDE DEF e
<1>8. QED
  BY <1>6, <1>7

\* What a char pointer says of a text is a text without zero bytes, which a
\* char pointer keeps.
LEMMA CStringIsText ==
  ASSUME NEW s \in Seq(Octet)
  PROVE  /\ CString(s) \in Seq(Octet)
         /\ \A k \in 1 .. Len(CString(s)) : k \in 1 .. Len(s) /\ CString(s)[k] = s[k]
         /\ CString(CString(s)) = CString(s)
<1> DEFINE t == CString(s)
<1>1. PICK n \in 0 .. Len(s) : t = SubSeq(s, 1, n) /\ \A k \in 1 .. n : s[k] # 0
  BY CStringEnds
<1> HIDE DEF t
<1>2. t \in Seq(Octet) /\ Len(t) = n /\ \A k \in 1 .. n : t[k] = s[k]
  <2>1. n \in Int /\ 1 \in Int /\ Len(s) \in Nat /\ \A k \in 1 .. n : s[k] \in Octet
    OBVIOUS
  <2>2. /\ t \in Seq(Octet)
        /\ Len(t) = IF 1 <= n THEN n - 1 + 1 ELSE 0
        /\ \A k \in 1 .. n - 1 + 1 : t[k] = s[1 + k - 1]
    BY <1>1, <2>1, SubSeqProperties
  <2>3. QED
    BY <2>1, <2>2
<1>3. PICK m \in 0 .. Len(t) : /\ CString(t) = SubSeq(t, 1, m)
                               /\ m < Len(t) => t[m + 1] = 0
  BY <1>2, CStringEnds
<1>4. m = Len(t)
  BY <1>1, <1>2, <1>3
<1>5. CString(t) = t
  BY <1>2, <1>3, <1>4, SubSeqFull
<1>6. QED
  BY <1>1, <1>2, <1>5 DEF t

-----------------------------------------------------------------------------
(* Status lines *)

Sent == [tag : Tag, args : Seq(Octet), raw : BOOLEAN]

\* What the transaction keeps of a line is what the server meant by it, up to
\* the first zero byte.
ReadRight(line, kept) ==
  /\ kept.tag = line.tag
  /\ \/ kept.args = CString(line.args)
     \/ line.raw /\ \E b \in {Plus, Percent} : Contains(line.args, b)

StatusInv ==
  /\ AssuanTypeOK
  /\ lines \in Seq(Sent)
  /\ class = "default" =>
       /\ Len(mStatus) = Len(lines)
       /\ \A i \in 1 .. Len(lines) : ReadRight(lines[i], mStatus[i])

LEMMA StartsTyped == AssuanInit => AssuanTypeOK
<1>1. DOMAIN ScdItems = 1 .. 7 /\ DOMAIN AgentItems = 1 .. 5
  BY DEF ScdItems, AgentItems
<1> SUFFICES ASSUME AssuanInit PROVE AssuanTypeOK
  OBVIOUS
<1>2. class \in {"default", "scd", "agent"} /\ item \in Nat
  <2>1. CASE class = "default" /\ item = 0
    BY <2>1
  <2>2. CASE class = "scd" /\ item \in DOMAIN ScdItems
    BY <1>1, <2>2
  <2>3. CASE class = "agent" /\ item \in DOMAIN AgentItems
    BY <1>1, <2>3
  <2>4. QED
    BY <2>1, <2>2, <2>3 DEF AssuanInit
<1>3. /\ mData \in Seq(Octet) /\ todo \in Seq(Octet) /\ answers \in Seq(Octet)
      /\ mStatus \in Seq([tag : Tag, args : Seq(Octet)])
      /\ running \in BOOLEAN /\ broken \in BOOLEAN /\ uses = 0
  <2> DEFINE nil == <<>>
  <2>1. nil \in Seq(Octet) /\ nil \in Seq([tag : Tag, args : Seq(Octet)])
    OBVIOUS
  <2>2. mData = nil /\ todo = nil /\ answers = nil /\ mStatus = nil
    BY DEF AssuanInit
  <2>3. running = FALSE /\ broken = FALSE /\ uses = 0
    BY DEF AssuanInit
  <2> HIDE DEF nil
  <2>4. QED
    BY <2>1, <2>2, <2>3
<1>4. QED
  BY <1>2, <1>3, AssuanAssumption DEF AssuanTypeOK

LEMMA RepliesAreTexts ==
  ASSUME NEW token
  PROVE  Replies(token) \subseteq Seq(Octet)
<1>1. Version \in Seq(Octet) /\ <<>> \in Seq(Octet)
  BY AssuanAssumption
<1>2. ASSUME NEW r \in Reader, NEW s \in Reader
      PROVE  r \o <<Newline>> \o s \o <<Newline>> \in Seq(Octet)
  <2>1. \A w \in Reader : w \in Seq(Octet)
    <3>1. \A w \in Reader : w \in Seq(Octet \ {Newline})
      BY AssuanAssumption
    <3>2. \A w \in Seq(Octet \ {Newline}) : w \in Seq(Octet)
      OBVIOUS
    <3>3. QED
      BY <3>1, <3>2
  <2> DEFINE end == <<Newline>>
  <2>2. end \in Seq(Octet)
    BY DEF Octet, Newline
  <2>3. r \in Seq(Octet) /\ s \in Seq(Octet)
    BY <2>1
  <2> HIDE DEF end
  <2>4. r \o end \o s \o end \in Seq(Octet)
    BY <2>2, <2>3, ConcatProperties
  <2>5. QED
    BY <2>4 DEF end
<1>3. CASE token = "version"
  BY <1>1, <1>3 DEF Replies
<1>4. CASE token = "reader_list"
  <2> DEFINE nil == <<>>
             Two(r, s) == r \o <<Newline>> \o s \o <<Newline>>
  <2>1. Replies(token) = {Two(r, s) : r, s \in Reader} \cup {nil}
    BY <1>4 DEF Replies
  <2>2. nil \in Seq(Octet) /\ \A r, s \in Reader : Two(r, s) \in Seq(Octet)
    BY <1>1, <1>2
  <2> HIDE DEF nil, Two
  <2>3. QED
    BY <2>1, <2>2
<1>5. CASE token \notin {"version", "reader_list"}
  <2>1. Replies(token) = {<<>>}
    BY <1>5 DEF Replies
  <2>2. QED
    BY <1>1, <2>1
<1>6. QED
  BY <1>3, <1>4, <1>5

LEMMA PieceIsText ==
  ASSUME NEW V, NEW t \in Seq(V), NEW n \in 1 .. Len(t)
  PROVE  /\ SubSeq(t, 1, n) \in Seq(V) /\ SubSeq(t, n + 1, Len(t)) \in Seq(V)
         /\ SubSeq(t, 1, n) \o SubSeq(t, n + 1, Len(t)) = t
<1>1. Len(t) \in Nat /\ n \in Int /\ 1 \in 1 .. Len(t) + 1 /\ n \in 1 - 1 .. Len(t)
      /\ Len(t) \in n .. Len(t)
  OBVIOUS
<1>2. SubSeq(t, 1, n) \o SubSeq(t, n + 1, Len(t)) = SubSeq(t, 1, Len(t))
  BY <1>1, ConcatAdjacentSubSeq
<1>3. QED
  BY <1>2, SubSeqFull

\* What the server puts on the line.
OnTheLine(s, how) ==
  CASE how = "small" -> Escape(s, 97) [] how = "capital" -> Escape(s, 65)
    [] how = "raw" -> CString(s)

\* A line that is sent and what is kept of it.
LEMMA StatusReadRight ==
  ASSUME NEW tag \in Tag, NEW s \in Plain, NEW how \in {"small", "capital", "raw"}
  PROVE  /\ [tag |-> tag, args |-> s, raw |-> how = "raw"] \in Sent
         /\ [tag |-> tag, args |-> Args(OnTheLine(s, how))] \in [tag : Tag, args : Seq(Octet)]
         /\ ReadRight([tag |-> tag, args |-> s, raw |-> how = "raw"],
                      [tag |-> tag, args |-> Args(OnTheLine(s, how))])
<1>1. s \in Seq(Octet)
  BY AssuanAssumption
<1>2. CASE how = "small"
  <2>1. OnTheLine(s, how) = Escape(s, 97)
    BY <1>2 DEF OnTheLine
  <2>2. Args(OnTheLine(s, how)) = CString(s) /\ CString(s) \in Seq(Octet)
    BY <1>1, <2>1, UnescapeOfEscape, CStringIsText DEF Args
  <2>3. QED
    BY <1>1, <2>2 DEF Sent, ReadRight
<1>3. CASE how = "capital"
  <2>1. OnTheLine(s, how) = Escape(s, 65)
    BY <1>3 DEF OnTheLine
  <2>2. Args(OnTheLine(s, how)) = CString(s) /\ CString(s) \in Seq(Octet)
    BY <1>1, <2>1, UnescapeOfEscape, CStringIsText DEF Args
  <2>3. QED
    BY <1>1, <2>2 DEF Sent, ReadRight
<1>4. CASE how = "raw"
  <2>1. OnTheLine(s, how) = CString(s)
    BY <1>4 DEF OnTheLine
  <2>2. CString(s) \in Seq(Octet) /\ Args(CString(s)) \in Seq(Octet)
    BY <1>1, UnescapeIsText, CStringIsText DEF Args
  <2>3. CASE \E b \in {Plus, Percent} : Contains(s, b)
    BY <1>1, <1>4, <2>1, <2>2, <2>3 DEF Sent, ReadRight
  <2>4. CASE \A b \in {Plus, Percent} : ~Contains(s, b)
    <3>1. \A b \in {Plus, Percent} : ~Contains(CString(s), b)
      BY <1>1, <2>4, CStringIsText DEF Contains
    <3>2. Args(CString(s)) = CString(s)
      BY <1>1, <2>2, <3>1, UnescapeOfPlain, CStringIsText DEF Args
    <3>3. QED
      BY <1>1, <2>1, <2>2, <3>2 DEF Sent, ReadRight
  <2>5. QED
    BY <2>3, <2>4
<1>5. QED
  BY <1>2, <1>3, <1>4

\* What each operation leaves of the types.
LEMMA TransactTyped ==
  ASSUME AssuanTypeOK, Transact
  PROVE  AssuanTypeOK' /\ UNCHANGED <<class, lines, mStatus>>
<1>1. todo' \in Seq(Octet)
  BY RepliesAreTexts DEF Transact
<1>2. uses' \in 0 .. MaxUses
  BY AssuanAssumption DEF Transact, AssuanTypeOK
<1>3. QED
  BY <1>1, <1>2 DEF Transact, AssuanTypeOK, given

LEMMA SendDataTyped ==
  ASSUME AssuanTypeOK, SendData
  PROVE  AssuanTypeOK' /\ UNCHANGED <<class, lines, mStatus>>
<1>1. PICK n \in 1 .. Len(todo) :
        /\ mData' = mData \o SubSeq(todo, 1, n)
        /\ answers' = answers \o SubSeq(todo, 1, n)
        /\ todo' = SubSeq(todo, n + 1, Len(todo))
  BY DEF SendData, Received
<1> DEFINE W == Seq(Octet)
           a == SubSeq(todo, 1, n)
           b == SubSeq(todo, n + 1, Len(todo))
<1>2. a \in W /\ b \in W /\ mData \in W /\ answers \in W
  BY PieceIsText DEF AssuanTypeOK
<1>3. mData' = mData \o a /\ answers' = answers \o a /\ todo' = b
  BY <1>1
<1> HIDE DEF a, b
<1>4. mData \o a \in W /\ answers \o a \in W
  BY <1>2, ConcatProperties
<1>5. mData' \in W /\ answers' \in W /\ todo' \in W
  BY <1>2, <1>3, <1>4
<1>6. QED
  BY <1>5 DEF SendData, AssuanTypeOK, given

LEMMA StatusInvStarts == AssuanInit => StatusInv
<1> SUFFICES ASSUME AssuanInit PROVE StatusInv
  OBVIOUS
<1>1. AssuanTypeOK
  BY StartsTyped
<1>2. lines \in Seq(Sent) /\ Len(mStatus) = 0 /\ Len(lines) = 0
  BY DEF AssuanInit
<1>3. QED
  BY <1>1, <1>2 DEF StatusInv

LEMMA SendStatusKeeps ==
  ASSUME StatusInv, SendStatus
  PROVE  StatusInv'
<1>1. PICK tag \in Tag, s \in Plain, how \in {"small", "capital", "raw"} :
        /\ lines' = Append(lines, [tag |-> tag, args |-> s, raw |-> how = "raw"])
        /\ mStatus' = IF class = "default"
                      THEN Append(mStatus, [tag |-> tag, args |-> Args(OnTheLine(s, how))])
                      ELSE mStatus
  BY DEF SendStatus, OnTheLine
<1> DEFINE sent == OnTheLine(s, how)
           line == [tag |-> tag, args |-> s, raw |-> how = "raw"]
           kept == [tag |-> tag, args |-> Args(sent)]
           K == [tag : Tag, args : Seq(Octet)]
           M == Seq(Sent)
           Q == Seq(K)
<1>2. /\ lines' = Append(lines, line)
      /\ mStatus' = IF class = "default" THEN Append(mStatus, kept) ELSE mStatus
  BY <1>1
<1>3. line \in Sent /\ kept \in K /\ ReadRight(line, kept)
  BY StatusReadRight
<1>4. lines \in M /\ mStatus \in Q
  BY DEF StatusInv, AssuanTypeOK
<1>5. class' = class
  BY DEF SendStatus, given
<1> HIDE DEF line, kept, K, M, Q
<1>6. /\ Append(lines, line) \in M
      /\ Len(Append(lines, line)) = Len(lines) + 1
      /\ \A i \in 1 .. Len(lines) : Append(lines, line)[i] = lines[i]
      /\ Append(lines, line)[Len(lines) + 1] = line
  BY <1>3, <1>4, AppendProperties DEF M
<1>7. /\ Append(mStatus, kept) \in Q
      /\ Len(Append(mStatus, kept)) = Len(mStatus) + 1
      /\ \A i \in 1 .. Len(mStatus) : Append(mStatus, kept)[i] = mStatus[i]
      /\ Append(mStatus, kept)[Len(mStatus) + 1] = kept
  BY <1>3, <1>4, AppendProperties DEF Q
<1>8. lines' \in Seq(Sent) /\ mStatus' \in Seq([tag : Tag, args : Seq(Octet)])
  BY <1>2, <1>4, <1>6, <1>7 DEF M, Q, K
<1>9. AssuanTypeOK'
  BY <1>8 DEF SendStatus, StatusInv, AssuanTypeOK, given
<1>10. ASSUME class' = "default"
       PROVE  /\ Len(mStatus') = Len(lines')
              /\ \A i \in 1 .. Len(lines') : ReadRight(lines'[i], mStatus'[i])
  <2>1. /\ Len(mStatus) = Len(lines)
        /\ \A i \in 1 .. Len(lines) : ReadRight(lines[i], mStatus[i])
    BY <1>5, <1>10 DEF StatusInv
  <2>2. lines' = Append(lines, line) /\ mStatus' = Append(mStatus, kept)
    BY <1>2, <1>5, <1>10
  <2>3. Len(lines) \in Nat
    BY <1>4 DEF M
  <2>4. Len(lines') = Len(lines) + 1 /\ Len(mStatus') = Len(lines) + 1
    BY <1>6, <1>7, <2>1, <2>2
  <2>5. ASSUME NEW i \in 1 .. Len(lines')
        PROVE  ReadRight(lines'[i], mStatus'[i])
    <3>1. CASE i \in 1 .. Len(lines)
      <4>1. lines'[i] = lines[i] /\ mStatus'[i] = mStatus[i]
        BY <1>6, <1>7, <2>1, <2>2, <3>1
      <4>2. QED
        BY <2>1, <3>1, <4>1
    <3>2. CASE i = Len(lines) + 1
      <4>1. lines'[i] = line /\ mStatus'[i] = kept
        BY <1>6, <1>7, <2>1, <2>2, <3>2
      <4>2. QED
        BY <1>3, <4>1
    <3>3. QED
      BY <2>3, <2>4, <3>1, <3>2
  <2>6. QED
    BY <2>4, <2>5
<1>11. QED
  BY <1>8, <1>9, <1>10 DEF StatusInv

LEMMA StatusInvKeeps ==
  ASSUME StatusInv, [AssuanNext]_assuanVars
  PROVE  StatusInv'
<1>1. AssuanTypeOK
  BY DEF StatusInv
<1>2. ASSUME AssuanTypeOK', UNCHANGED <<class, lines, mStatus>>
      PROVE  StatusInv'
  BY <1>2 DEF StatusInv
<1>3. CASE Transact
  BY <1>1, <1>2, <1>3, TransactTyped
<1>4. CASE SendData
  BY <1>1, <1>2, <1>4, SendDataTyped
<1>5. CASE SendStatus
  BY <1>5, SendStatusKeeps
<1>6. CASE Inquire \/ UNCHANGED assuanVars
  BY <1>1, <1>2, <1>6 DEF Inquire, assuanVars, given, AssuanTypeOK
<1>7. CASE Finish
  <2>1. todo' \in Seq(Octet)
    <3>1. todo' = <<>>
      BY <1>7 DEF Finish
    <3>2. QED
      BY <3>1
  <2>2. running' \in BOOLEAN /\ broken' \in BOOLEAN
    BY <1>7 DEF Finish
  <2>3. AssuanTypeOK'
    BY <1>1, <1>7, <2>1, <2>2 DEF Finish, AssuanTypeOK, given
  <2>4. QED
    BY <1>2, <1>7, <2>3 DEF Finish, given
<1>8. QED
  BY <1>3, <1>4, <1>5, <1>6, <1>7 DEF AssuanNext

LEMMA StatusInvSays == StatusInv => StatusAsMeant
<1> SUFFICES ASSUME StatusInv PROVE StatusAsMeant
  OBVIOUS
<1>1. SUFFICES ASSUME class = "default", NEW tag \in Tag
      PROVE  LET sent == Tagged(lines, tag)
                 got  == StatusLine(tag)
             IN /\ Len(got) = Len(sent)
                /\ \A k \in DOMAIN sent :
                     \/ got[k] = CString(sent[k].args)
                     \/ sent[k].raw /\ \E b \in {Plus, Percent} : Contains(sent[k].args, b)
  BY DEF StatusAsMeant, StatusInv
<1> DEFINE K == [tag : Tag, args : Seq(Octet)]
           sent == Tagged(lines, tag)
           hits == Tagged(mStatus, tag)
           got == StatusLine(tag)
<1>2. /\ lines \in Seq(Sent) /\ mStatus \in Seq(K) /\ Len(mStatus) = Len(lines)
      /\ \A i \in 1 .. Len(lines) : ReadRight(lines[i], mStatus[i])
  BY <1>1 DEF StatusInv, AssuanTypeOK
<1>3. \A i \in 1 .. Len(lines) : mStatus[i].tag = lines[i].tag
  BY <1>2 DEF ReadRight
<1>4. /\ sent \in Seq(Sent) /\ hits \in Seq(K) /\ Len(hits) = Len(sent)
      /\ \A k \in 1 .. Len(sent) : \E i \in 1 .. Len(lines) :
           sent[k] = lines[i] /\ hits[k] = mStatus[i]
  <2> HIDE DEF K
  <2>1. QED
    BY <1>2, <1>3, TaggedAlike
<1>5. got = [k \in DOMAIN hits |-> hits[k].args]
  BY DEF StatusLine
<1> HIDE DEF sent, hits, got
<1>6. DOMAIN hits = 1 .. Len(hits) /\ Len(hits) \in Nat /\ DOMAIN sent = 1 .. Len(sent)
  BY <1>4
<1>7. Len(got) = Len(hits)
  <2>1. \A k \in 1 .. Len(hits) : hits[k].args \in Seq(Octet)
    <3>1. \A k \in 1 .. Len(hits) : hits[k] \in K
      <4> HIDE DEF K
      <4>1. QED
        BY <1>4
    <3>2. QED
      BY <3>1
  <2>2. got \in [1 .. Len(hits) -> Seq(Octet)]
    BY <1>5, <1>6, <2>1
  <2>3. QED
    BY <1>6, <2>2, ArraysAreSequences
<1>8. ASSUME NEW k \in DOMAIN sent
      PROVE  \/ got[k] = CString(sent[k].args)
             \/ sent[k].raw /\ \E b \in {Plus, Percent} : Contains(sent[k].args, b)
  <2>1. k \in 1 .. Len(sent) /\ k \in DOMAIN hits
    BY <1>4, <1>6
  <2>2. PICK i \in 1 .. Len(lines) : sent[k] = lines[i] /\ hits[k] = mStatus[i]
    BY <1>4, <2>1
  <2>3. got[k] = hits[k].args
    BY <1>5, <2>1
  <2>4. ReadRight(sent[k], hits[k])
    BY <1>2, <2>2
  <2>5. QED
    BY <2>3, <2>4 DEF ReadRight
<1>9. QED
  BY <1>4, <1>7, <1>8 DEF sent, got

\* What an application reads of a tag is what the server sent under it, in
\* order and as the server meant it up to the first zero byte, for any tags and
\* texts.
THEOREM StatusReadAsSent == AssuanSpec => []StatusAsMeant
<1>1. StatusInv /\ [AssuanNext]_assuanVars => StatusInv'
  BY StatusInvKeeps
<1>2. QED
  BY StatusInvStarts, <1>1, StatusInvSays, PTL DEF AssuanSpec

-----------------------------------------------------------------------------
(* Reader lists *)

\* The front of a list gives the front of the text.
IsFront(front, seqs, m) == Len(front) = m /\ \A i \in 1 .. m : front[i] = seqs[i]

LEMMA FlatFront ==
  ASSUME NEW V, NEW seqs \in Seq(Seq(V)), NEW F, FlatSoFar(seqs, F, V),
         NEW m \in 0 .. Len(seqs), NEW front \in Seq(Seq(V)), IsFront(front, seqs, m)
  PROVE  FlattenSeq(front) = F[m]
<1> DEFINE N == Len(seqs)
<1>1. /\ N \in Nat /\ m \in Nat /\ m <= N
      /\ Len(front) = m /\ \A i \in 1 .. m : front[i] = seqs[i]
  BY DEF IsFront
<1>2. PICK G : FlatSoFar(front, G, V)
  BY FlattenUnfolds
<1>3. G[0] = <<>> /\ FlattenSeq(front) = G[m] /\ \A i \in 1 .. m : G[i] = G[i - 1] \o front[i]
  BY <1>1, <1>2 DEF FlatSoFar
<1>4. F[0] = <<>> /\ \A i \in 1 .. N : F[i] = F[i - 1] \o seqs[i]
  BY DEF FlatSoFar
<1> DEFINE U == {k \in Nat : k <= m => G[k] = F[k]}
<1>5. 0 \in U
  BY <1>3, <1>4
<1>6. ASSUME NEW k \in Nat, k \in U
      PROVE  k + 1 \in U
  <2>1. SUFFICES ASSUME k + 1 <= m PROVE G[k + 1] = F[k + 1]
    BY <1>1
  <2>2. k + 1 \in 1 .. m /\ k + 1 \in 1 .. N /\ (k + 1) - 1 = k /\ k <= m
    BY <1>1, <2>1
  <2>3. G[k + 1] = G[k] \o front[k + 1] /\ F[k + 1] = F[k] \o seqs[k + 1]
    BY <1>3, <1>4, <2>2
  <2>4. G[k] = F[k] /\ front[k + 1] = seqs[k + 1]
    BY <1>1, <1>6, <2>2
  <2>5. QED
    BY <2>3, <2>4
<1>7. Nat \subseteq U
  <2> HIDE DEF U
  <2>1. QED
    BY <1>5, <1>6, NumbersByInduction
<1>8. G[m] = F[m]
  BY <1>1, <1>7
<1>9. QED
  BY <1>3, <1>8

\* f collects what Split() does, from the front of the text.
SplitBy(s, f, n) ==
  IF n = 0 THEN << <<>> >>
  ELSE IF s[n] # Newline THEN Append(Front(f[n - 1]), Append(Last(f[n - 1]), s[n]))
  ELSE IF n > 1 /\ s[n - 1] = Newline THEN f[n - 1]
  ELSE Append(f[n - 1], <<>>)

Texts == Seq(Seq(Octet)) \ {<<>>}

SplitSoFar(s, f) ==
  /\ f \in [0 .. Len(s) -> Texts]
  /\ \A n \in 0 .. Len(s) : f[n] = SplitBy(s, f, n)
  /\ Split(s) = f[Len(s)]

LEMMA AppendToLast ==
  ASSUME NEW V, NEW t \in Seq(V), t # <<>>
  PROVE  /\ Front(t) \in Seq(V) /\ Last(t) \in V
         /\ t = Append(Front(t), Last(t))
<1>1. PICK h \in Seq(V), e \in V : t = Append(h, e)
  BY SequenceEmptyOrAppend
<1>2. Len(t) = Len(h) + 1 /\ t[Len(h) + 1] = e /\ Len(h) \in Nat
  BY <1>1, AppendProperties
<1>3. Last(t) = e
  BY <1>2 DEF Last
<1>4. Front(t) = SubSeq(t, 1, Len(h))
  <2>1. Len(t) - 1 = Len(h)
    BY <1>2
  <2>2. QED
    BY <2>1 DEF Front
<1>5. SubSeq(t, 1, Len(h)) = h
  <2>1. t = h \o <<e>>
    BY <1>1, AppendIsConcat
  <2>2. CASE h = <<>>
    <3>1. Len(h) = 0
      BY <2>2
    <3>2. SubSeq(t, 1, 0) = <<>>
      BY SubSeqEmpty
    <3>3. QED
      BY <2>2, <3>1, <3>2
  <2>3. CASE h # <<>>
    <3>1. 1 \in 1 .. Len(h) /\ Len(h) \in 1 .. Len(h)
      BY <2>3, EmptySeq
    <3>2. <<e>> \in Seq(V)
      OBVIOUS
    <3>3. SubSeq(h \o <<e>>, 1, Len(h)) = SubSeq(h, 1, Len(h))
      BY <3>1, <3>2, SubSeqOfConcat1
    <3>4. QED
      BY <2>1, <3>3, SubSeqFull
  <2>4. QED
    BY <2>2, <2>3
<1>6. QED
  BY <1>1, <1>3, <1>4, <1>5

LEMMA LastOfAppend ==
  ASSUME NEW V, NEW t \in Seq(V), NEW e \in V
  PROVE  Front(Append(t, e)) = t /\ Last(Append(t, e)) = e
<1>1. Append(t, e) \in Seq(V) /\ Append(t, e) # <<>>
  BY AppendProperties
<1> DEFINE w == Append(t, e)
<1> HIDE DEF w
<1>2. w = Append(Front(w), Last(w)) /\ Front(w) \in Seq(V) /\ Last(w) \in V
  BY <1>1, AppendToLast DEF w
<1>3. Front(w) = t /\ Last(w) = e
  BY <1>2, AppendInjective DEF w
<1>4. QED
  BY <1>3 DEF w

LEMMA SplitUnfolds ==
  ASSUME NEW s \in Seq(Octet)
  PROVE  \E f : SplitSoFar(s, f)
<1> DEFINE N == Len(s)
           W == Texts
           first == << <<>> >>
           Grown(i, t) == IF s[i] # Newline THEN Append(Front(t), Append(Last(t), s[i]))
                          ELSE IF i > 1 /\ s[i - 1] = Newline THEN t
                          ELSE Append(t, <<>>)
           g == [i \in 1 .. N |-> [t \in W |-> Grown(i, t)]]
           Meets(f) == f = [n \in 0 .. N |-> SplitBy(s, f, n)]
           f == CHOOSE h : Meets(h)
           T == {k \in Nat : k <= N => f[k] \in W}
<1>1. N \in Nat /\ \A i \in 1 .. N : s[i] \in Octet
  OBVIOUS
<1>2. first \in W
  <2>1. first \in Seq(Seq(Octet)) /\ Len(first) = 1
    OBVIOUS
  <2>2. QED
    BY <2>1 DEF Texts
<1>3. ASSUME NEW i \in 1 .. N, NEW t \in W
      PROVE  Grown(i, t) \in W
  <2> DEFINE Q == Seq(Octet)
  <2>1. t \in Seq(Q) /\ t # <<>> /\ s[i] \in Octet /\ <<>> \in Q
    BY <1>1 DEF Texts
  <2>2. Front(t) \in Seq(Q) /\ Last(t) \in Q
    <3> HIDE DEF Q
    <3>1. QED
      BY <2>1, AppendToLast
  <2>3. Append(Last(t), s[i]) \in Q
    BY <2>1, <2>2, AppendProperties
  <2> DEFINE a == Append(Last(t), s[i])
             b == Front(t)
  <2>4. Append(b, a) \in Seq(Q) /\ Append(b, a) # <<>>
    <3> HIDE DEF a, b, Q
    <3>1. a \in Q /\ b \in Seq(Q)
      BY <2>2, <2>3 DEF a, b
    <3>2. QED
      BY <3>1, AppendProperties
  <2>5. Append(t, <<>>) \in Seq(Q) /\ Append(t, <<>>) # <<>>
    <3> HIDE DEF Q
    <3>1. QED
      BY <2>1, AppendProperties
  <2>6. QED
    BY <2>1, <2>4, <2>5 DEF Texts
<1>4. Split(s) = f[N]
  BY DEF Split, SplitBy
<1>5. /\ \A h : SplitBy(s, h, 0) = first
      /\ \A h : \A i \in 1 .. N : SplitBy(s, h, i) = Grown(i, h[i - 1])
  BY <1>1 DEF SplitBy
<1> HIDE DEF N, W, first, Grown
<1>6. /\ g \in [1 .. N -> [W -> W]]
      /\ \A i \in 1 .. N, t \in W : g[i][t] = Grown(i, t)
  BY <1>3
<1> HIDE DEF g
<1>7. PICK e : StepsBy(e, N, W, first, g)
  <2> HIDE DEF Meets, f
  <2>1. N \in Nat /\ first \in W /\ g \in [1 .. N -> [W -> W]]
    BY <1>1, <1>2, <1>6
  <2>2. QED
    BY <2>1, StepwiseFunction
<1>8. e \in [0 .. N -> W] /\ e[0] = first /\ \A i \in 1 .. N : e[i] = g[i][e[i - 1]]
  BY <1>7 DEF StepsBy
<1>9. ASSUME NEW i \in 0 .. N
      PROVE  e[i] = SplitBy(s, e, i)
  <2>1. CASE i = 0
    BY <1>5, <1>8, <2>1
  <2>2. CASE i \in 1 .. N
    <3>1. i - 1 \in 0 .. N
      BY <1>1, <2>2
    <3>2. e[i - 1] \in W
      BY <1>8, <3>1
    <3>3. e[i] = Grown(i, e[i - 1])
      BY <1>6, <1>8, <2>2, <3>2
    <3>4. QED
      BY <1>5, <2>2, <3>3
  <2>3. QED
    BY <1>1, <2>1, <2>2
<1>10. Meets(e)
  <2>1. e = [n \in 0 .. N |-> e[n]]
    BY <1>8
  <2>2. QED
    BY <1>9, <2>1
<1>11. Meets(f)
  <2> HIDE DEF Meets
  <2>1. QED
    BY <1>10
<1> HIDE DEF f
<1>12. \A n \in 0 .. N : f[n] = SplitBy(s, f, n)
  BY <1>11
<1>13. 0 \in T
  BY <1>1, <1>2, <1>5, <1>12
<1>14. ASSUME NEW k \in Nat, k \in T
       PROVE  k + 1 \in T
  <2>1. SUFFICES ASSUME k + 1 <= N PROVE f[k + 1] \in W
    BY <1>1
  <2>2. f[k] \in W /\ k + 1 \in 1 .. N /\ k + 1 \in 0 .. N /\ (k + 1) - 1 = k
    BY <1>1, <1>14, <2>1
  <2>3. f[k + 1] = Grown(k + 1, f[k])
    BY <1>5, <1>12, <2>2
  <2>4. QED
    BY <1>3, <2>2, <2>3
<1>15. Nat \subseteq T
  <2> HIDE DEF T
  <2>1. QED
    BY <1>13, <1>14, NumbersByInduction
<1>16. f \in [0 .. N -> W]
  <2>1. \A k \in 0 .. N : f[k] \in W
    BY <1>1, <1>15
  <2>2. QED
    BY <1>11, <2>1
<1>17. QED
  BY <1>4, <1>12, <1>16 DEF N, W, SplitSoFar

Name == Seq(Octet \ {Newline}) \ {<<>>}

LEMMA NameIsText ==
  ASSUME NEW w \in Name
  PROVE  /\ w \in Seq(Octet) /\ Len(w) \in Nat /\ Len(w) >= 1
         /\ \A j \in 1 .. Len(w) : w[j] \in Octet /\ w[j] # Newline
<1>1. w \in Seq(Octet \ {Newline}) /\ w # <<>>
  BY DEF Name
<1>2. Len(w) \in Nat /\ \A j \in 1 .. Len(w) : w[j] \in Octet \ {Newline}
  BY <1>1
<1>3. Len(w) # 0
  BY <1>1, EmptySeq
<1>4. w \in [1 .. Len(w) -> Octet]
  BY <1>1, <1>2
<1>5. w \in Seq(Octet)
  BY <1>2, <1>4, ArraysAreSequences
<1>6. QED
  BY <1>2, <1>3, <1>5

\* A name and the newline after it make one more token, and begin another.
NameAt(s, a, w) ==
  /\ a + Len(w) + 1 <= Len(s)
  /\ \A j \in 1 .. Len(w) : s[a + j] = w[j]
  /\ s[a + Len(w) + 1] = Newline

LEMMA SplitName ==
  ASSUME NEW s \in Seq(Octet), NEW f, SplitSoFar(s, f), NEW a \in Nat, NEW w \in Name,
         NEW P \in Seq(Seq(Octet)), NameAt(s, a, w), f[a] = Append(P, <<>>)
  PROVE  f[a + Len(w) + 1] = Append(Append(P, w), <<>>)
<1> DEFINE c == Len(w)
           W == Seq(Octet)
           In(j) == f[a + j] = Append(P, SubSeq(w, 1, j))
           T == {j \in Nat : j <= c => In(j)}
<1>1. /\ w \in W /\ c \in Nat /\ c >= 1 /\ Len(s) \in Nat
      /\ \A j \in 1 .. c : w[j] \in Octet /\ w[j] # Newline
      /\ a + c + 1 <= Len(s) /\ s[a + c + 1] = Newline
      /\ \A j \in 1 .. c : s[a + j] = w[j]
  BY NameIsText DEF NameAt
<1>2. \A n \in 0 .. Len(s) : f[n] = SplitBy(s, f, n)
  BY DEF SplitSoFar
<1>3. \A j \in 0 .. c : SubSeq(w, 1, j) \in W
  <2> TAKE j \in 0 .. c
  <2>1. \A i \in 1 .. j : w[i] \in Octet
    BY <1>1
  <2>2. QED
    BY <2>1, SubSeqProperties
<1>4. 0 \in T
  <2>1. SubSeq(w, 1, 0) = <<>> /\ a + 0 = a
    BY SubSeqEmpty
  <2>2. In(0)
    BY <2>1
  <2> HIDE DEF In
  <2>3. QED
    BY <2>2
<1>5. ASSUME NEW j \in Nat, j \in T
      PROVE  j + 1 \in T
  <2>1. SUFFICES ASSUME j + 1 <= c PROVE In(j + 1)
    <3> HIDE DEF In
    <3>1. QED
      BY <1>1
  <2>2. In(j)
    <3> HIDE DEF In
    <3>1. QED
      BY <1>1, <1>5, <2>1
  <2> DEFINE n == a + (j + 1)
             q == SubSeq(w, 1, j)
  <2>3. /\ n \in 0 .. Len(s) /\ n # 0 /\ n - 1 = a + j /\ j + 1 \in 1 .. c /\ j \in 0 .. c
        /\ s[n] = w[j + 1] /\ s[n] # Newline
    BY <1>1, <2>1
  <2>4. f[n] = Append(Front(f[a + j]), Append(Last(f[a + j]), w[j + 1]))
    <3> HIDE DEF n
    <3>1. f[n] = Append(Front(f[n - 1]), Append(Last(f[n - 1]), s[n]))
      BY <1>2, <2>3 DEF SplitBy
    <3>2. QED
      BY <2>3, <3>1
  <2>5. q \in W
    BY <1>3, <2>3
  <2>6. Front(f[a + j]) = P /\ Last(f[a + j]) = q
    <3>1. f[a + j] = Append(P, q)
      BY <2>2
    <3> HIDE DEF q, W
    <3>2. P \in Seq(W)
      BY DEF W
    <3>3. QED
      BY <2>5, <3>1, <3>2, LastOfAppend
  <2>7. Append(q, w[j + 1]) = SubSeq(w, 1, j + 1)
    <3>1. SubSeq(w, 1, j + 1) = SubSeq(w, 1, (j + 1) - 1) \o <<w[j + 1]>>
      <4>1. 1 \in 1 .. Len(w) /\ j + 1 \in 1 .. Len(w)
        BY <1>1, <2>3
      <4>2. QED
        BY <1>1, <4>1, SubSeqRecursiveSecond
    <3>2. (j + 1) - 1 = j /\ w[j + 1] \in Octet
      BY <1>1, <2>3
    <3>3. Append(q, w[j + 1]) = q \o <<w[j + 1]>>
      BY <2>5, <3>2, AppendIsConcat
    <3>4. QED
      BY <3>1, <3>2, <3>3
  <2>8. QED
    BY <2>4, <2>6, <2>7
<1>6. f[a + c] = Append(P, w)
  <2>1. Nat \subseteq T
    <3> HIDE DEF T
    <3>1. QED
      BY <1>4, <1>5, NumbersByInduction
  <2>2. In(c)
    <3> HIDE DEF In
    <3>1. QED
      BY <1>1, <2>1
  <2>3. SubSeq(w, 1, c) = w
    BY <1>1, SubSeqFull
  <2>4. QED
    BY <2>2, <2>3
<1> DEFINE n == a + c + 1
<1>7. /\ n \in 0 .. Len(s) /\ n # 0 /\ n > 1 /\ n - 1 = a + c /\ s[n] = Newline
      /\ c \in 1 .. c
  BY <1>1
<1>8. s[a + c] # Newline
  BY <1>1, <1>7
<1>9. f[n] = Append(f[n - 1], <<>>)
  <2> HIDE DEF n
  <2>1. s[n - 1] # Newline
    BY <1>7, <1>8
  <2>2. QED
    BY <1>2, <1>7, <2>1 DEF SplitBy
<1>10. QED
  BY <1>6, <1>7, <1>9

\* Names with a newline after each.
Terminated(L) == [k \in 1 .. Len(L) |-> Append(L[k], Newline)]
Listing(L) == FlattenSeq(Terminated(L))

LEMMA TerminatedPieces ==
  ASSUME NEW L \in Seq(Name)
  PROVE  /\ Terminated(L) \in Seq(Seq(Octet)) /\ Len(Terminated(L)) = Len(L)
         /\ \A k \in 1 .. Len(L) :
              /\ L[k] \in Name
              /\ Terminated(L)[k] = Append(L[k], Newline)
              /\ Len(Terminated(L)[k]) = Len(L[k]) + 1
              /\ \A j \in 1 .. Len(L[k]) : Terminated(L)[k][j] = L[k][j]
              /\ Terminated(L)[k][Len(L[k]) + 1] = Newline
<1> DEFINE W == Seq(Octet)
<1>1. Len(L) \in Nat /\ \A k \in 1 .. Len(L) : L[k] \in Name
  OBVIOUS
<1>2. Newline \in Octet
  BY DEF Newline, Octet
<1>3. ASSUME NEW k \in 1 .. Len(L)
      PROVE  /\ Append(L[k], Newline) \in W
             /\ Len(Append(L[k], Newline)) = Len(L[k]) + 1
             /\ \A j \in 1 .. Len(L[k]) : Append(L[k], Newline)[j] = L[k][j]
             /\ Append(L[k], Newline)[Len(L[k]) + 1] = Newline
  <2>1. L[k] \in W
    BY <1>1, NameIsText
  <2>2. QED
    BY <1>2, <2>1, AppendProperties
<1> HIDE DEF W
<1>4. Terminated(L) \in [1 .. Len(L) -> W]
  BY <1>3 DEF Terminated
<1>5. Terminated(L) \in Seq(W) /\ Len(Terminated(L)) = Len(L)
  BY <1>1, <1>4, ArraysAreSequences
<1>6. \A k \in 1 .. Len(L) : Terminated(L)[k] = Append(L[k], Newline)
  BY DEF Terminated
<1>7. QED
  BY <1>1, <1>3, <1>5, <1>6 DEF W

LEMMA ListingGrows ==
  ASSUME NEW L \in Seq(Name), NEW r \in Name
  PROVE  /\ Listing(L) \in Seq(Octet)
         /\ Listing(Append(L, r)) = Listing(L) \o Append(r, Newline)
<1> DEFINE m == Len(L)
           K == Append(L, r)
           seqs == Terminated(K)
           front == Terminated(L)
<1>1. K \in Seq(Name) /\ Len(K) = m + 1 /\ m \in Nat /\ K[m + 1] = r
      /\ \A i \in 1 .. m : K[i] = L[i]
  <2>1. L \in Seq(Name) /\ r \in Name /\ Len(L) \in Nat
    OBVIOUS
  <2> DEFINE Q == Name
  <2> HIDE DEF Q
  <2>2. QED
    BY <2>1, AppendProperties DEF Q
<1> HIDE DEF K
<1>2. /\ seqs \in Seq(Seq(Octet)) /\ Len(seqs) = m + 1
      /\ \A k \in 1 .. m + 1 : seqs[k] = Append(K[k], Newline)
  BY <1>1, TerminatedPieces
<1>3. /\ front \in Seq(Seq(Octet)) /\ Len(front) = m
      /\ \A k \in 1 .. m : front[k] = Append(L[k], Newline)
  BY TerminatedPieces
<1> HIDE DEF seqs, front
<1>4. PICK F : FlatSoFar(seqs, F, Octet)
  BY <1>2, FlattenUnfolds
<1>5. /\ F \in [0 .. m + 1 -> Seq(Octet)] /\ FlattenSeq(seqs) = F[m + 1]
      /\ \A i \in 1 .. m + 1 : F[i] = F[i - 1] \o seqs[i]
  BY <1>2, <1>4 DEF FlatSoFar
<1>6. m \in 0 .. Len(seqs) /\ m \in 0 .. m + 1 /\ m + 1 \in 1 .. m + 1 /\ (m + 1) - 1 = m
  BY <1>1, <1>2
<1>7. \A i \in 1 .. m : front[i] = seqs[i]
  <2> TAKE i \in 1 .. m
  <2>1. i \in 1 .. m + 1
    BY <1>1
  <2>2. QED
    BY <1>1, <1>2, <1>3, <2>1
<1> HIDE DEF m
<1>8. FlattenSeq(front) = F[m]
  <2>1. IsFront(front, seqs, m)
    BY <1>3, <1>7 DEF IsFront
  <2>2. QED
    BY <1>2, <1>3, <1>4, <1>6, <2>1, FlatFront
<1>9. F[m + 1] = F[m] \o seqs[m + 1] /\ seqs[m + 1] = Append(r, Newline) /\ F[m] \in Seq(Octet)
  BY <1>1, <1>2, <1>5, <1>6
<1>10. QED
  BY <1>5, <1>8, <1>9 DEF Listing, seqs, front, K

LEMMA SplitOfListing ==
  ASSUME NEW L \in Seq(Name)
  PROVE  Split(Listing(L)) = Append(L, <<>>)
<1> DEFINE n == Len(L)
           seqs == Terminated(L)
           s == FlattenSeq(seqs)
           nil == <<>>
<1>1. /\ n \in Nat /\ seqs \in Seq(Seq(Octet)) /\ Len(seqs) = n
      /\ \A k \in 1 .. n :
           /\ L[k] \in Name
           /\ seqs[k] = Append(L[k], Newline)
           /\ Len(seqs[k]) = Len(L[k]) + 1
           /\ \A j \in 1 .. Len(L[k]) : seqs[k][j] = L[k][j]
           /\ seqs[k][Len(L[k]) + 1] = Newline
  BY TerminatedPieces
<1> HIDE DEF seqs
<1>2. PICK F : FlatSoFar(seqs, F, Octet)
  BY <1>1, FlattenUnfolds
<1>3. F \in [0 .. n -> Seq(Octet)] /\ F[0] = <<>> /\ s = F[n]
  BY <1>1, <1>2 DEF FlatSoFar
<1>4. \A i \in 1 .. n : InPlace(seqs, F, i)
  BY <1>1, <1>2, FlatPlaces
<1>5. s \in Seq(Octet)
  BY <1>1, <1>3
<1>6. PICK f : SplitSoFar(s, f)
  <2> HIDE DEF s
  <2>1. QED
    BY <1>5, SplitUnfolds
<1>7. Split(s) = f[Len(s)] /\ f[0] = << nil >>
  <2>1. 0 \in 0 .. Len(s)
    BY <1>5
  <2>2. QED
    BY <1>6, <2>1 DEF SplitSoFar, SplitBy
<1>8. \A i \in 1 .. n : /\ Len(F[i]) = Len(F[i - 1]) + Len(seqs[i]) /\ Len(F[i]) <= Len(s)
                        /\ \A j \in 1 .. Len(seqs[i]) : s[Len(F[i - 1]) + j] = seqs[i][j]
  BY <1>4 DEF InPlace
<1> HIDE DEF s
<1>9. \A i \in 0 .. n : SubSeq(L, 1, i) \in Seq(Seq(Octet)) /\ SubSeq(L, 1, i) \in Seq(Name)
  <2> TAKE i \in 0 .. n
  <2>1. \A k \in 1 .. i : L[k] \in Name /\ L[k] \in Seq(Octet)
    BY <1>1, NameIsText
  <2> DEFINE Q == Seq(Octet)
             R == Name
  <2>2. i \in Int /\ 1 \in Int
    OBVIOUS
  <2>3. SubSeq(L, 1, i) \in Seq(Q) /\ SubSeq(L, 1, i) \in Seq(R)
    <3>1. \A k \in 1 .. i : L[k] \in Q /\ L[k] \in R
      BY <2>1
    <3> HIDE DEF Q, R
    <3>2. QED
      BY <2>2, <3>1, SubSeqProperties
  <2>4. QED
    BY <2>3
<1> DEFINE Done(i) == f[Len(F[i])] = Append(SubSeq(L, 1, i), nil)
           T == {i \in Nat : i <= n => Done(i)}
<1>10. 0 \in T
  <2>1. SubSeq(L, 1, 0) = <<>> /\ Len(F[0]) = 0
    BY <1>3, SubSeqEmpty
  <2>2. Append(<<>>, nil) = << nil >>
    OBVIOUS
  <2>3. Done(0)
    BY <1>7, <2>1, <2>2
  <2> HIDE DEF Done
  <2>4. QED
    BY <2>3
<1>11. ASSUME NEW i \in Nat, i \in T
       PROVE  i + 1 \in T
  <2>1. SUFFICES ASSUME i + 1 <= n PROVE Done(i + 1)
    <3> HIDE DEF Done
    <3>1. QED
      BY <1>1
  <2>2. Done(i)
    <3> HIDE DEF Done
    <3>1. QED
      BY <1>1, <1>11, <2>1
  <2> DEFINE a == Len(F[i])
             w == L[i + 1]
             P == SubSeq(L, 1, i)
  <2>3. i \in 0 .. n /\ i + 1 \in 1 .. n /\ (i + 1) - 1 = i
    BY <1>1, <2>1
  <2>4. a \in Nat /\ w \in Name /\ P \in Seq(Seq(Octet)) /\ f[a] = Append(P, <<>>)
    <3>1. F[i] \in Seq(Octet)
      BY <1>3, <2>3
    <3>2. QED
      BY <1>1, <1>9, <2>2, <2>3, <3>1
  <2> DEFINE z == seqs[i + 1]
  <2>5. Len(F[i + 1]) = a + Len(z) /\ Len(F[i + 1]) <= Len(s)
        /\ \A j \in 1 .. Len(z) : s[a + j] = z[j]
    BY <1>8, <2>3
  <2>6. /\ Len(z) = Len(w) + 1
        /\ \A j \in 1 .. Len(w) : z[j] = w[j]
        /\ z[Len(w) + 1] = Newline
    BY <1>1, <2>3
  <2> HIDE DEF z, w
  <2>7. Len(w) \in Nat
    BY <2>4, NameIsText
  <2>8. /\ Len(F[i + 1]) = a + Len(w) + 1 /\ a + Len(w) + 1 <= Len(s)
        /\ \A j \in 1 .. Len(w) : s[a + j] = w[j]
        /\ s[a + Len(w) + 1] = Newline
    <3> HIDE DEF a
    <3>1. a + (Len(w) + 1) = a + Len(w) + 1
      BY <2>4, <2>7
    <3>2. Len(F[i + 1]) = a + Len(w) + 1 /\ a + Len(w) + 1 <= Len(s)
      BY <2>5, <2>6, <3>1
    <3>3. Len(w) + 1 \in 1 .. Len(z) /\ \A j \in 1 .. Len(w) : j \in 1 .. Len(z)
      BY <2>6, <2>7
    <3>4. \A j \in 1 .. Len(w) : s[a + j] = w[j]
      BY <2>5, <2>6, <3>3
    <3>5. s[a + (Len(w) + 1)] = Newline
      BY <2>5, <2>6, <3>3
    <3>6. QED
      BY <3>1, <3>2, <3>4, <3>5
  <2>9. f[a + Len(w) + 1] = Append(Append(P, w), <<>>)
    <3>1. NameAt(s, a, w)
      BY <2>8 DEF NameAt
    <3> HIDE DEF a, P
    <3>2. QED
      BY <1>5, <1>6, <2>4, <3>1, SplitName
  <2>10. Append(P, w) = SubSeq(L, 1, i + 1)
    <3>1. SubSeq(L, 1, i + 1) = SubSeq(L, 1, (i + 1) - 1) \o <<L[i + 1]>>
      <4>1. 1 \in 1 .. Len(L) /\ i + 1 \in 1 .. Len(L)
        BY <1>1, <2>3
      <4>2. QED
        BY <4>1, SubSeqRecursiveSecond
    <3>2. P \in Seq(Name) /\ w \in Name
      BY <1>9, <2>3, <2>4
    <3>3. Append(P, w) = P \o <<w>>
      <4> HIDE DEF P
      <4>1. QED
        BY <3>2, AppendIsConcat
    <3>4. QED
      BY <2>3, <3>1, <3>3 DEF w
  <2>11. QED
    BY <2>8, <2>9, <2>10
<1>12. Done(n)
  <2>1. Nat \subseteq T
    <3> HIDE DEF T
    <3>1. QED
      BY <1>10, <1>11, NumbersByInduction
  <2> HIDE DEF Done
  <2>2. QED
    BY <1>1, <2>1
<1>13. SubSeq(L, 1, n) = L
  BY SubSeqFull
<1>14. f[Len(s)] = Append(L, <<>>)
  BY <1>3, <1>12, <1>13
<1>15. QED
  BY <1>7, <1>14 DEF s, seqs, Listing

LEMMA FrontOfNames ==
  ASSUME NEW V, NEW L \in Seq(V), NEW m \in 0 .. Len(L)
  PROVE  /\ SubSeq(L, 1, m) \in Seq(V) /\ Len(SubSeq(L, 1, m)) = m
         /\ \A k \in 1 .. m : SubSeq(L, 1, m)[k] = L[k]
<1>1. m \in Nat /\ Len(L) \in Nat /\ \A k \in 1 .. m : L[k] \in V
  OBVIOUS
<1>2. /\ SubSeq(L, 1, m) \in Seq(V)
      /\ Len(SubSeq(L, 1, m)) = IF 1 <= m THEN m - 1 + 1 ELSE 0
      /\ \A k \in 1 .. m - 1 + 1 : SubSeq(L, 1, m)[k] = L[1 + k - 1]
  BY <1>1, SubSeqProperties
<1>3. m - 1 + 1 = m /\ \A k \in 1 .. m : 1 + k - 1 = k
  BY <1>1
<1>4. QED
  BY <1>1, <1>2, <1>3

\* Of the answer so far that ends in a newline, the names are complete.
LEMMA FrontOfListing ==
  ASSUME NEW L \in Seq(Name), NEW d \in Seq(Octet), NEW t \in Seq(Octet),
         d \o t = Listing(L), d # <<>>, Last(d) = Newline
  PROVE  \E m \in 1 .. Len(L) : d = Listing(SubSeq(L, 1, m))
<1> DEFINE n == Len(L)
           seqs == Terminated(L)
           s == FlattenSeq(seqs)
           x == Len(d)
<1>1. /\ n \in Nat /\ seqs \in Seq(Seq(Octet)) /\ Len(seqs) = n
      /\ \A k \in 1 .. n :
           /\ L[k] \in Name
           /\ seqs[k] = Append(L[k], Newline)
           /\ Len(seqs[k]) = Len(L[k]) + 1
           /\ \A j \in 1 .. Len(L[k]) : seqs[k][j] = L[k][j]
  BY TerminatedPieces
<1>2. d \o t = s
  BY DEF Listing
<1> HIDE DEF seqs
<1>3. PICK F : FlatSoFar(seqs, F, Octet)
  BY <1>1, FlattenUnfolds
<1>4. F \in [0 .. n -> Seq(Octet)] /\ F[0] = <<>> /\ s = F[n]
  BY <1>1, <1>3 DEF FlatSoFar
<1>5. \A i \in 1 .. n : InPlace(seqs, F, i)
  BY <1>1, <1>3, FlatPlaces
<1>6. \A i \in 1 .. n : /\ Len(F[i]) = Len(F[i - 1]) + Len(seqs[i])
                        /\ \A k \in 1 .. Len(F[i]) : s[k] = F[i][k]
                        /\ \A j \in 1 .. Len(seqs[i]) : s[Len(F[i - 1]) + j] = seqs[i][j]
  BY <1>5 DEF InPlace
<1> HIDE DEF s
<1>7. /\ x \in Nat /\ x >= 1 /\ x <= Len(s) /\ s[x] = Newline
      /\ \A k \in 1 .. x : s[k] = d[k]
  <2>1. Len(d) \in Nat /\ Len(t) \in Nat /\ Len(d) # 0
    BY EmptySeq
  <2>2. /\ Len(s) = Len(d) + Len(t)
        /\ \A k \in 1 .. Len(d) + Len(t) : s[k] = IF k <= Len(d) THEN d[k] ELSE t[k - Len(d)]
    BY <1>2, ConcatProperties
  <2>3. \A k \in 1 .. x : s[k] = d[k]
    BY <2>1, <2>2
  <2>4. d[x] = Newline
    BY DEF Last
  <2>5. QED
    BY <2>1, <2>2, <2>3, <2>4
<1> HIDE DEF x
<1> DEFINE T == {i \in Nat : i <= n /\ x <= Len(F[i])}
<1>8. n \in T
  BY <1>1, <1>4, <1>7
<1>9. PICK m \in T : \A i \in T : m <= i
  <2>1. T \in SUBSET Nat /\ T # {}
    BY <1>8
  <2> HIDE DEF T
  <2>2. QED
    BY <2>1, SmallestOf
<1>10. m \in 1 .. n /\ x <= Len(F[m]) /\ m - 1 \in 0 .. n /\ m - 1 \in Nat
  <2>1. m \in Nat /\ m <= n /\ x <= Len(F[m])
    OBVIOUS
  <2>2. Len(F[0]) = 0
    BY <1>4
  <2>3. m # 0
    BY <1>7, <2>1, <2>2
  <2>4. QED
    BY <1>1, <2>1, <2>3
<1> DEFINE a == Len(F[m - 1])
           w == L[m]
           z == seqs[m]
<1>11. a \in Nat
  BY <1>4, <1>10
<1>12. a < x
  <2>1. m - 1 \notin T
    BY <1>9, <1>10
  <2>2. ~(x <= a)
    BY <1>10, <2>1
  <2>3. QED
    BY <1>7, <1>11, <2>2
<1>13. /\ w \in Name /\ Len(z) = Len(w) + 1 /\ Len(F[m]) = a + Len(z)
       /\ \A j \in 1 .. Len(w) : z[j] = w[j]
       /\ \A j \in 1 .. Len(z) : s[a + j] = z[j]
       /\ \A k \in 1 .. Len(F[m]) : s[k] = F[m][k]
  BY <1>1, <1>6, <1>10
<1>14. Len(w) \in Nat /\ \A j \in 1 .. Len(w) : w[j] # Newline
  BY <1>13, NameIsText
<1> HIDE DEF a, w, z
<1>15. x = Len(F[m])
  <2> DEFINE j == x - a
  <2>1. j \in 1 .. Len(z) /\ a + j = x
    BY <1>7, <1>10, <1>11, <1>12, <1>13, <1>14
  <2>2. z[j] = Newline
    BY <1>7, <1>13, <2>1
  <2>3. j \notin 1 .. Len(w)
    BY <1>13, <1>14, <2>2
  <2>4. j = Len(w) + 1
    <3> DEFINE c == Len(w)
               e == Len(z)
    <3>1. c \in Nat /\ e = c + 1 /\ j \in 1 .. e /\ j \notin 1 .. c
      BY <1>13, <1>14, <2>1, <2>3
    <3>2. j = c + 1
      <4> HIDE DEF c, e, j
      <4>1. QED
        BY <3>1
    <3>3. QED
      BY <3>2
  <2>5. QED
    BY <1>11, <1>13, <1>14, <2>1, <2>4
<1>16. d = F[m]
  <2>1. F[m] \in Seq(Octet)
    BY <1>4, <1>10
  <2>2. Len(d) = Len(F[m]) /\ \A k \in 1 .. Len(d) : d[k] = F[m][k]
    BY <1>7, <1>13, <1>15 DEF x
  <2>3. QED
    BY <2>1, <2>2, SeqEqual
<1> DEFINE M == SubSeq(L, 1, m)
<1>17. m \in 0 .. Len(L) /\ m \in 0 .. Len(seqs)
  BY <1>1, <1>10
<1>18. M \in Seq(Name) /\ Len(M) = m /\ \A k \in 1 .. m : M[k] = L[k]
  <2> DEFINE Q == Name
  <2> HIDE DEF Q
  <2>1. L \in Seq(Q)
    BY DEF Q
  <2>2. QED
    BY <1>17, <2>1, FrontOfNames DEF Q
<1> HIDE DEF M
<1>19. /\ Terminated(M) \in Seq(Seq(Octet)) /\ Len(Terminated(M)) = m
       /\ \A k \in 1 .. m : Terminated(M)[k] = Append(M[k], Newline)
  BY <1>18, TerminatedPieces
<1>20. IsFront(Terminated(M), seqs, m)
  <2>1. \A k \in 1 .. m : Terminated(M)[k] = seqs[k]
    <3> TAKE k \in 1 .. m
    <3>1. k \in 1 .. n
      BY <1>1, <1>10
    <3>2. seqs[k] = Append(L[k], Newline)
      BY <1>1, <3>1
    <3>3. Terminated(M)[k] = Append(M[k], Newline) /\ M[k] = L[k]
      BY <1>18, <1>19
    <3>4. QED
      BY <3>2, <3>3
  <2>2. QED
    BY <1>19, <2>1 DEF IsFront
<1>21. FlattenSeq(Terminated(M)) = F[m]
  BY <1>1, <1>3, <1>17, <1>19, <1>20, FlatFront
<1>22. d = Listing(M)
  BY <1>16, <1>21 DEF Listing
<1>23. QED
  BY <1>10, <1>22 DEF M

-----------------------------------------------------------------------------
(* What the getters answer *)

\* Before the operation ends, what is received and what is to come are the
\* reply of the server; of a reader list they are names with their newlines,
\* over all operations with the transaction of which none broke off.
AnswerInv ==
  /\ AssuanTypeOK
  /\ mData = answers
  /\ class = "scd" => item \in 1 .. 7
  /\ class = "agent" => item \in 1 .. 5
  /\ uses = 0 => mData = <<>> /\ ~running
  /\ ~running => todo = <<>>
  /\ uses = 1 => \E r \in Replies(Token) :
                   IF running THEN mData \o todo = r ELSE IsPrefix(mData, r)
  /\ Token = "reader_list" /\ ~broken =>
       \E L \in Seq(Reader) : mData \o todo = Listing(L)

LEMMA PrefixOfConcat ==
  ASSUME NEW V, NEW d \in Seq(V), NEW t \in Seq(V)
  PROVE  IsPrefix(d, d \o t)
<1>1. /\ d \o t \in Seq(V) /\ Len(d \o t) = Len(d) + Len(t)
      /\ Len(d) \in Nat /\ Len(t) \in Nat
  BY ConcatProperties
<1>2. SubSeq(d \o t, 1, Len(d)) = SubSeq(d, 1, Len(d))
  <2>1. CASE Len(d) = 0
    <3>1. SubSeq(d \o t, 1, 0) = <<>> /\ SubSeq(d, 1, 0) = <<>>
      BY SubSeqEmpty
    <3>2. QED
      BY <2>1, <3>1
  <2>2. CASE Len(d) # 0
    <3>1. 1 \in 1 .. Len(d) /\ Len(d) \in 1 .. Len(d)
      BY <1>1, <2>2
    <3>2. QED
      BY <3>1, SubSeqOfConcat1
  <2>3. QED
    BY <2>1, <2>2
<1>3. QED
  BY <1>1, <1>2 DEF IsPrefix

LEMMA ReadersAreNames == Reader \subseteq Name /\ Seq(Reader) \subseteq Seq(Name)
<1>1. Reader \subseteq Name
  BY AssuanAssumption DEF Name
<1> HIDE DEF Name
<1>2. QED
  BY <1>1

LEMMA EmptyListing == Listing(<<>>) = <<>>
<1> DEFINE nil == <<>>
           seqs == Terminated(nil)
<1>1. nil \in Seq(Name) /\ Len(nil) = 0
  <2> DEFINE Q == Name
  <2> HIDE DEF Q
  <2>1. QED
    BY EmptySeq DEF Q
<1>2. seqs \in Seq(Seq(Octet)) /\ Len(seqs) = 0
  <2> HIDE DEF nil
  <2>1. QED
    BY <1>1, TerminatedPieces
<1> HIDE DEF seqs
<1>3. PICK F : FlatSoFar(seqs, F, Octet)
  BY <1>2, FlattenUnfolds
<1>4. FlattenSeq(seqs) = <<>>
  BY <1>2, <1>3 DEF FlatSoFar
<1>5. QED
  BY <1>4 DEF Listing, seqs

\* Another answer makes the list longer.
LEMMA AnswerLengthens ==
  ASSUME NEW L \in Seq(Reader), NEW reply \in Replies("reader_list")
  PROVE  \E K \in Seq(Reader) : Listing(L) \o reply = Listing(K)
<1>1. L \in Seq(Name)
  BY ReadersAreNames
<1>2. Listing(L) \in Seq(Octet)
  <2>1. PICK r : r \in Name
    <3>1. <<0>> \in Seq(Octet \ {Newline}) /\ Len(<<0>>) = 1 /\ Len(<<>>) = 0
      BY DEF Octet, Newline
    <3>2. <<0>> \in Name
      BY <3>1 DEF Name
    <3>3. QED
      BY <3>2
  <2>2. QED
    BY <1>1, <2>1, ListingGrows
<1>3. CASE reply = <<>>
  BY <1>2, <1>3, ConcatEmptySeq
<1>4. ASSUME NEW r \in Reader, NEW t \in Reader,
             reply = r \o <<Newline>> \o t \o <<Newline>>
      PROVE  \E K \in Seq(Reader) : Listing(L) \o reply = Listing(K)
  <2> DEFINE R == Reader
             W == Seq(Octet)
             J == Append(L, r)
             K == Append(J, t)
             end == <<Newline>>
             text == Listing(L)
  <2>1. J \in Seq(R) /\ K \in Seq(R)
    <3> HIDE DEF R
    <3>1. r \in R /\ t \in R /\ L \in Seq(R)
      BY DEF R
    <3>2. J \in Seq(R)
      BY <3>1, AppendProperties
    <3> HIDE DEF J
    <3>3. QED
      BY <3>1, <3>2, AppendProperties
  <2>2. r \in Name /\ t \in Name /\ J \in Seq(Name)
    BY <2>1, ReadersAreNames
  <2>3. r \in W /\ t \in W /\ end \in W /\ Newline \in Octet
    BY <2>2, NameIsText DEF Octet, Newline
  <2>4. Append(r, Newline) = r \o end /\ Append(t, Newline) = t \o end
    BY <2>3, AppendIsConcat
  <2>5. Listing(J) = text \o Append(r, Newline)
    BY <1>1, <2>2, ListingGrows
  <2>6. Listing(K) = Listing(J) \o Append(t, Newline)
    <3> HIDE DEF J
    <3>1. QED
      BY <2>2, ListingGrows
  <2>7. reply = r \o end \o t \o end /\ text \in W
    BY <1>2, <1>4
  <2> HIDE DEF J, K, end, text, W, R
  <2>8. Listing(K) = (text \o (r \o end)) \o (t \o end)
    BY <2>4, <2>5, <2>6
  <2>9. r \o end \in W /\ t \o end \in W
    BY <2>3, ConcatProperties DEF W
  <2>10. (text \o (r \o end)) \o (t \o end) = text \o ((r \o end) \o (t \o end))
    <3> DEFINE u == r \o end
               v == t \o end
    <3>1. text \in Seq(Octet) /\ u \in Seq(Octet) /\ v \in Seq(Octet)
      BY <2>7, <2>9 DEF W
    <3> HIDE DEF u, v
    <3>2. (text \o u) \o v = text \o (u \o v)
      BY <3>1, ConcatAssociative
    <3>3. QED
      BY <3>2 DEF u, v
  <2>11. ((r \o end) \o t) \o end = (r \o end) \o (t \o end)
    BY <2>3, <2>9, ConcatAssociative DEF W
  <2>12. Listing(K) = text \o reply
    BY <2>7, <2>8, <2>10, <2>11
  <2>13. QED
    BY <2>1, <2>12 DEF text, R
<1>5. reply = <<>> \/ \E r, t \in Reader : reply = r \o <<Newline>> \o t \o <<Newline>>
  <2> DEFINE Two(r, t) == r \o <<Newline>> \o t \o <<Newline>>
             nil == <<>>
  <2>1. Replies("reader_list") = {Two(r, t) : r, t \in Reader} \cup {nil}
    BY DEF Replies
  <2>2. reply = nil \/ \E r, t \in Reader : reply = Two(r, t)
    <3> HIDE DEF Two, nil
    <3>1. QED
      BY <2>1
  <2>3. QED
    BY <2>2
<1>6. QED
  BY <1>3, <1>4, <1>5

\* The tokens stand at the positions of the enumerators that name them.
LEMMA TokensInOrder ==
  ASSUME NEW it, item \in DOMAIN Items, Items[item] = it,
         class \in {"default", "scd", "agent"}
  PROVE  /\ Replies(Token) = Replies(Asks(it))
         /\ it = "ReaderList" => Token = "reader_list"
<1>1. CASE class = "default"
  <2>1. DOMAIN Items = {}
    BY <1>1 DEF Items
  <2>2. QED
    BY <2>1
<1>2. CASE class = "scd"
  <2>1. Items = ScdItems /\ Token = ScdTokens[item] /\ DOMAIN ScdItems = 1 .. 7
    BY <1>2 DEF Items, Token, ScdItems
  <2>2. item \in 1 .. 7
    BY <2>1
  <2>3. CASE item = 1
    <3>1. it = "Version" /\ Token = "version"
      BY <2>1, <2>3 DEF ScdItems, ScdTokens
    <3>2. QED
      BY <3>1 DEF Asks
  <2>4. CASE item = 5
    <3>1. it = "ReaderList" /\ Token = "reader_list"
      BY <2>1, <2>4 DEF ScdItems, ScdTokens
    <3>2. QED
      BY <3>1 DEF Asks
  <2>5. CASE item \in {2, 3, 4, 6, 7}
    <3>1. /\ it \notin {"Version", "ReaderList"} /\ Token \notin {"version", "reader_list"}
      BY <2>1, <2>5 DEF ScdItems, ScdTokens
    <3>2. Asks(it) = "other"
      BY <3>1 DEF Asks
    <3>3. QED
      BY <3>1, <3>2 DEF Replies
  <2>6. QED
    BY <2>2, <2>3, <2>4, <2>5
<1>3. CASE class = "agent"
  <2>1. Items = AgentItems /\ Token = AgentTokens[item] /\ DOMAIN AgentItems = 1 .. 5
    BY <1>3 DEF Items, Token, AgentItems
  <2>2. item \in 1 .. 5
    BY <2>1
  <2>3. CASE item = 1
    <3>1. it = "Version" /\ Token = "version"
      BY <2>1, <2>3 DEF AgentItems, AgentTokens
    <3>2. QED
      BY <3>1 DEF Asks
  <2>4. CASE item \in {2, 3, 4, 5}
    <3>1. /\ it \notin {"Version", "ReaderList"} /\ Token \notin {"version", "reader_list"}
      BY <2>1, <2>4 DEF AgentItems, AgentTokens
    <3>2. Asks(it) = "other"
      BY <3>1 DEF Asks
    <3>3. QED
      BY <3>1, <3>2 DEF Replies
  <2>5. QED
    BY <2>2, <2>3, <2>4
<1>4. QED
  BY <1>1, <1>2, <1>3

LEMMA AnswerInvSays == AnswerInv => AnswerIsReply
<1> SUFFICES ASSUME AnswerInv PROVE AnswerIsReply
  OBVIOUS
<1>1. /\ class \in {"default", "scd", "agent"}
      /\ mData \in Seq(Octet) /\ todo \in Seq(Octet) /\ mData = answers
  BY DEF AnswerInv, AssuanTypeOK
<1>2. ASSUME uses = 1, item \in DOMAIN Items
      PROVE  \E r \in Replies(Asks(Items[item])) : IsPrefix(Answer(Items[item]), r)
  <2>1. PICK r \in Replies(Token) : IF running THEN mData \o todo = r ELSE IsPrefix(mData, r)
    BY <1>2 DEF AnswerInv
  <2>2. IsPrefix(mData, r)
    <3>1. IsPrefix(mData, mData \o todo)
      BY <1>1, PrefixOfConcat
    <3>2. QED
      BY <2>1, <3>1
  <2>3. Answer(Items[item]) = mData
    BY <1>2 DEF Answer
  <2>4. Replies(Token) = Replies(Asks(Items[item]))
    BY <1>1, <1>2, TokensInOrder
  <2>5. QED
    BY <2>2, <2>3, <2>4
<1>3. ASSUME ~broken, Answer("ReaderList") # <<>>, Last(mData) = Newline
      PROVE  LET names == Front(ReaderList)
             IN /\ Last(ReaderList) = <<>>
                /\ \A k \in DOMAIN names : names[k] \in Reader
                /\ FlattenSeq([k \in DOMAIN names |-> Append(names[k], Newline)]) = answers
  <2>1. item \in DOMAIN Items /\ Items[item] = "ReaderList"
    BY <1>3 DEF Answer
  <2>2. Answer("ReaderList") = mData
    BY <2>1 DEF Answer
  <2>3. mData # <<>>
    BY <1>3, <2>2
  <2>4. Token = "reader_list"
    BY <1>1, <2>1, TokensInOrder
  <2>5. PICK L \in Seq(Reader) : mData \o todo = Listing(L)
    BY <1>3, <2>4 DEF AnswerInv
  <2>6. L \in Seq(Name)
    BY ReadersAreNames
  <2>7. PICK m \in 1 .. Len(L) : mData = Listing(SubSeq(L, 1, m))
    BY <1>1, <1>3, <2>3, <2>5, <2>6, FrontOfListing
  <2> DEFINE R == Reader
             M == SubSeq(L, 1, m)
             Q == Seq(Octet)
             nil == <<>>
  <2>8. M \in Seq(R) /\ Len(M) = m
    <3>1. m \in 0 .. Len(L)
      OBVIOUS
    <3> HIDE DEF R
    <3>2. L \in Seq(R)
      BY DEF R
    <3>3. QED
      BY <3>1, <3>2, FrontOfNames
  <2> HIDE DEF M
  <2>9. M \in Seq(Name)
    BY <2>8, ReadersAreNames
  <2>10. ReaderList = Append(M, nil)
    BY <2>2, <2>7, <2>9, SplitOfListing DEF ReaderList, M
  <2>11. M \in Seq(Q) /\ nil \in Q
    <3>1. \A k \in 1 .. Len(M) : M[k] \in Q
      <4>1. \A k \in 1 .. Len(M) : M[k] \in Name
        <5> DEFINE Z == Name
        <5> HIDE DEF Z
        <5>1. M \in Seq(Z)
          BY <2>9 DEF Z
        <5>2. \A k \in 1 .. Len(M) : M[k] \in Z
          BY <5>1
        <5>3. QED
          BY <5>2 DEF Z
      <4>2. QED
        BY <4>1, NameIsText
    <3>2. Len(M) \in Nat /\ M \in [1 .. Len(M) -> Q]
      <4>1. Len(M) \in Nat /\ M = [k \in 1 .. Len(M) |-> M[k]]
        BY <2>8
      <4> HIDE DEF Q
      <4>2. QED
        BY <3>1, <4>1
    <3>3. M \in Seq(Q)
      <4> HIDE DEF Q
      <4>1. QED
        BY <3>2, ArraysAreSequences
    <3>4. QED
      BY <3>3
  <2>12. Front(ReaderList) = M /\ Last(ReaderList) = nil
    <3> HIDE DEF Q, nil
    <3>1. QED
      BY <2>10, <2>11, LastOfAppend
  <2>13. DOMAIN M = 1 .. Len(M) /\ \A k \in 1 .. Len(M) : M[k] \in Reader
    BY <2>8
  <2>14. FlattenSeq([k \in DOMAIN M |-> Append(M[k], Newline)]) = Listing(M)
    BY <2>13 DEF Listing, Terminated
  <2>15. Listing(M) = answers
    BY <1>1, <2>7 DEF M
  <2>16. QED
    BY <2>12, <2>13, <2>14, <2>15
<1>4. QED
  BY <1>2, <1>3 DEF AnswerIsReply

LEMMA AnswerInvStarts == AssuanInit => AnswerInv
<1> SUFFICES ASSUME AssuanInit PROVE AnswerInv
  OBVIOUS
<1>1. AssuanTypeOK
  BY StartsTyped
<1>2. mData = <<>> /\ answers = <<>> /\ todo = <<>> /\ running = FALSE /\ uses = 0
  BY DEF AssuanInit
<1>3. (class = "scd" => item \in 1 .. 7) /\ (class = "agent" => item \in 1 .. 5)
  BY DEF AssuanInit, ScdItems, AgentItems
<1>4. \E L \in Seq(Reader) : mData \o todo = Listing(L)
  <2>1. <<>> \o <<>> = <<>> /\ <<>> \in Seq(Reader)
    BY EmptySeq, ConcatEmptySeq
  <2>2. QED
    BY <1>2, <2>1, EmptyListing
<1>5. QED
  BY <1>1, <1>2, <1>3, <1>4 DEF AnswerInv

\* A step that leaves alone what the invariant is about.
LEMMA AnswerInvUntouched ==
  ASSUME AnswerInv, AssuanTypeOK', UNCHANGED <<given, mData, todo, answers, running, broken, uses>>
  PROVE  AnswerInv'
<1>1. Token' = Token
  BY DEF Token, given
<1>2. QED
  BY <1>1 DEF AnswerInv, given

LEMMA TransactKeepsAnswer ==
  ASSUME AnswerInv, Transact
  PROVE  AnswerInv'
<1>1. AssuanTypeOK /\ AssuanTypeOK'
  BY TransactTyped DEF AnswerInv
<1>2. /\ todo' \in Replies(Token) /\ running' = TRUE /\ uses' = uses + 1 /\ ~running
      /\ mData' = mData /\ answers' = answers /\ broken' = broken
      /\ class' = class /\ item' = item
  BY DEF Transact, given
<1>3. Token' = Token
  BY <1>2 DEF Token
<1>4. mData \in Seq(Octet) /\ todo' \in Seq(Octet) /\ uses \in Nat /\ todo = <<>>
  BY <1>1, <1>2, AssuanAssumption DEF AssuanTypeOK, AnswerInv
<1>5. uses' # 0
  BY <1>2, <1>4
<1>6. ASSUME uses' = 1
      PROVE  \E r \in Replies(Token') :
               IF running' THEN mData' \o todo' = r ELSE IsPrefix(mData', r)
  <2>1. uses = 0
    BY <1>2, <1>4, <1>6
  <2>2. mData = <<>>
    BY <2>1 DEF AnswerInv
  <2>3. mData' \o todo' = todo'
    BY <1>2, <1>4, <2>2, ConcatEmptySeq
  <2>4. QED
    BY <1>2, <1>3, <2>3
<1>7. ASSUME Token' = "reader_list", ~broken'
      PROVE  \E L \in Seq(Reader) : mData' \o todo' = Listing(L)
  <2>1. PICK L \in Seq(Reader) : mData \o todo = Listing(L)
    BY <1>2, <1>3, <1>7 DEF AnswerInv
  <2>2. mData = Listing(L)
    BY <1>4, <2>1, ConcatEmptySeq
  <2>3. todo' \in Replies("reader_list")
    BY <1>2, <1>3, <1>7
  <2>4. \E K \in Seq(Reader) : Listing(L) \o todo' = Listing(K)
    BY <2>3, AnswerLengthens
  <2>5. QED
    BY <1>2, <2>2, <2>4
<1>8. /\ mData' = answers' /\ (class' = "scd" => item' \in 1 .. 7)
      /\ (class' = "agent" => item' \in 1 .. 5)
  BY <1>2 DEF AnswerInv
<1>9. QED
  BY <1>1, <1>2, <1>5, <1>6, <1>7, <1>8 DEF AnswerInv

LEMMA SendDataKeepsAnswer ==
  ASSUME AnswerInv, SendData
  PROVE  AnswerInv'
<1>1. AssuanTypeOK /\ AssuanTypeOK'
  BY SendDataTyped DEF AnswerInv
<1>2. /\ running /\ running' = running /\ uses' = uses /\ broken' = broken
      /\ class' = class /\ item' = item
  BY DEF SendData, given
<1>3. Token' = Token
  BY <1>2 DEF Token
<1>4. PICK n \in 1 .. Len(todo) :
        /\ mData' = mData \o SubSeq(todo, 1, n)
        /\ answers' = answers \o SubSeq(todo, 1, n)
        /\ todo' = SubSeq(todo, n + 1, Len(todo))
  BY DEF SendData, Received
<1> DEFINE a == SubSeq(todo, 1, n)
           b == SubSeq(todo, n + 1, Len(todo))
<1>5. a \in Seq(Octet) /\ b \in Seq(Octet) /\ a \o b = todo /\ mData \in Seq(Octet)
  BY <1>1, PieceIsText DEF AssuanTypeOK
<1>6. mData' = mData \o a /\ answers' = answers \o a /\ todo' = b
  BY <1>4
<1> HIDE DEF a, b
<1>7. mData' \o todo' = mData \o todo
  <2>1. ASSUME NEW d \in Seq(Octet)
        PROVE  (d \o a) \o b = d \o (a \o b)
    <3>1. a \in Seq(Octet) /\ b \in Seq(Octet)
      BY <1>5
    <3>2. QED
      BY <3>1, ConcatAssociative
  <2>2. QED
    BY <1>5, <1>6, <2>1
<1>8. uses # 0 /\ mData' = answers'
  BY <1>2, <1>6 DEF AnswerInv
<1>9. QED
  BY <1>1, <1>2, <1>3, <1>7, <1>8 DEF AnswerInv

LEMMA FinishKeepsAnswer ==
  ASSUME AnswerInv, Finish
  PROVE  AnswerInv'
<1>1. /\ running /\ running' = FALSE /\ uses' = uses /\ todo' = <<>>
      /\ broken' = (broken \/ todo # <<>>)
      /\ mData' = mData /\ answers' = answers /\ mStatus' = mStatus
      /\ class' = class /\ item' = item
  BY DEF Finish, given
<1>2. AssuanTypeOK'
  <2>1. todo' \in Seq(Octet)
    <3>1. <<>> \in Seq(Octet)
      OBVIOUS
    <3>2. QED
      BY <1>1, <3>1
  <2>2. broken' \in BOOLEAN
    BY <1>1
  <2>3. QED
    BY <1>1, <2>1, <2>2 DEF AnswerInv, AssuanTypeOK
<1>3. Token' = Token
  BY <1>1 DEF Token
<1>4. mData \in Seq(Octet) /\ todo \in Seq(Octet)
  BY DEF AnswerInv, AssuanTypeOK
<1>5. ASSUME uses' = 1
      PROVE  \E r \in Replies(Token') :
               IF running' THEN mData' \o todo' = r ELSE IsPrefix(mData', r)
  <2>1. PICK r \in Replies(Token) : mData \o todo = r
    BY <1>1, <1>5 DEF AnswerInv
  <2>2. IsPrefix(mData, r)
    BY <1>4, <2>1, PrefixOfConcat
  <2>3. QED
    BY <1>1, <1>3, <2>2
<1>6. ASSUME Token' = "reader_list", ~broken'
      PROVE  \E L \in Seq(Reader) : mData' \o todo' = Listing(L)
  <2>1. ~broken /\ todo = <<>>
    BY <1>1, <1>6
  <2>2. PICK L \in Seq(Reader) : mData \o todo = Listing(L)
    BY <1>3, <1>6, <2>1 DEF AnswerInv
  <2>3. QED
    BY <1>1, <2>1, <2>2
<1>7. uses # 0
  BY <1>1 DEF AnswerInv
<1>8. /\ mData' = answers' /\ (class' = "scd" => item' \in 1 .. 7)
      /\ (class' = "agent" => item' \in 1 .. 5)
  BY <1>1 DEF AnswerInv
<1>9. QED
  BY <1>1, <1>2, <1>5, <1>6, <1>7, <1>8 DEF AnswerInv

LEMMA AnswerInvKeeps ==
  ASSUME StatusInv', AnswerInv, [AssuanNext]_assuanVars
  PROVE  AnswerInv'
<1>1. AssuanTypeOK'
  BY DEF StatusInv
<1>2. CASE SendStatus \/ Inquire \/ UNCHANGED assuanVars
  <2>1. UNCHANGED <<given, mData, todo, answers, running, broken, uses>>
    BY <1>2 DEF SendStatus, Inquire, assuanVars, given
  <2>2. QED
    BY <1>1, <2>1, AnswerInvUntouched
<1>3. QED
  BY <1>2, TransactKeepsAnswer, SendDataKeepsAnswer, FinishKeepsAnswer DEF AssuanNext

\* The getter of an item answers with the reply to the question for it, and a
\* complete reader list has the names of the server and an empty one, for any
\* version, readers and pieces.
THEOREM AnswersWithReply == AssuanSpec => []AnswerIsReply
<1>1. AssuanInit => StatusInv /\ AnswerInv
  BY StatusInvStarts, AnswerInvStarts
<1>2. StatusInv /\ AnswerInv /\ [AssuanNext]_assuanVars => StatusInv' /\ AnswerInv'
  BY StatusInvKeeps, AnswerInvKeeps
<1>3. QED
  BY <1>1, <1>2, AnswerInvSays, PTL DEF AssuanSpec

-----------------------------------------------------------------------------
\* Data and transactions in the composition that the run checks have all five
\* properties, for every value of the constants.
THEOREM DataAndTransactions ==
  MCSpec => /\ [](NothingDangles /\ StatusAsMeant /\ AnswerIsReply)
            /\ ReleasedByLast /\ IsFile
<1>1. MCInit => DataInit /\ AssuanInit
  BY DEF MCInit
<1>2. [MCNext]_<<vars, dataVars, assuanVars>> =>
        [DataNext]_<<vars, dataVars>> /\ [AssuanNext]_assuanVars
  BY DEF MCNext
<1>3. MCSpec => DataSpec /\ AssuanSpec
  BY <1>1, <1>2, PTL DEF MCSpec, DataSpec, AssuanSpec
<1>4. QED
  BY <1>3, DataLiveLongEnough, LastHandleReleases, DataServesAFile, StatusReadAsSent,
     AnswersWithReply, PTL
=============================================================================
