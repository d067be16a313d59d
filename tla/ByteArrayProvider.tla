-------------------------- MODULE ByteArrayProvider --------------------------
(***************************************************************************)
(* QGpgME::QByteArrayDataProvider: an array of bytes, an offset, and the   *)
(* four calls that gpgme makes through data_provider_callbacks.            *)
(***************************************************************************)
EXTENDS Integers, Sequences

CONSTANTS
  Byte,      \* the values of a byte; Zero is one of them
  Zero,
  IntBits,   \* width of int; off_t is taken to be unbounded
  Offsets,   \* the offsets that seek() is called with
  Whences,   \* subset of {"SET", "CUR", "END"}
  MaxChunk   \* most bytes in one call (bound)

\* A Data that is made from the provider seeks to the start.
ASSUME ProviderAssumption ==
  /\ Zero \in Byte
  /\ IntBits \in Nat \ {0}
  /\ 2 ^ (IntBits - 1) \in Nat \ {0}
  /\ 0 \in Offsets /\ Offsets \subseteq Int
  /\ "SET" \in Whences /\ Whences \subseteq {"SET", "CUR", "END"}
  /\ MaxChunk \in Nat \ {0}

VARIABLES
  mArray,     \* the bytes, as many as an int counts
  mOff,       \* the offset, an off_t
  ret,        \* what the last call returned
  out,        \* the bytes that the last read() copied
  undefined   \* an assertion failed or memory beyond the array was touched

vars == <<mArray, mOff, ret, out, undefined>>

Half == 2 ^ (IntBits - 1)

\* The conversion of an off_t to int.
ToInt(x) == ((x + Half) % (2 * Half)) - Half

Chunks == UNION {[1 .. n -> Byte] : n \in 0 .. MaxChunk}
Size   == Len(mArray)

Returns(r, bytes) == ret' = r /\ out' = bytes

\* An assertion that fails, or an access outside the array: nothing is known
\* of the program from here on.
Breaks == undefined' = TRUE /\ UNCHANGED <<mArray, mOff, ret, out>>

-----------------------------------------------------------------------------
Init ==
  /\ mArray \in {a \in Chunks : Len(a) < Half}
  /\ mOff = 0
  /\ ret = 0
  /\ out = <<>>
  /\ undefined = FALSE

\* read() or write() with no bytes, or with a null buffer.
Nothing ==
  /\ Returns(0, <<>>) \/ Returns(-1, <<>>)
  /\ UNCHANGED <<mArray, mOff, undefined>>

ReadEOF ==
  /\ mOff >= Size
  /\ Returns(0, <<>>)
  /\ UNCHANGED <<mArray, mOff, undefined>>

\* read(): the bytes from the offset to the end, or as many as fit.
Read(n) ==
  /\ mOff < Size
  /\ LET amount == IF n <= Size - mOff THEN n ELSE Size - mOff
     IN IF mOff < 0
        THEN Breaks
        ELSE /\ Returns(amount, SubSeq(mArray, mOff + 1, mOff + amount))
             /\ mOff' = mOff + amount
             /\ UNCHANGED <<mArray, undefined>>

\* Mutant: data beyond the end is appended, without a gap.
MutWriteBeyond(data) ==
  /\ mOff >= Size
  /\ mOff + Len(data) < Half
  /\ mArray' = mArray \o data
  /\ mOff' = mOff + Len(data)
  /\ Returns(Len(data), <<>>)
  /\ UNCHANGED undefined

\* write() at or beyond the end: resizeAndInit(), then copy.
WriteBeyond(data) ==
  /\ mOff >= Size
  /\ mOff + Len(data) < Half
  /\ mArray' = [k \in 1 .. mOff + Len(data) |->
                  IF k <= Size THEN mArray[k]
                  ELSE IF k <= mOff THEN Zero ELSE data[k - mOff]]
  /\ mOff' = mOff + Len(data)
  /\ Returns(Len(data), <<>>)
  /\ UNCHANGED undefined

\* QByteArray::resize(n): an array without bytes for a negative n; the bytes
\* that are new have any value.
Resized(n) ==
  {a \in [1 .. (IF n < 0 THEN 0 ELSE n) -> Byte] :
     \A k \in DOMAIN a : k <= Size => a[k] = mArray[k]}

\* Mutant: the failure of resizeAndInit() is not noticed.
MutWriteTooFar(data) ==
  /\ mOff >= Size
  /\ mOff + Len(data) >= Half
  /\ mArray' \in Resized(ToInt(mOff + Len(data)))
  /\ Returns(Len(data), <<>>)
  /\ UNCHANGED <<mOff, undefined>>

\* write() at or beyond the end, of more than an array can have: resize() is
\* given another size and does not reach the offset, and what it dropped is
\* lost.  Or it does reach it, and the data does not fit.
WriteTooFar(data) ==
  /\ mOff >= Size
  /\ mOff + Len(data) >= Half
  /\ LET size == ToInt(mOff + Len(data))
     IN IF size > mOff
        THEN Breaks
        ELSE /\ mArray' \in Resized(size)
             /\ Returns(-1, <<>>)
             /\ UNCHANGED <<mOff, undefined>>

\* write() from within the array.  The array does not grow here:
\* "assert(bufSize <= size - mOff)" fails when the data goes past its end.
WriteWithin(data) ==
  /\ mOff < Size
  /\ IF mOff < 0 \/ Len(data) > Size - mOff
     THEN Breaks
     ELSE /\ mArray' = [k \in 1 .. Size |->
                          IF k \in mOff + 1 .. mOff + Len(data)
                          THEN data[k - mOff] ELSE mArray[k]]
          /\ mOff' = mOff + Len(data)
          /\ Returns(Len(data), <<>>)
          /\ UNCHANGED undefined

\* Where a seek is asked to go.
Target(offset, whence) ==
  CASE whence = "SET" -> offset
    [] whence = "CUR" -> mOff + offset
    [] whence = "END" -> Size + offset

\* Mutant: the offset that was asked for is returned.
MutSeek(offset, whence) ==
  /\ mOff' = ToInt(Target(offset, whence))
  /\ Returns(offset, <<>>)
  /\ UNCHANGED <<mArray, undefined>>

\* seek(): the new offset goes through an int.
Seek(offset, whence) ==
  /\ mOff' = ToInt(Target(offset, whence))
  /\ Returns(mOff', <<>>)
  /\ UNCHANGED <<mArray, undefined>>

\* release(): the array is dropped, the offset is not.
Release ==
  /\ mArray' = <<>>
  /\ Returns(0, <<>>)
  /\ UNCHANGED <<mOff, undefined>>

Next ==
  /\ ~undefined
  /\ \/ Nothing
     \/ ReadEOF
     \/ \E n \in 1 .. MaxChunk : Read(n)
     \/ \E data \in Chunks \ {<<>>} : WriteBeyond(data) \/ WriteTooFar(data) \/ WriteWithin(data)
     \/ \E offset \in Offsets, whence \in Whences : Seek(offset, whence)
     \/ Release

Spec == Init /\ [][Next]_vars

-----------------------------------------------------------------------------
\* The values the variables range over.  The offset, an off_t, stays one that
\* an int can hold, whatever is asked for.
TypeOK ==
  /\ mArray \in Seq(Byte) /\ Size < Half
  /\ mOff \in -Half .. Half - 1
  /\ ret \in Int
  /\ out \in Seq(Byte)
  /\ undefined \in BOOLEAN

\* The promise of a DataProvider: through any sequence of calls, with offsets
\* negative or beyond the end, the provider is a file as long as it does not
\* break: no byte is lost, moved or made up, gaps read as zeros, and every call
\* returns what it did.  The exceptions are those of SeekableFile: a position
\* that an int cannot hold wraps, and seek() tells where it went; and a write at
\* the end that would make the array longer than an int counts loses bytes, and
\* returns -1.
File == INSTANCE SeekableFile WITH
  content <- mArray, pos <- mOff, result <- out, returned <- ret, Limit <- Half - 1
IsFile == File!Spec

\* "assert(bufSize <= static_cast<size_t>(mArray.size()) - mOff)" in write()
\* holds and no access leaves the array.
NeverUndefined == ~undefined
=============================================================================
