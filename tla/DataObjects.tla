----------------------------- MODULE DataObjects -----------------------------
(***************************************************************************)
(* GpgME::Data: handles that share a Private with gpgme's data object, made *)
(* from a DataProvider, which gpgme calls through data_provider_callbacks,  *)
(* or from something else.  The provider is that of ByteArrayProvider.  It  *)
(* is told to release its resources when the last handle goes; Context has *)
(* one of its own, for the data of an Assuan inquiry.                      *)
(***************************************************************************)
EXTENDS ByteArrayProvider

CONSTANTS
  Body,      \* where Data::Private objects live
  Static,    \* the one of Data::null, which nobody frees
  Handle,    \* the application's Data variables
  Supports   \* what a provider may support, sets of operations

Operation == {"read", "write", "seek", "release"}

ASSUME DataAssumption ==
  Static \notin Body /\ Supports \subseteq SUBSET Operation

Free == [kind |-> "free", cbs |-> {}]
Null == [kind |-> "null", cbs |-> {}]  \* Private::data is 0
Own  == [kind |-> "own",  cbs |-> {}]  \* gpgme keeps the bytes, or has a file
From(ops) == [kind |-> "provider", cbs |-> ops]

VARIABLES
  body,      \* what lives where: Free, Null, Own or From(the operations in cbs)
  handle,    \* the body of each variable; Static also where there is none
  inquired,  \* the body of Context::lastAssuanInquireData
  serving,   \* the one that gpgme reads for an inquiry, or Static
  refused,   \* that inquire() came with an error, so gpgme takes no notice
  supports,  \* what the provider supports; never assigned
  exists,    \* the provider exists
  dangling   \* a provider or gpgme's data object was used after its end

holders  == <<handle, inquired>>
dataVars == <<body, holders, serving, refused, supports, exists, dangling>>

\* isNull()
IsNull(b) == IF b = Static THEN TRUE ELSE body[b].kind = "null"

Held(b) == inquired = b \/ \E h \in Handle : handle[h] = b

\* Mutant: a Data also ends when one of its copies goes.
MutEnded(b) == \E h \in Handle : handle[h] = b /\ handle'[h] # b

\* The shared_ptr that let a body go was the last.
Ended(b) == body[b] # Free /\ Held(b) /\ ~Held(b)'

\* ~Private(): gpgme releases its object and calls data_release_callback()
\* for it, if there is one.
Settle ==
  LET over == {b \in Body : Ended(b)}
      told == \E b \in over : "release" \in body[b].cbs
  IN /\ body' = [b \in Body |-> IF b \in over THEN Free ELSE body[b]]
     /\ \/ told /\ exists /\ Release /\ UNCHANGED dangling
        \/ told /\ ~exists /\ dangling' = TRUE /\ UNCHANGED vars
        \/ ~told /\ UNCHANGED <<vars, dangling>>

-----------------------------------------------------------------------------
(* The application's handles *)

\* Data(), Data(buffer), Data(filename), Data(fp), Data(fd): gpgme makes its
\* object or fails.
New(h, b) ==
  /\ handle[h] = Static /\ body[b] = Free
  /\ handle' = [handle EXCEPT ![h] = b]
  /\ body' = [body EXCEPT ![b] = Own] \/ body' = [body EXCEPT ![b] = Null]
  /\ UNCHANGED <<vars, inquired, serving, refused, supports, exists, dangling>>

\* The body that Data(DataProvider *) makes.  Where the provider supports it,
\* a seek to the end and one to the start tell gpgme the size.
Provided(b) ==
  \/ /\ body' = [body EXCEPT ![b] = From(supports)]
     /\ \/ "seek" \in supports /\ Seek(0, "SET")
        \/ "seek" \notin supports /\ UNCHANGED vars
  \/ body' = [body EXCEPT ![b] = Null] /\ UNCHANGED vars

NewFromProvider(h, b) ==
  /\ exists /\ handle[h] = Static /\ body[b] = Free
  /\ handle' = [handle EXCEPT ![h] = b]
  /\ Provided(b)
  /\ UNCHANGED <<inquired, serving, refused, supports, exists, dangling>>

\* operator=(): h becomes a copy of g, whatever it was.
Assign(h, g) ==
  /\ handle' = [handle EXCEPT ![h] = handle[g]]
  /\ UNCHANGED <<inquired, serving, refused, supports, exists>>
  /\ Settle

\* A variable goes out of scope or is set to Data::null.
Drop(h) ==
  /\ handle' = [handle EXCEPT ![h] = Static]
  /\ UNCHANGED <<inquired, serving, refused, supports, exists>>
  /\ Settle

-----------------------------------------------------------------------------
(* gpgme's calls *)

\* Bodies that gpgme_data_read() and its like are called for, by methods of
\* Data, by an operation that was given a Data, or for an inquiry.
Used == {b \in Body : body[b] # Free /\ (b = serving \/ \E h \in Handle : handle[h] = b)}

\* gpgme calls the provider back, unless cbs has no function for it.
Callback(op, call) ==
  \E b \in Used :
    /\ body[b].kind = "provider" /\ op \in body[b].cbs
    /\ \/ exists /\ call /\ UNCHANGED dangling
       \/ ~exists /\ dangling' = TRUE /\ UNCHANGED vars
    /\ UNCHANGED <<body, holders, serving, refused, supports, exists>>

DataRead == Callback("read", Nothing \/ ReadEOF \/ \E n \in 1 .. MaxChunk : Read(n))

DataWrite ==
  Callback("write",
    \/ Nothing
    \/ \E data \in Chunks \ {<<>>} : WriteBeyond(data) \/ WriteTooFar(data) \/ WriteWithin(data))

\* data_seek_callback() refuses other values of whence itself.
DataSeek ==
  Callback("seek", \E offset \in Offsets, whence \in Whences : Seek(offset, whence))

\* Without a function, or without an object, gpgme fails with -1.
DataFails ==
  /\ \E b \in Used : body[b].kind = "null" \/ (body[b].kind = "provider" /\ body[b].cbs # Operation)
  /\ Returns(-1, <<>>)
  /\ UNCHANGED <<mArray, mOff, undefined, dataVars>>

-----------------------------------------------------------------------------
(* Inquiries *)

\* Mutant: the Data that inquire() returns ends with the callback.
MutKept(b) == Static

\* lastAssuanInquireData = inquire()
Kept(b) == b

\* assuan_transaction_inquire_callback() with a name: inquire() returns
\* Data::null or a copy of a handle.
InquireCopy(b, err) ==
  /\ serving = Static
  /\ b \in {handle[h] : h \in Handle} \cup {Static}
  /\ inquired' = Kept(b)
  /\ serving' = IF err \/ IsNull(b) THEN Static ELSE b
  /\ refused' = (err /\ ~IsNull(b))
  /\ UNCHANGED <<handle, supports, exists>>
  /\ Settle

\* The same, and inquire() makes the Data from the provider.
InquireNew(b, err) ==
  /\ serving = Static /\ inquired = Static
  /\ exists /\ body[b] = Free
  /\ inquired' = Kept(b)
  /\ Provided(b)
  /\ serving' = IF err \/ body'[b].kind = "null" THEN Static ELSE b
  /\ refused' = err
  /\ UNCHANGED <<handle, supports, exists, dangling>>

\* The same callback without a name: gpgme is done with the data.
InquiryDone ==
  /\ serving # Static
  /\ inquired' = Static
  /\ serving' = Static
  /\ refused' = FALSE
  /\ UNCHANGED <<handle, supports, exists>>
  /\ Settle

\* The owner of the provider, the application or its transaction, destroys it
\* when it has no Data of it any more and gpgme is done with the inquiry.
ProviderGoes ==
  /\ exists /\ serving = Static
  /\ \A h \in Handle, b \in Body : handle[h] = b => body[b].kind # "provider"
  /\ exists' = FALSE
  /\ UNCHANGED <<vars, body, holders, serving, refused, supports, dangling>>

-----------------------------------------------------------------------------
DataInit ==
  /\ Init
  /\ body = [b \in Body |-> Free]
  /\ handle = [h \in Handle |-> Static]
  /\ inquired = Static /\ serving = Static
  /\ refused = FALSE
  /\ supports \in Supports
  /\ exists = TRUE
  /\ dangling = FALSE

DataNext ==
  /\ ~undefined /\ ~dangling
  /\ \/ \E h \in Handle, b \in Body : New(h, b) \/ NewFromProvider(h, b)
     \/ \E h, g \in Handle : Assign(h, g)
     \/ \E h \in Handle : Drop(h)
     \/ DataRead
     \/ DataWrite
     \/ DataSeek
     \/ DataFails
     \/ \E b \in Body \cup {Static}, err \in BOOLEAN : InquireCopy(b, err)
     \/ \E b \in Body, err \in BOOLEAN : InquireNew(b, err)
     \/ InquiryDone
     \/ ProviderGoes

DataSpec == DataInit /\ [][DataNext]_<<vars, dataVars>>

-----------------------------------------------------------------------------
\* The values the variables range over; every handle has a body that lives.
DataTypeOK ==
  /\ TypeOK
  /\ body \in [Body -> {Free, Null, Own, From(supports)}]
  /\ \A h \in Handle : handle[h] \in {b \in Body : body[b] # Free} \cup {Static}
  /\ inquired \in {b \in Body : body[b] # Free} \cup {Static}
  /\ serving \in Body \cup {Static} /\ refused \in BOOLEAN
  /\ supports \in Supports /\ exists \in BOOLEAN /\ dangling \in BOOLEAN

\* What gpgme works with exists: the data of an inquiry lives until gpgme says
\* that it is done, though inquire() returned it by value, and no provider is
\* called after its end.  The exception: Data that inquire() returned along
\* with an error stays in Context, past its provider, until another inquiry
\* comes or the Context goes.
NothingDangles ==
  /\ DataTypeOK
  /\ serving # Static => body[serving] # Free
  /\ \A b \in Body :
       body[b].kind = "provider" /\ ~exists =>
         b = inquired /\ refused /\ \A h \in Handle : handle[h] # b
  /\ dangling => ~exists

\* The provider is told to release its bytes by the last handle of a Data and
\* only by that: they stay as long as any copy has use for them, and are gone
\* with the last one.  Otherwise they go only in a write that fails.
ReleasedByLast ==
  [][\A b \in Body :
       LET was == body[b].kind = "provider" /\ exists
       IN /\ was /\ Ended(b) /\ "release" \in supports => mArray' = <<>>
          /\ was /\ mArray # <<>> /\ mArray' = <<>> =>
               \/ \E c \in Body : body[c].kind = "provider" /\ body'[c] = Free /\ ~Held(c)'
               \/ ret' = -1 /\ mOff >= Size]_<<vars, dataVars>>
=============================================================================
