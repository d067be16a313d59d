# gpgmepp: a verification development in TLA+

gpgmepp (GpgME++) wraps GnuPG's C library gpgme for C++ and Qt. Most of it translates
types; what can go wrong lies in the places where gpgme *calls back*: into a
state machine that plays the human in GnuPG's key-edit dialogue, into data and
passphrase providers, into an event loop that is re-entered, and into objects
whose lifetime an earlier call decided. These modules model those places, TLC
checks them on small instances, and TLAPS proves nearly all of the safety properties, and
the refinements, for all instances.

Paths below are relative to the repository root; `src/` is the library.

## 1. Inventory

| Component | State it keeps | Operations | Hard parts |
|---|---|---|---|
| Edit callback (`src/editinteractor.cpp`) | `state`, `error` per interactor | called by gpgme for each status line; calls `nextState()`, `action()`; writes to gpg's command descriptor | errors from three places, failing and short writes, use of one interactor for several operations |
| Four interactors (`src/gpg*editinteractor.cpp`) | the state number, for signing also two iterators | `nextState()`, `action()` | protocol with gpg: rejected values, optional questions, self-loops, computed states |
| Passphrase callback (`src/callbacks.cpp`) | none between calls | asks a provider, writes, wipes | partial writes, cancellation, wiping on every path |
| Data (`src/data.cpp`) and its callbacks (`src/callbacks.cpp`) | one gpgme object shared by all handles, and the provider behind it | make, copy, drop; read, write, seek, release | who is the last, a provider that ends before its data |
| Byte array provider (`src/qgpgme/dataprovider.cpp`) | array, offset | read, write, seek, release | offsets beyond the end, negative, or wider than `int` |
| Device provider (same file) | the device, `mErrorOccurred` | read with a workaround over `errno`; write, seek, release pass on | end of data or error, stale `errno`, crashed processes |
| Event loop interactor (`src/eventloopinteractor.cpp`, `src/qgpgme/*eventloop*`) | registered callbacks; Qt notifiers, on Windows signal mappers and connections | register, remove, dispatch, events; its own construction and destruction | nested event loops, deferred deletion, descriptors whose number is used again, mappers that several interactors share |
| Context (`src/context.cpp`) | `lastop`, `lasterr`, three owned callback objects, I/O callbacks; settings inside gpgme | some 40 operations in a synchronous and an asynchronous form, listings, results, poll/wait, settings | results and errors of different operations mixed up; objects deleted while gpgme uses them; settings changed behind the application's back |
| Assuan transactions (`src/*assuantransaction.cpp`) | what the agent or the card daemon said | data, inquire, status; getters | lifetime; answers in pieces, escaping, tables of commands |
| Keys (`src/key.cpp`) | shared, reference-counted structures of gpgme | parts by index and by pointer, read, `mergeWith()`, use as signing keys | two counts for one structure, pointers into its lists, changing what copies share |
| Key list results (`src/keylistresult.cpp`) | a shared copy of gpgme's result | copy, `mergeWith()` | copy on write |
| Results of operations (`src/*result.cpp`) | a shared copy of gpgme's structures with the texts in them | make, copy, elements, read | a pointer that is forgotten, freed twice or not at all |
| Trust items (`src/trustitem.cpp`) | a counted reference each | list, copy, drop | counting |
| Configuration (`src/configuration.cpp`) | gpgconf's components, options, arguments | load, set, reset, save | who frees what, pointers into freed components, untyped values |
| Engine information, errors | views of gpgme's structures | read | formatting |
| GLib and Qt glue, build system, manual tests | | | see `PROJECT.json` |

How they interact: an application calls `Context`; `Context` calls gpgme; gpgme,
while it works, calls the edit callback, the passphrase callback, the data
callbacks and the Assuan callbacks, which call the application's objects; for a
managed context gpgme registers descriptors with the event loop interactor,
whose slots call back into gpgme. There are no threads: all concurrency is
nesting, plus the processes at the other end of the pipes.

What makes each part correct, and where it is at risk line by line, is listed
under `hazards` in `PROJECT.json`, each with the property that watches it.

## 2. Plan

1. *(done)* `EditProtocol` -> `EditInteractor` -> `EditSession` -> `Dialogues`
   (with `AddUserID`, `SetOwnerTrust`, `SetExpiryTime`) and `SignKey`: the
   callback, then each interactor composed with it and with a script of gpg.
2. *(done)* `PipeWrite`: the bytes below both callbacks.
3. *(done)* `SeekableFile` (abstract) and `ByteArrayProvider` (implements it);
   `IODeviceProvider`; `DataObjects`, which puts `ByteArrayProvider` behind
   shared handles and an inquiry; `AssuanTransactions`.
4. *(done)* `EventLoop`, `WinEventLoop`.
5. *(done)* `Context`, `ContextSettings`, `Results`.
6. *(done)* `Configuration`; `Keys`, `TrustItems`; `KeyListValue` (abstract) and
   `KeyListResults` (implements it).
7. *(done)* Proofs: `EditInteractorProofs` (the callback, and `SignKey`), `EventLoopProofs`,
   `ContextProofs`, `ConfigurationProofs`, `OwnershipProofs` (keys, trust items, key
   lists), `TransfersProofs`, `DataProofs` (data, and Assuan transactions), `DialoguesProofs`.

Every invariant and action property of the runs that pass is a theorem now. Liveness
stays with TLC (section 5).

## 3. Modules

### EditProtocol, EditInteractor, EditSession, Dialogues and SignKey

`EditProtocol` holds what has no state: status lines, errors
(`Error::operator bool()` is false for a cancellation; `Fails` keeps that,
`StatusToError` is `status_to_error()`), and `Lookup`, the shape that every
`nextState()` of the library has.

`EditInteractor` is `CallbackHelper::edit_interactor_callback_impl()`. `Callback`
has one disjunct per way through the function; `Record` and `Accept` are the
label `error:` with and without an error. The answers of the virtual functions
`nextState()` and `action()` are parameters, and `Spec` lets them be anything:
what holds there holds for every interactor, also one an application derives.
Status lines and errors are names. `prompt` and `reply` say what gpg is waiting
for and what it got.

`EditSession` adds gpg. Its side is data: each interactor's module has `Asks`,
the prompts that gpg prints at its positions, and `Script`, a set of rows that
say where an answer may take it. Several rows for one answer leave the choice
to gpg, so a value can be accepted or rejected, and where gpg takes any text,
any line of the model is accepted: an answer that goes to the wrong prompt is
*not* caught by the script but has to be excluded by the interactor. gpg may
report notices in between, may be killed at any time, and the application may
use the interactor again (`MaxUses`). gpg is external; the scripts are its
menus as far as the interactors use them.

`AddUserID`, `SetOwnerTrust` and `SetExpiryTime` are functions only: the
transition tables (`Table`), the errors for unexpected input (`Rejection`) and
the answers (`Lines`) of their classes. In `SetExpiryTime` the `strcmp()`
without `== 0` is kept: it swaps two error codes. `Dialogues` instantiates the
three and lets the initial state choose which one the application uses, and
with which owner trust. `SignKey` is a module of its own because the interactor
has state of its own, and uses numbers for states because the code computes
with them: `Table` is `makeTable()` with its last assignment for `CONFIRM`,
`Unlisted` the `switch` behind it, `nextId` the iterator that `action()` moves.
`Slots` stands for the 999997 states between `UIDS_LIST_SEPARATELY` and
`UIDS_LIST_SEPARATELY_DONE`; `asksFor` chooses gpg's optional questions.

### PipeWrite

One call of the edit callback's write or of `passphrase_callback()`, one action
per `write()`, which may take fewer bytes than offered or fail. `EditWrite` always
offers the text from its beginning, because `writeAll()` does not advance `buf`;
`PassWrite` does advance. A `write()` that returns 0 for a non-empty offer is
excluded (POSIX does not do that on a pipe; both loops would spin).

### SeekableFile, ByteArrayProvider, IODeviceProvider

`SeekableFile` is what gpgme expects of a data provider: a file with a position,
and with a limit to both. `ByteArrayProvider` has the paths through `read()`, `write()`, `seek()`
and `release()`, several early returns of the same value in one action (`Nothing`);
`ToInt` is the conversion of the `off_t` to `int` with a
configurable width, and `undefined` becomes true where an assertion fails or
memory outside the array would be touched. An array has as many bytes as an `int`
counts at most. `WriteTooFar` is a write at its end that goes beyond: `resize()` gets the
size that an `int` makes of it (`Resized`; no bytes for a negative one), the offset is not
reached, and `write()` returns -1 although contents may be gone. `IsFile` is the refinement
(`INSTANCE SeekableFile WITH content <- mArray, pos <- mOff, result <- out, returned <- ret,
Limit <- Half - 1`): as long as nothing is undefined, each step is a step of the file and returns
what that returns. The file states the two things that the limit costs: a write beyond it fails and may lose the
contents (`SeekableFile!WriteTooFar`), and a position beyond it wraps (`Position`), which `seek()`
tells its caller. Not modelled is that memory runs out before an `int` does: Qt throws then.

`IODeviceProvider` is `QIODeviceDataProvider::read()` between a device and gpgme.
Devices (external) are processes, files and sockets; they end normally, crash,
break with an `errno`, or go silent without. `HasSystemError` is what
`Error::hasSystemError()` computes: true when `errno` is 0. `errno` belongs to the thread: `read()`
does not reset it, and between two reads (`Meanwhile`) the other calls of gpgme and of the
application make of it what they like.

### DataObjects, AssuanTransactions

`DataObjects` extends `ByteArrayProvider` with what stands between it and an
application: `handle` are variables of type `Data`, `body` the `Data::Private` objects they
share, each null, with bytes of gpgme's own, or with a provider and the callbacks
that it supports. gpgme calls the provider through the four functions of
`callbacks.cpp` (`DataRead`, `DataWrite`, `DataSeek`, `Ended`); an operation that a
provider lacks fails without a call (`DataFails`). `inquired` is
`Context::Private::lastAssuanInquireData`, `serving` what gpgme sends from: the data of an
inquiry is returned by value and must outlive the callback. The application may delete
the provider when no handle of its own refers to it any more.

`AssuanTransactions` is what the three classes make of an answer. A server
(external) sends data in pieces of any size and status lines, escaped or not;
`Unescape` is `percent_unescape()` on bytes, with the in-place loop written as a
function of the position; `Args` is what `status()` gets of it, which ends before the first zero
byte because it is handed over by `c_str()`. `ScdTokens`, `ScdItems`, `AgentTokens` and `AgentItems` are
the enumerations and the tables of commands they index. The
getters are functions of `mData`; a transaction may be used again and may break off.
`Split` is `boost::split()` with neighbouring newlines taken for one, `Tagged` the loop of
`statusLine()`; both are functions of how much of the text or list is read. That
readers have names (`AssuanAssumption`) is what the list needs to be read back: an empty
one would vanish between two newlines.

### EventLoop

`EventLoopInteractor` with its Unix implementation. `callbacks` is `mCallbacks`,
`watcher` the `QSocketNotifier`s, `slots` the stack of running slots with their
`QDisabler`s, `inLoop` whether control is in an event loop. `Activate` is
`slotReadActivity()`/`slotWriteActivity()` up to the call of gpgme's function, `Return`
the destructor of `QDisabler`. In between gpgme and the application may do
anything they can do: register and remove descriptors of any context, start
operations, run a nested loop. `deleteLater()` is kept with Qt's rule that a
loop nested deeper than the call does not delete. gpgme does not register the
same descriptor and direction twice at the same time; the kernel reuses numbers,
so a notifier that waits for its deletion can share its channel with a new one.

### WinEventLoop

On Windows a descriptor stands for a `QIODevice`. `connected` are the devices whose signal
is connected to a `QSignalMapper`, `mapping` the entries of the mappers, `target` the
interactor that a mapper's signal was connected to when it was set up: all are
static and outlive interactors. `queued` are calls posted by `invokeMethod()`.
`mCallbacks` holds `OneFD` objects with their addresses, and gpgme holds `tags`; `Destruct` drops
the vector but not what it points to, so `used` keeps the addresses. `FirstFor` is the search in
`actOn()`.

### Context

One context. `ListMethods` ... `VFSMethods` list the methods that start an
operation, group by group as in the source, with the bits of
`Private::Operation` that they assign to `lastop`. Otherwise they share a shape:
`Call` is the synchronous form of any of them, `Start` the asynchronous one.
The `#ifdef` branches for a gpgme that lacks an operation are left out. `held` are the three `auto_ptr`s, `alive` the objects that
exist, `callee` the object gpgme was given. gpgme (external) drops the operation
in progress when a new one starts, keeps the last results (`data`), and reports
the end in `gpgme_wait()` or, for a managed context, in the event. `outcome` and
`disturbed` are history variables for the properties. `wait()` is only called
for an operation in progress.

### ContextSettings, Results

`ContextSettings` is a context between its operations: made for a protocol or an
engine (`orphans` are gpgme contexts that were made and lost), the settings gpgme keeps
for it, and the keys it is given. `asked` remembers what the application asked for
last. `job` is the operation that was given keys: the keys themselves, whom gpgme takes them
for (`to`), and what an empty list means to it. `importKeys()` is in two steps where gpgme cannot
import keys: `ImportByExport` sets the mode and exports, `Exported` sets it back and
imports; in between callbacks run, and the application may change any setting.

`Results` has one table per class that says what becomes of each pointer of
gpgme's structures when a `Private` is made: duplicated, copied into the structure itself, or left
pointing to gpgme's memory (`...Copies`), which of them the destructor frees
(`...Frees`), and which the accessors return (`...Reads`). `heap` is the set of
duplicated texts; an `Operate` is the next operation of the context, after which gpgme's own
result is gone. A signature's notations and policy URLs are in vectors beside
the signatures, and `Named`, `URLs` and `NotationOf` keep their indices as the code does.

### Keys, TrustItems, KeyListResults

In `Keys`, `refs` is gpgme's count in each structure and `block` the control
blocks of `shared_ptr`s: a `Key` that is made from a plain pointer starts a block of its
own, with or without a reference of its own (`Adopt`, `Share`), and the last handle
or part of a block gives one reference back. A part (`View`) holds the block of its key
and a position in the key's lists. It is made by index or from a pointer, which may be one of another key; the
second way looks the pointer up (`Find`, `Verify`). `MergeWith` changes
the structure in place. `listed` and `seen` remember what gpgme said of a key, so that
`MergedFromSameKey` can tell where a flag came from. `TrustItems` is the same with
one count per object and no blocks. `KeyListResults` has the shared copies, `KeyListValue` what callers expect:
variables with values. As a new result may say anything, the steps of `KeyListValue` only tell that no other
variable changes; which value a merge gives is the second part of `IsValue`, `MergesByValue`.

### Configuration

`Load` to `LoadReturns` are the loop of `Component::load()`. `head` and `next` are its
`shared_ptr`s, `link` the list inside gpgme's structures; each allocation may fail,
which ends in `Unwind`. gpgme frees a component with all that follow it (`Chain`), and
`freed` counts how often that reached a component. After it, the application keeps or drops
components, makes, copies, reads and destroys `Argument` objects (`args`), and reads, sets, resets
and saves options. Memory is a set of cells, because what matters is who owns which;
a list of values is one value, and the types are two, pointers and numbers. `Expired` is the weak
pointer that most functions ask first. Reading a freed option or taking a number for
a pointer is undefined; the model records it (`stale`, `confused`) and goes on.
`gpgme_conf_opt_change()` and what gpgconf writes are external.

### Compositions

Where parts share state, a module composes them: `EditSession` (callback,
interactor, gpg), `DataObjects` (handles, gpgme, an inquiry, a provider), `Context` (its
callback objects and the event loop's events), `ContextSettings` (settings around an operation with keys).
`MCTransfers`, `MCData`, `MCEventLoop`, `MCContext` and `MCOwnership` put parts
that share no state into one instance: an initial choice (`subject`, `system`, or which
part moves first) says what a behaviour is about, so that the run is the union of
its parts and not their product.

## 4. Runs

| Run | Instance | What it shows |
|---|---|---|
| `dialogues` | three interactors, six trust values, two uses; gpg may reject, be killed, report notices | answers reach the prompts they were meant for and what is saved is what was asked, no part of an answer is left behind by a live operation, a refused value is not repeated, the dialogue ends |
| `sign_key` | up to 3 user IDs, 2 slots for them, every subset of the optional questions, two uses | state and iterator in step, also when there are more user IDs than slots; nothing is signed before the selection is complete; the complete list of places where gpg is left waiting; no dialogue goes round in circles |
| `sign_key_signers` | the same, one use | *violation*, see below |
| `transfers` | texts of up to 3 bytes over 2 values; devices of 3 kinds with 6 units of data | both write loops under every split and failure; truncated reads only after a swallowed error; complete data is reported as an error in one case only; reading a process ends |
| `pipe_write_short`, `byte_array_rewrite`, `io_device_spins` | | *violations* |
| `data` | 2 handles, 2 bodies, a provider that seeks and one that does not, up to 3 bytes over 2 values, calls of up to 2, a 3-bit int; 2 status lines, 2 readers, 2 operations | what gpgme works with exists, the provider is released by the last handle and implements a seekable file, with an int's limit; a transaction answers what the server said |
| `event_loop` | Unix: 3 notifiers, 2 channels, 2 contexts, 3 nested slots; Windows: 2 interactors, 2 descriptors, 4 callbacks; symmetric | correspondence, no lost wake-up, no re-entry; tags stay valid, and which callbacks no signal reaches |
| `context` | 9 methods (every shape), 2 objects, 5 errors; 9 kinds of results with lists of up to 2, 2 addresses and variables, an element; 3 engines, lists of up to 2 of 4 keys | objects outlive the operation, errors and results belong to it; results own what they return and free it once; settings are what was asked last; gpgme gets the keys of all that were named and nobody else's |
| `configuration` | 3 components, an option of each type, 2 arguments, 3 cells; symmetric | components and values have one owner and are freed once, what reads freed memory or the wrong type is completely listed, a save writes what `currentValue()` showed |
| `ownership` | 2 structures, 3 control blocks, 2 keys, a part, 3 certificates; 2 trust items and 2 objects; 3 key list results over 4 cells | gpgme's counts are those of the objects; parts point into their own key; merged flags come from the same key; key list results are values, and merges give the merged ones |

Bounds. The tables of the interactors are not scaled: only the number of uses (2:
one to leave a trace, one to meet it) and, for signing, of user IDs and slots
(3 against 2: below, at and above the limit). Three bytes allow two short
writes in a row. A 3-bit int counts up to three bytes, which is room for a gap with data before and after it,
and a write of two bytes, or a seek to 7, goes beyond it.
Status lines are empty, plain, and with each of the bytes that escaping is about, a zero byte among them. Two status lines are enough to be mixed up, two operations to leave an
answer behind. Two
contexts and two channels are needed for a descriptor to be reused by another
operation while a slot of the first is active, three notifiers for the doomed
one, its successor and a bystander, three slots for a loop in a loop; on Windows, the second
interactor meets what the first left in the mappers, and four callbacks let a descriptor be
registered twice in each life. Two objects are
enough for one to replace the other; two addresses of results for one to be
freed and used again while the other lives; a list of two for an index that is off by one; a signature's notations are a
policy URL, a named one and another policy URL, in that order. Two structures let a key
be merged with another one and freed, three blocks let two own the same structure; the certificates are a public key, its
secret half on a card, and the same key without a fingerprint. Three components
make a list that has followers when it is cut and when the second one is; three cells hold two Arguments
and the new value of an option, and memory that runs out is a step of its own. `MaxDepth`, `MaxUses`, `MaxLen`,
`MaxChunk`, `MaxLines`, `MaxElems`, `MaxKeys`, `MaxNotations`, `MaxSigners`, `MaxInteractors` and `MaxCallbacks` are the only bounds
in guards; `MCContext` also keeps `KindsInUse`, one kind of results at a time.

Deadlock is not checked where the system stops by itself (a dialogue, a transfer
that has finished, a `load()` that failed, keys of which all addresses are in use, data whose provider
broke an assertion). `event_loop`
and `context` are checked for it.

Fairness. The dialogues assume weak fairness of gpg's next question, of its
reading a line that is there, and of its exit: gpg and gpgme are processes that
run. Nothing is assumed of notices, kills or reuse. `transfers` assumes
that gpgme keeps reading, which is its loop, and that a device comes to an end.
The safety properties assume none.

### Disagreements between the code and what it says

* `writeAll()` does not advance its buffer: after a short write gpg gets the
  beginning of the answer twice and the callback reports success.
* `QByteArrayDataProvider::write()` asserts that data written from within the
  array ends within it.
* `Error::hasSystemError()` is inverted. The workaround in
  `QIODeviceDataProvider::read()` thus does nothing in the case it is for, and
  turns the error of a crashed process into the end of its data. It also leaves gpgme
  without an `errno` at the end of complete data: gpgme reads again, and if `errno` has
  changed in between, the second -1 is reported as `EIO` (`src/qgpgme/dataprovider.cpp:215`;
  `CleanEndIsComplete`).
* In `GpgSignKeyEditInteractor`, the entries from `CONFIRM` to `CONFIRM` give no
  answer, since the callback acts on a change of state only.

`PROJECT.json` quotes the lines. More became visible while modelling and
have no run of their own; the properties name those they concern as exceptions.

Dialogues and contexts:

* A sign-key interactor that is used again after its listing was complete runs
  past the end of its user IDs: nothing rewinds `nextId`
  (`src/gpgsignkeyeditinteractor.cpp:102`; `StateCountsUserIDs`).
* `CONFIRM` with `keyedit.prompt` has two entries in `makeTable()`; only the
  second one counts. With the first one the dialogue would not end (`Settles`).
* A null Assuan transaction replaces the one that is in use before it is
  refused: `assert(t)` in the inquire callback fails, and the callbacks for data and
  status lines use the deleted one (`src/context.cpp:855`, `:887`; `CalleeExists`).
* `createForProtocol()` and `createForEngine()` leak gpgme's context for an
  argument they do not know (`src/context.cpp:241`; `orphans`).
* `engineInfo()` of a context returns the first engine of the list, so setting the
  file name for another protocol sets its home directory to the first one's, and
  the other way round (`src/context.cpp:491`; `SettingsKept`).
* `importKeys()` by export: a key list mode that a callback sets meanwhile is lost
  (`SettingsKept`); a key with an empty fingerprint is left out even if it has a key ID, and if no key
  has a name everybody's keys are exported (`src/context.cpp:661`; `KeysGiven`).
* `signAndEncrypt()` ignores `NoEncryptTo` with a gpgme that lacks it, where
  `encrypt()` reports that (`KeysGiven`).
* `createVFS()` and `mountVFS()` leave the operation's error uninitialised when
  gpgme does not set it (`src/context.cpp:1332`).

Data, results, keys:

* A write to `QByteArrayDataProvider` that would make the array longer than an `int` counts may
  drop its contents before it fails (`src/qgpgme/dataprovider.cpp:97`; `IsFile`, `ReleasedByLast`).
* The unescaped arguments of a status line are cut at an escaped zero byte
  (`src/context.cpp:874`; `StatusAsMeant`).
* Data that `inquire()` returns together with an error is kept until the next
  inquiry, past the end of its provider (`src/context.cpp:856`; `NothingDangles`).
* Of several notations without a name all but the last policy URL leak, and
  `VerificationResult` takes the last for the policy URL, `UserID::Signature`
  and `Context` the first (`src/verificationresult.cpp:78`; `FreedWithResult`).
* `Key::mergeWith()` hands null fingerprints of subkeys to `strcmp()`
  (`src/key.cpp:316`; `MergedFromSameKey`).
* A trust item from `nextTrustItem()` is never freed: its object counts a second
  reference (`src/context.cpp:834`; `CountsBalanced`). Items from events, which
  gpgme goes on to use, are counted right.

Event loop on Windows (`DeafIsKnown`):

* Removing one of two callbacks of a descriptor disconnects both, and the
  mapping stays, so that a later registration does not connect again.
* The mappers are connected to the first interactor only.
* `actOn()` calls the first callback that matches, while the comment at
  `src/qgpgme/eventloopinteractor_win.cpp:68` says that gpgme expects the new one.
* `~EventLoopInteractor()` leaks the `OneFD` objects; that is why old tags never
  meet new callbacks (`TagsStayValid`).

Configuration:

* When `next.reset()` runs out of memory in `Component::load()`, the following
  components are freed twice: `head` is not cut from them yet
  (`src/configuration.cpp:91`; `FreedOnce`).
* The destructor and the copy constructor of `Argument` read the option of a
  component that may be gone (`src/configuration.cpp:829`, `:840`; `StaleAccessKnown`).
* The list functions do not compare types, and neither does `setNewValue()`
  (`src/configuration.cpp:591`; `TypesMatch`).
* The list functions do not ask for a null `Option` either; such an `Argument` is freed as one
  without a type, so strings leak (`src/configuration.cpp:767`; not modelled, section 6).
* `activeValue()` is documented as the value in the configuration file
  (`src/configuration.h:196`); after a `save()` it is the one from before.

## 5. Proofs

Each module below EXTENDS the modules it is about. Every proof has the same outline: an invariant
that is strong enough to be inductive, one lemma for each action or group of actions that
preserves it, and a theorem for each property that follows from it. TLC checked each
strengthened invariant on the run's instance before it was proved. The
assumptions on constants are named (`...Assumption`) in the modules that
declare them, and TLC evaluates them in the runs.

**EditInteractorProofs**, the callback: what it guarantees for every interactor, the ones an
application derives included (its `Spec` lets `nextState()` and `action()` answer anything),
and for all sets of states, inputs, lines and errors; `dialogues` checks `WholeAnswers`
with the library's own interactors. Assumptions: `InteractorAssumption`
(the start and error states are different states, the errors the library names
are errors, the markers for "nothing" are no lines or inputs). The invariant
`IInv` is the conjunction of the type invariant and the two state properties; the
weight is in `CallbackOutcome`, one lemma about one call, split along the paths of the
function. `CallbackError` says what a step does to the error, from which
`StickyError` follows.

The same module, `SignKey`: the three invariants of `sign_key`, for lists of any length, any number
of states for them and any number of uses, and that the interactor in its
dialogue implements `Spec` (`SignKeyInteracts`), so that the theorems about every
interactor hold of it. Assumptions: `SlotsAssumption`, `SessionAssumption` and
`SignAssumption` (states are numbers up to `ERROR`; what only notifies asks nothing; no line that selects a
user ID is `sign` or `quit`, because the code selects by number). `TableRows` and `NextStateAnswers` say what
`nextState()` can answer, `HearsOutcome` what a status line does to a dialogue.
`SInv` holds in every use: a prompt that gpg waits at is that of its position and
fits the state (`Fits`), gpg asks optional questions only if it has them (`Reached`), and after a
confirmation asks about the signature again only for a reason (`Confirmed`); the
places where gpg hangs follow. `FirstRun` ties state, iterator and what gpg was
told together: no user ID is selected before the listing, all those before the
current one while it lasts, and all of them after it unless the states ran out. It holds
of the first use only: nothing rewinds the iterator for a second one (section 4).

**EventLoopProofs** proves the types and the three invariants of `event_loop` on Unix, for any number of
notifiers, channels, contexts and nested slots. Assumption:
`EventLoopAssumption` (the null pointer is no notifier, `MaxDepth` is a natural number).
None of the properties is inductive alone: that no wake-up is lost needs that an active
slot's notifier is disabled and restored to *enabled* exactly if the callback is
still there, which needs the correspondence of callbacks and notifiers, which
needs the types. The strengthening `ActiveSlots` says what `QDisabler` relies on: each
notifier is the `o` of at most one slot, it is disabled while it is, and
`wasEnabled` is true. One lemma per group of actions shows that the
conjunction is preserved. On Windows `WInv` adds `Tagged` (an address is in use until its own
tag comes back, so a tag of gpgme's is never that of another callback) and `Wired` (a
descriptor that a mapper knows is connected or was dropped, and the first
interactor keeps its mappers), from which `TagsStayValid` and `DeafIsKnown` follow.
`OnEitherSystem` is about the composition that the run checks.

**ContextProofs** proves the types of `Context` and the three invariants of its operations, for any set of methods,
objects and errors. Assumption: `ContextAssumption` (the null pointer is no object, idle no
method). Three facts make them inductive: `CalleeHeld` (what gpgme calls back is
the object held for the operation in progress, or a null transaction has replaced
it), `OperationNoted` (`lastop` are the bits of that operation) and `ErrorNoted`.
`NotesCoverResults` is the lemma about the table: each method notes every bit of
which gpgme keeps a result.

Settings and keys, for any modes, engines and keys of any shape and number. Assumption: `SettingsAssumption` (of
note: `none` is no listing mode, the null key is nobody's). `Asked` says what an export remembers: the mode to set
back is the one asked for, and an export is in progress only while there is a context. `Told` says when a job
tells the truth about its keys; each method that takes keys is shown to make such a job.

Results, for any results, copies, elements, notations. Assumption: `ResultsAssumption`.
Most of it is about the tables: `Consistent` says of each kind of result that what is duplicated is
freed and the rest is not, and what is returned is not left with gpgme. `RInv` adds that every Private is a copy of a result of
gpgme's, its texts are those that were duplicated for it, and an element refers to a
list that its result has. `ContextKeepsAll` puts the three together.

**ConfigurationProofs** proves the five properties of `configuration`, for any components, options, `Argument`s
and cells, and memory that runs out anywhere. Assumption: `ConfigurationAssumption`.
Components: `Loading` says at each place of `load()` that the components before `head` are alone and
owned by the vector and the rest is still linked, from which `OneOwnerEach` counts who frees
what. Values: a cell is in use exactly while one `Argument` or option has
it (`CellsHeld`, `NotShared`), and has the option's type unless types were mixed up
(`Typed`). That a save writes what `currentValue()` showed is a property of steps.

**OwnershipProofs** proves the counts of `Keys` and its two other invariants, for any structures, control blocks and variables
and whatever gpgme lists. Assumption: `KeysAssumption` (control blocks are finitely many). Counts first:
every operation moves variables between control blocks or makes one for a reference that is
counted already, and what loses its last owner is given back (`AssignBalances`). So what a variable still
owns stays where it is, and parts keep pointing into their key. A merge keeps the shape of a structure
(`MergedKeepsShape`), so what it adds is traced back, over any chain of merges, to keys with the same primary
fingerprint.

The same module counts trust items in the same way (`TrustAssumption`: finitely many variables), puts both counts together
for `CountsBalanced`, and shows that `KeyListResults` implements `KeyListValue`: a step that writes writes
to a cell that only its variable has (`DetachIsOwn`), so it changes one abstract value
(`OneEntryChanges`). Assumption: `KeyListAssumption` (the allocator finds a free cell). `MergesAreByValue` is
the action property of what `mergeWith()` gives, also where a result is merged with itself.

**TransfersProofs** proves the five safety properties of `transfers`, for texts of any length and data of any size, however writes and reads
are split and whenever they fail. Assumptions: `ByteAssumption`, `DeviceAssumption`. `WInv` ties what the pipe
has received to the place in the callback: only its length under the edit callback, because `writeAll()`
offers the text from its beginning again, its content under the passphrase callback. `DInv` ties what was read and what is left
to how the device is, and says where `mErrorOccurred` comes from.
It says nothing of `errno`, which may change between two reads; therefore `CleanEndIsComplete` is a property of
the read that ends the transfer (`LastRead`), which finds the last result in `rc`.

**DataProofs** proves that no Data is used after its end, that the last handle releases the provider, and
that `QByteArrayDataProvider` behind any number of handles implements `SeekableFile`, for any offsets, chunk and width
of `int`. Assumptions: `ProviderAssumption` (there is a byte of zeros, an `int` has bits, and the offsets include the
start), `DataAssumption`. One lemma per call shows that it is one of the file: `WrittenServes` for writes within the
limit, `WriteTooFarServes` beyond it, `ToIntIsInt` for where a seek goes.
`Owned` says that what lives has a handle or is the one of an inquiry, and that gpgme reads that one or it came with
an error; `Orphaned`, that a provider that is gone is that of refused data at most.

The same module, Assuan transactions: `StatusAsMeant` and `AnswerIsReply`, for any texts, tags and
readers (`AssuanAssumption`). Both are about what recursive functions compute over a
text, and the library's induction theorems cannot be used with a property as their parameter; so
induction is proved for sets: every set of numbers has a least one (`SmallestOf`, from the
well-foundedness of finite subsets), hence one that has 0 and every successor has them all
(`NumbersByInduction`). `StepwiseFunction` gives the functions that recursion defines, and
`TaggedUnfolds`, `FlattenUnfolds`, `UnescapeUnfolds` and `SplitUnfolds` that they satisfy their
equations. `UnescapeOfEscape` says that `percent_unescape()` undoes the server's escaping with small
and with capital digits, from the places where reading goes on (`ReadFromPlaces`); `UnescapeOfPlain`, that a
text without `+` and `%` passes as it is; `CStringIsText`, that a text ends before its first zero byte and what
is left has none. `SplitOfListing` says that of names with a newline after
each come the names and one empty token; `FrontOfListing`, that an answer cut anywhere behind a newline
holds complete names. `StatusInv` compares what is kept with what was sent line by line, `AnswerInv`
says that what is received and what is to come are together the server's reply.
`DataAndTransactions` is about the composition that the run checks.

**DialoguesProofs** proves `DoesWhatIsAsked` and `RefusedValueAborts`, and that the three interactors in their
dialogues implement `Spec` (`DialoguesInteract`), so that the theorems about every
interactor hold of them, `WholeAnswers` among them. They hold for every owner trust, any number of uses, and
whatever gpg rejects and whichever writes fail. Assumptions: those of the callback and `DialogueAssumption`, which
says what the tables take for granted: their states, errors, lines and gpg's positions are among the constants of that
name (there may be more of each), the questions are status lines and the notices are none, and the commands are the
three that the interactors give. The tables are finite; what is not is the number of uses, the notices in between, and
where a dialogue breaks off. `TableFits` says that a row leads to the state whose line gpg is asking for and that this
line comes next, `ScriptFits` where gpg goes on with a line and that it changes the key only with the last value.
`DInv` says that while a dialogue is without error gpg has been told exactly the lines of the states passed
(`Begun`, `Giving`, `Ending`), that gpg waits for the line of the current state (`Waits`), that the command is
not given before its prompt, and that whatever is modified or saved was told all values. `DoesWhatIsAsked` alone is not inductive:
without the agreement of state and position a step could give a right line at the wrong prompt. `NoSecondOffer`
follows from it: a line for the place where gpg already took one would be that of a state passed, and no row
leads to the same place twice.

Only model-checked: liveness (`Terminates`, `Settles`, `ProcessReaderStops`), which takes fairness and
is outside what the prover does.

## 6. Not modelled

Conversions of single fields to enumerations, texts and `operator<<`, of which `key.cpp`,
`importresult.cpp` and `verificationresult.cpp` mostly consist: they have no state,
and nothing but wording depends on them. `Error` but for the two functions that
decide control. Settings that `Context` only passes on (certificates to include, locale, providers), and the
tables of features. `write()`, `seek()` and `release()` of the device provider, which pass the call on. The
`#else` branches for a gpgme without an operation return "not implemented"; the modules
read the code with what the build's `HAVE_` macros name as present, with exceptions where a
constant says so (`HasImportKeys`, `HasNoEncryptTo`). The null `Option`, for which every function but
the list functions returns early. Case in the comparison of fingerprints. The
GLib and Qt glue hands out pointers that gpgme stores for a descriptor. The build
system and the manual tests have no behaviour of the library. gpg, gpgme, Qt and the
kernel are external and modelled by what the code relies on.
