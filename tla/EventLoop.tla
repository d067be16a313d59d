----------------------------- MODULE EventLoop -----------------------------
(***************************************************************************)
(* GpgME::EventLoopInteractor and its Unix implementation in QGpgME: how   *)
(* the descriptors of gpgme's asynchronous operations are watched by Qt's  *)
(* event loop.                                                             *)
(*                                                                         *)
(* Everything runs in one thread.  Concurrency comes from nesting: a slot  *)
(* calls into gpgme, gpgme calls the application (a passphrase dialog, a   *)
(* slot connected to operationDoneEventSignal), and the application runs   *)
(* an event loop of its own, in which the other notifiers fire.  The stack *)
(* of active slots is therefore part of the state.                         *)
(*                                                                         *)
(* gpgme (which descriptors an operation opens and closes, when it is      *)
(* done) and Qt (notifiers, deferred deletion) are modelled by what this   *)
(* code relies on.                                                         *)
(***************************************************************************)
EXTENDS Naturals, Sequences

CONSTANTS
  Watcher,   \* QSocketNotifier objects that may exist at the same time
  Channel,   \* (file descriptor, direction) pairs the kernel hands out
  Ctx,       \* contexts managed by the interactor
  NoWatcher, \* a null pointer
  MaxDepth   \* bound: slots active at the same time

ASSUME EventLoopAssumption ==
  /\ NoWatcher \notin Watcher
  /\ MaxDepth \in Nat

VARIABLES
  callbacks, \* EventLoopInteractor::Private::mCallbacks
  watcher,   \* the notifiers that exist: a function of some of Watcher
  slots,     \* the active slots, innermost last, each with its QDisabler
  inLoop,    \* control is in an event loop, not in the innermost slot
  op         \* the contexts with an operation in progress

vars == <<callbacks, watcher, slots, inLoop, op>>

\* OneFD; its tag is what registerWatcher() returned.
Callback == [tag : Watcher, chan : Channel, ctx : Ctx]

\* doomed is 0 until deleteLater(), then the number of the innermost loop that
\* may delete the notifier.
Notifier == [chan : Channel, enabled : BOOLEAN, doomed : 0 .. MaxDepth + 1]

\* QDisabler's o and wasEnabled, and the callback that actOn() is running: the
\* tag of its OneFD, or NoWatcher if there is none (any more).
Slot == [o : Watcher \cup {NoWatcher}, wasEnabled : BOOLEAN,
         runs : Watcher \cup {NoWatcher}]

-----------------------------------------------------------------------------
live == DOMAIN watcher

Matching(chan) == {cb \in callbacks : cb.chan = chan}

\* Code of the application and of gpgme runs in the innermost slot or, when it
\* is called by an event loop for another reason, one level further in.
Level == IF inLoop THEN Len(slots) + 1 ELSE Len(slots)

\* registerIOCb() with registerWatcher(): gpgme opens a descriptor for an
\* operation.  No two callbacks watch the same descriptor and direction.
Register(c, chan) ==
  /\ c \in op
  /\ Matching(chan) = {}
  /\ \E w \in Watcher \ live :
       /\ watcher' = [x \in live \cup {w} |->
                       IF x = w
                       THEN [chan |-> chan, enabled |-> TRUE, doomed |-> 0]
                       ELSE watcher[x]]
       /\ callbacks' = callbacks \cup {[tag |-> w, chan |-> chan, ctx |-> c]}
  /\ UNCHANGED <<slots, inLoop, op>>

\* Mutant: the callback goes, its notifier stays.
MutRemove(cb) ==
  /\ callbacks' = callbacks \ {cb}
  /\ UNCHANGED <<watcher, slots, inLoop, op>>

\* removeIOCb() with unregisterWatcher(): gpgme closes a descriptor, at the
\* end of its data, or because the operation failed or was cancelled.
Remove(cb) ==
  /\ callbacks' = callbacks \ {cb}
  /\ watcher' = [watcher EXCEPT ![cb.tag].doomed = Level]
  /\ slots' = [i \in DOMAIN slots |->
                 IF slots[i].runs = cb.tag
                 THEN [slots[i] EXCEPT !.runs = NoWatcher]
                 ELSE slots[i]]
  /\ UNCHANGED <<inLoop, op>>

\* An event loop deletes a notifier; the QPointers to it become null.  A loop
\* that is nested deeper than the call of deleteLater() does not.
Delete(w) ==
  /\ inLoop
  /\ watcher[w].doomed > Len(slots)
  /\ watcher' = [x \in live \ {w} |-> watcher[x]]
  /\ slots' = [i \in DOMAIN slots |->
                 IF slots[i].o = w THEN [slots[i] EXCEPT !.o = NoWatcher]
                 ELSE slots[i]]
  /\ UNCHANGED <<callbacks, inLoop, op>>

-----------------------------------------------------------------------------
\* Mutant: QDisabler asks for the state after it has disabled the notifier.
MutDisabler(w, tag) == [o |-> w, wasEnabled |-> FALSE, runs |-> tag]

\* What QDisabler remembers: the state of the notifier before it disables it.
Disabler(w, tag) ==
  [o |-> w, wasEnabled |-> watcher[w].enabled, runs |-> tag]

\* Mutant: the slots have no QDisabler.
MutDisabled(w) == watcher

\* QDisabler::QDisabler() disables the notifier.
Disabled(w) == [watcher EXCEPT ![w].enabled = FALSE]

\* What actOn() calls for the channel.
Called(chan) ==
  IF Matching(chan) = {} THEN {NoWatcher} ELSE {cb.tag : cb \in Matching(chan)}

\* Qt activates a notifier: slotReadActivity() or slotWriteActivity(), with
\* QDisabler::QDisabler() and actOn() up to the call of the callback.
Activate(w) ==
  /\ inLoop
  /\ watcher[w].enabled
  /\ Len(slots) < MaxDepth
  /\ \E tag \in Called(watcher[w].chan) :
       slots' = Append(slots, Disabler(w, tag))
  /\ watcher' = Disabled(w)
  /\ inLoop' = FALSE
  /\ UNCHANGED <<callbacks, op>>

\* QDisabler::~QDisabler(), through its QPointer.
Restored(slot) ==
  IF slot.o = NoWatcher THEN watcher
  ELSE [watcher EXCEPT ![slot.o].enabled = slot.wasEnabled]

\* The innermost slot returns to the loop that called it.
Return ==
  /\ ~inLoop
  /\ watcher' = Restored(slots[Len(slots)])
  /\ slots' = SubSeq(slots, 1, Len(slots) - 1)
  /\ inLoop' = TRUE
  /\ UNCHANGED <<callbacks, op>>

\* The application, called from a slot, runs an event loop ...
Nest ==
  /\ ~inLoop
  /\ inLoop' = TRUE
  /\ UNCHANGED <<callbacks, watcher, slots, op>>

\* ... and ends it.
Unnest ==
  /\ inLoop
  /\ slots # <<>>
  /\ inLoop' = FALSE
  /\ UNCHANGED <<callbacks, watcher, slots, op>>

-----------------------------------------------------------------------------
\* gpgme accepts an operation that some code of the application starts.
Start(c) ==
  /\ c \notin op
  /\ op' = op \cup {c}
  /\ UNCHANGED <<callbacks, watcher, slots, inLoop>>

\* gpgme reports the end of an operation when it has closed its descriptors.
Done(c) ==
  /\ c \in op
  /\ \A cb \in callbacks : cb.ctx # c
  /\ op' = op \ {c}
  /\ UNCHANGED <<callbacks, watcher, slots, inLoop>>

Init ==
  /\ callbacks = {}
  /\ watcher = << >>
  /\ slots = << >>
  /\ inLoop = TRUE
  /\ op = {}

Next ==
  \/ \E c \in Ctx, chan \in Channel : Register(c, chan)
  \/ \E cb \in callbacks : Remove(cb)
  \/ \E w \in live : Delete(w)
  \/ \E w \in live : Activate(w)
  \/ Return
  \/ Nest
  \/ Unnest
  \/ \E c \in Ctx : Start(c)
  \/ \E c \in Ctx : Done(c)

Spec == Init /\ [][Next]_vars

-----------------------------------------------------------------------------
\* The values the variables range over.  A QDisabler never points to a
\* notifier that was deleted under it, so its destructor is safe.
TypeOK ==
  /\ callbacks \subseteq Callback
  /\ live \subseteq Watcher
  /\ watcher \in [live -> Notifier]
  /\ slots \in Seq(Slot)
  /\ Len(slots) <= MaxDepth
  /\ \A i \in DOMAIN slots : slots[i].o \in live \cup {NoWatcher}
  /\ inLoop \in BOOLEAN
  /\ ~inLoop => slots # << >>
  /\ op \subseteq Ctx

\* mCallbacks and the notifiers correspond, in any nesting: a callback has a
\* notifier of its own that is there and not about to go, and a notifier
\* without a callback is on its way out.  Neither leaks, neither dangles.
WatcherPerCallback ==
  /\ \A cb \in callbacks :
       /\ cb.tag \in live
       /\ watcher[cb.tag].chan = cb.chan
       /\ watcher[cb.tag].doomed = 0
  /\ \A cb1, cb2 \in callbacks :
       cb1.tag = cb2.tag \/ cb1.chan = cb2.chan => cb1 = cb2
  /\ \A w \in live : watcher[w].doomed = 0 => \E cb \in callbacks : cb.tag = w

\* No wake-up is lost: the notifier of a registered callback is enabled unless
\* its own slot is still running, whatever happened in the nested loops.
EnabledUnlessRunning ==
  \A cb \in callbacks :
    watcher[cb.tag].enabled \/ \E i \in DOMAIN slots : slots[i].o = cb.tag

\* "Make sure to disable the notifier while we are processing the event, as
\* it's easy to run into re-entrancy issues": a notifier is never active
\* twice, and a callback runs inside itself only if the outer or the inner
\* call came from a notifier of a closed descriptor that has the same number.
NoReentry ==
  \A i, j \in DOMAIN slots :
    i < j =>
      /\ slots[i].o = slots[j].o => slots[i].o = NoWatcher
      /\ slots[i].runs = slots[j].runs /\ slots[i].runs # NoWatcher =>
           slots[i].o # slots[i].runs \/ slots[j].o # slots[i].runs
=============================================================================
