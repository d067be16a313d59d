-------------------------- MODULE EventLoopProofs --------------------------
(***************************************************************************)
(* The invariants of EventLoop, for any number of contexts, descriptors    *)
(* and notifiers and for any nesting of event loops.                       *)
(*                                                                         *)
(* They are inductive together with one fact that none of them states: the *)
(* notifier of every active slot is disabled, and was enabled before.      *)
(* From it follow that no notifier is activated twice (NoReentry) and that *)
(* QDisabler's destructor always enables (EnabledUnlessRunning).           *)
(*                                                                         *)
(* On Windows, addresses of callbacks are in use until their own tag comes *)
(* back, so tags stay valid; a channel that a mapper knows is connected or *)
(* was dropped, and the first interactor keeps its mappers, so deafness    *)
(* has one of its known reasons.                                           *)
(***************************************************************************)
EXTENDS MCEventLoop, SequenceTheorems, FiniteSetTheorems, WellFoundedInduction, TLAPS

\* The notifier of an active slot is disabled, and its QDisabler will enable
\* it again; the callback that runs in a slot is still registered.
ActiveSlots ==
  \A i \in DOMAIN slots :
    /\ slots[i].wasEnabled
    /\ slots[i].o # NoWatcher => ~watcher[slots[i].o].enabled
    /\ slots[i].runs # NoWatcher => \E cb \in callbacks : cb.tag = slots[i].runs

IInv ==
  /\ TypeOK
  /\ WatcherPerCallback
  /\ EnabledUnlessRunning
  /\ NoReentry
  /\ ActiveSlots

LEMMA InitEstablishes == Init => IInv
<1> SUFFICES ASSUME Init PROVE IInv
  OBVIOUS
<1> DOMAIN watcher = {}
  BY DEF Init
<1> DOMAIN slots = {}
  BY DEF Init
<1> QED
  BY EventLoopAssumption DEF Init, IInv, TypeOK, WatcherPerCallback,
     EnabledUnlessRunning, NoReentry, ActiveSlots, live

\* Registering a callback preserves the invariant.
LEMMA RegisterPreserves ==
  ASSUME IInv, NEW c \in Ctx, NEW chan \in Channel, Register(c, chan)
  PROVE  IInv'
<1> USE EventLoopAssumption DEF live
<1>1. PICK w \in Watcher \ live :
        /\ watcher' = [x \in live \cup {w} |->
                         IF x = w
                         THEN [chan |-> chan, enabled |-> TRUE, doomed |-> 0]
                         ELSE watcher[x]]
        /\ callbacks' = callbacks \cup {[tag |-> w, chan |-> chan, ctx |-> c]}
  BY DEF Register
<1> DEFINE new == [tag |-> w, chan |-> chan, ctx |-> c]
<1>2. /\ live' = live \cup {w}
      /\ watcher'[w] = [chan |-> chan, enabled |-> TRUE, doomed |-> 0]
      /\ \A x \in live : watcher'[x] = watcher[x] /\ x # w
  BY <1>1
<1>3. UNCHANGED <<slots, inLoop, op>>
  BY DEF Register
<1>4. \A i \in DOMAIN slots : slots[i].o # w
  BY <1>1 DEF IInv, TypeOK
<1>5. \A cb \in callbacks : cb.tag \in live /\ cb.tag # w /\ cb.chan # chan
  BY <1>1 DEF IInv, WatcherPerCallback, Register, Matching
<1>6. TypeOK'
  <2>1. callbacks' \subseteq Callback
    BY <1>1 DEF IInv, TypeOK, Callback
  <2>2. watcher' \in [live' -> Notifier]
    BY <1>1, <1>2 DEF IInv, TypeOK, Notifier
  <2> QED
    BY <1>2, <1>3, <2>1, <2>2 DEF IInv, TypeOK
<1>7. WatcherPerCallback'
  <2>1. ASSUME NEW cb \in callbacks'
        PROVE  /\ cb.tag \in live'
               /\ watcher'[cb.tag].chan = cb.chan
               /\ watcher'[cb.tag].doomed = 0
    <3>1. CASE cb \in callbacks
      BY <1>2, <1>5, <3>1 DEF IInv, WatcherPerCallback
    <3>2. CASE cb = new
      BY <1>2, <3>2
    <3> QED
      BY <1>1, <3>1, <3>2
  <2>2. ASSUME NEW cb1 \in callbacks', NEW cb2 \in callbacks',
               cb1.tag = cb2.tag \/ cb1.chan = cb2.chan
        PROVE  cb1 = cb2
    <3>1. CASE cb1 \in callbacks /\ cb2 \in callbacks
      BY <2>2, <3>1 DEF IInv, WatcherPerCallback
    <3>2. CASE cb1 = new \/ cb2 = new
      <4>1. new.tag = w /\ new.chan = chan
        OBVIOUS
      <4> HIDE DEF new
      <4> QED
        BY <1>1, <1>5, <2>2, <3>2, <4>1 DEF new
    <3> QED
      BY <1>1, <3>1, <3>2
  <2>3. ASSUME NEW x \in live', watcher'[x].doomed = 0
        PROVE  \E cb \in callbacks' : cb.tag = x
    <3>1. CASE x = w
      <4>1. new \in callbacks' /\ new.tag = w
        BY <1>1
      <4> QED
        BY <3>1, <4>1
    <3>2. CASE x \in live
      BY <1>1, <1>2, <2>3, <3>2 DEF IInv, WatcherPerCallback
    <3> QED
      BY <1>2, <3>1, <3>2
  <2> QED
    BY <2>1, <2>2, <2>3 DEF WatcherPerCallback
<1>8. EnabledUnlessRunning'
  BY <1>1, <1>2, <1>3, <1>5 DEF IInv, EnabledUnlessRunning
<1>9. NoReentry'
  BY <1>3 DEF IInv, NoReentry
<1>10. ActiveSlots'
  BY <1>1, <1>2, <1>3, <1>4 DEF IInv, ActiveSlots, TypeOK
<1> QED
  BY <1>6, <1>7, <1>8, <1>9, <1>10 DEF IInv

\* Removing a callback preserves it: what is left are the others.
LEMMA RemovePreserves ==
  ASSUME IInv, NEW gone \in callbacks, Remove(gone)
  PROVE  IInv'
<1> USE EventLoopAssumption DEF live
<1>1. /\ callbacks' = callbacks \ {gone}
      /\ watcher' = [watcher EXCEPT ![gone.tag].doomed = Level]
      /\ slots' = [i \in DOMAIN slots |->
                     IF slots[i].runs = gone.tag
                     THEN [slots[i] EXCEPT !.runs = NoWatcher]
                     ELSE slots[i]]
      /\ UNCHANGED <<inLoop, op>>
  BY DEF Remove
<1>2. /\ gone.tag \in live
      /\ \A cb \in callbacks' : cb.tag # gone.tag /\ cb \in callbacks
  BY <1>1 DEF IInv, WatcherPerCallback
<1>3. Level \in 1 .. MaxDepth + 1
  BY DEF IInv, TypeOK, Level
<1>4. /\ live' = live
      /\ \A x \in live : /\ watcher'[x].enabled = watcher[x].enabled
                         /\ watcher'[x].chan = watcher[x].chan
                         /\ x # gone.tag => watcher'[x] = watcher[x]
      /\ watcher'[gone.tag].doomed = Level
  BY <1>1, <1>2 DEF IInv, TypeOK, Notifier
<1>5. /\ DOMAIN slots' = DOMAIN slots
      /\ \A i \in DOMAIN slots :
           /\ slots'[i].o = slots[i].o
           /\ slots'[i].wasEnabled = slots[i].wasEnabled
           /\ slots'[i].runs = IF slots[i].runs = gone.tag THEN NoWatcher
                               ELSE slots[i].runs
  BY <1>1 DEF IInv, TypeOK, Slot
<1>6. TypeOK'
  <2>1. watcher' \in [live' -> Notifier]
    <3>1. watcher[gone.tag] \in Notifier
      BY <1>2 DEF IInv, TypeOK
    <3>2. [watcher[gone.tag] EXCEPT !.doomed = Level] \in Notifier
      BY <1>3, <3>1 DEF Notifier
    <3> QED
      BY <1>1, <1>2, <1>4, <3>2 DEF IInv, TypeOK
  <2>2. slots' \in Seq(Slot) /\ Len(slots') = Len(slots)
    <3>1. slots \in [1 .. Len(slots) -> Slot] /\ Len(slots) \in Nat
      BY LenProperties DEF IInv, TypeOK
    <3>2. slots' \in [1 .. Len(slots) -> Slot]
      BY <1>1, <3>1 DEF Slot
    <3> QED
      BY <3>1, <3>2, SeqDef, LenProperties
  <2>3. inLoop' \/ slots' # << >>
    BY <1>1, <2>2 DEF IInv, TypeOK
  <2> QED
    BY <1>1, <1>4, <1>5, <2>1, <2>2, <2>3 DEF IInv, TypeOK
<1>7. WatcherPerCallback'
  BY <1>1, <1>2, <1>3, <1>4 DEF IInv, WatcherPerCallback
<1>8. EnabledUnlessRunning'
  BY <1>2, <1>4, <1>5 DEF IInv, EnabledUnlessRunning, WatcherPerCallback
<1>9. NoReentry'
  BY <1>5 DEF IInv, NoReentry
<1>10. ActiveSlots'
  <2> SUFFICES ASSUME NEW i \in DOMAIN slots
               PROVE  /\ slots'[i].wasEnabled
                      /\ slots'[i].o # NoWatcher => ~watcher'[slots'[i].o].enabled
                      /\ slots'[i].runs # NoWatcher =>
                           \E cb \in callbacks' : cb.tag = slots'[i].runs
    BY <1>5 DEF ActiveSlots
  <2>1. slots'[i].wasEnabled
    BY <1>5 DEF IInv, ActiveSlots
  <2>2. slots'[i].o # NoWatcher => ~watcher'[slots'[i].o].enabled
    BY <1>4, <1>5 DEF IInv, ActiveSlots, TypeOK
  <2>3. slots'[i].runs # NoWatcher => \E cb \in callbacks' : cb.tag = slots'[i].runs
    BY <1>1, <1>5 DEF IInv, ActiveSlots
  <2> QED
    BY <2>1, <2>2, <2>3
<1> QED
  BY <1>6, <1>7, <1>8, <1>9, <1>10 DEF IInv

\* Deleting a notifier preserves it: it had no callback left.
LEMMA DeletePreserves ==
  ASSUME IInv, NEW w \in live, Delete(w)
  PROVE  IInv'
<1> USE EventLoopAssumption DEF live
<1>1. /\ watcher' = [x \in live \ {w} |-> watcher[x]]
      /\ slots' = [i \in DOMAIN slots |->
                     IF slots[i].o = w THEN [slots[i] EXCEPT !.o = NoWatcher]
                     ELSE slots[i]]
      /\ UNCHANGED <<callbacks, inLoop, op>>
  BY DEF Delete
<1>2. /\ live' = live \ {w}
      /\ \A x \in live' : watcher'[x] = watcher[x]
  BY <1>1
<1>3. \A cb \in callbacks : cb.tag # w
  <2>1. watcher[w].doomed > Len(slots) /\ Len(slots) \in Nat
    BY DEF Delete, IInv, TypeOK
  <2>2. watcher[w].doomed # 0
    BY <2>1
  <2> QED
    BY <2>2 DEF IInv, WatcherPerCallback
<1>4. /\ DOMAIN slots' = DOMAIN slots
      /\ \A i \in DOMAIN slots :
           /\ slots'[i].o = IF slots[i].o = w THEN NoWatcher ELSE slots[i].o
           /\ slots'[i].wasEnabled = slots[i].wasEnabled
           /\ slots'[i].runs = slots[i].runs
  BY <1>1 DEF IInv, TypeOK, Slot
<1>5. TypeOK'
  <2>1. watcher' \in [live' -> Notifier]
    BY <1>1, <1>2 DEF IInv, TypeOK
  <2>2. slots' \in Seq(Slot) /\ Len(slots') = Len(slots)
    <3>1. slots \in [1 .. Len(slots) -> Slot] /\ Len(slots) \in Nat
      BY LenProperties DEF IInv, TypeOK
    <3>2. slots' \in [1 .. Len(slots) -> Slot]
      BY <1>1, <3>1 DEF Slot
    <3> QED
      BY <3>1, <3>2, SeqDef, LenProperties
  <2>3. inLoop' \/ slots' # << >>
    BY <1>1, <2>2 DEF IInv, TypeOK
  <2> QED
    BY <1>1, <1>2, <1>4, <2>1, <2>2, <2>3 DEF IInv, TypeOK
<1>6. WatcherPerCallback'
  BY <1>1, <1>2, <1>3 DEF IInv, WatcherPerCallback
<1>7. EnabledUnlessRunning'
  BY <1>1, <1>2, <1>3, <1>4 DEF IInv, EnabledUnlessRunning, WatcherPerCallback
<1>8. NoReentry'
  <2> SUFFICES ASSUME NEW i \in DOMAIN slots, NEW j \in DOMAIN slots, i < j
               PROVE  /\ slots'[i].o = slots'[j].o => slots'[i].o = NoWatcher
                      /\ slots'[i].runs = slots'[j].runs /\ slots'[i].runs # NoWatcher =>
                           \/ slots'[i].o # slots'[i].runs
                           \/ slots'[j].o # slots'[i].runs
    BY <1>4 DEF NoReentry
  <2> QED
    BY <1>4 DEF IInv, NoReentry
<1>9. ActiveSlots'
  BY <1>1, <1>2, <1>4 DEF IInv, ActiveSlots, TypeOK
<1> QED
  BY <1>5, <1>6, <1>7, <1>8, <1>9 DEF IInv

\* Activating a notifier preserves it: an enabled one has no active slot.
LEMMA ActivatePreserves ==
  ASSUME IInv, NEW w \in live, Activate(w)
  PROVE  IInv'
<1> USE EventLoopAssumption DEF live
<1> DEFINE n == Len(slots)
<1>1. PICK tag \in Called(watcher[w].chan) : slots' = Append(slots, Disabler(w, tag))
  BY DEF Activate
<1>2. /\ watcher' = [watcher EXCEPT ![w].enabled = FALSE]
      /\ watcher[w].enabled
      /\ n < MaxDepth
      /\ inLoop' = FALSE
      /\ UNCHANGED <<callbacks, op>>
  BY DEF Activate, Disabled
<1>3. /\ watcher[w] \in Notifier
      /\ w \in Watcher
      /\ tag \in Watcher \cup {NoWatcher}
      /\ tag # NoWatcher => \E cb \in callbacks : cb.tag = tag
  BY <1>1 DEF IInv, TypeOK, Called, Matching, Callback
<1>4. /\ live' = live
      /\ \A x \in live : /\ watcher'[x].chan = watcher[x].chan
                         /\ watcher'[x].doomed = watcher[x].doomed
                         /\ x # w => watcher'[x] = watcher[x]
      /\ watcher'[w].enabled = FALSE
  BY <1>2, <1>3 DEF IInv, TypeOK, Notifier
<1>5. /\ DOMAIN slots = 1 .. n
      /\ n \in Nat
      /\ DOMAIN slots' = 1 .. n + 1
      /\ \A i \in 1 .. n : slots'[i] = slots[i]
      /\ slots'[n + 1] = [o |-> w, wasEnabled |-> TRUE, runs |-> tag]
      /\ slots' \in Seq(Slot)
      /\ Len(slots') = n + 1
  <2>1. Disabler(w, tag) = [o |-> w, wasEnabled |-> TRUE, runs |-> tag]
    BY <1>2, <1>3 DEF Disabler, Notifier
  <2>2. Disabler(w, tag) \in Slot
    BY <1>3, <2>1 DEF Slot
  <2> QED
    BY <1>1, <2>1, <2>2, AppendProperties, LenProperties DEF IInv, TypeOK
<1>6. \A i \in 1 .. n : slots[i].o # w
  BY <1>2, <1>3, <1>5 DEF IInv, ActiveSlots
<1> HIDE DEF n
<1>7. TypeOK'
  <2>1. watcher' \in [live' -> Notifier]
    <3>1. [watcher[w] EXCEPT !.enabled = FALSE] \in Notifier
      BY <1>3 DEF Notifier
    <3> QED
      BY <1>2, <1>4, <3>1 DEF IInv, TypeOK
  <2>2. \A i \in DOMAIN slots' : slots'[i].o \in live' \cup {NoWatcher}
    BY <1>4, <1>5 DEF IInv, TypeOK
  <2>3. slots' # << >> /\ Len(slots') <= MaxDepth
    BY <1>2, <1>5
  <2> QED
    BY <1>2, <1>4, <1>5, <2>1, <2>2, <2>3 DEF IInv, TypeOK
<1>8. WatcherPerCallback'
  BY <1>2, <1>4 DEF IInv, WatcherPerCallback
<1>9. EnabledUnlessRunning'
  <2> SUFFICES ASSUME NEW cb \in callbacks, ~watcher'[cb.tag].enabled
               PROVE  \E i \in DOMAIN slots' : slots'[i].o = cb.tag
    BY <1>2 DEF EnabledUnlessRunning
  <2>1. CASE cb.tag = w
    <3>1. n + 1 \in DOMAIN slots' /\ slots'[n + 1].o = w
      BY <1>5
    <3> QED
      BY <2>1, <3>1
  <2>2. CASE cb.tag # w
    <3>1. PICK i \in DOMAIN slots : slots[i].o = cb.tag
      BY <1>4, <2>2 DEF IInv, EnabledUnlessRunning, WatcherPerCallback
    <3>2. i \in DOMAIN slots' /\ slots'[i].o = cb.tag
      BY <1>5, <3>1
    <3> QED
      BY <3>2
  <2> QED
    BY <2>1, <2>2
<1>10. NoReentry'
  <2> SUFFICES ASSUME NEW i \in DOMAIN slots', NEW j \in DOMAIN slots', i < j
               PROVE  /\ slots'[i].o = slots'[j].o => slots'[i].o = NoWatcher
                      /\ slots'[i].runs = slots'[j].runs /\ slots'[i].runs # NoWatcher =>
                           \/ slots'[i].o # slots'[i].runs
                           \/ slots'[j].o # slots'[i].runs
    BY DEF NoReentry
  <2>1. CASE j = n + 1
    BY <1>3, <1>5, <1>6, <2>1
  <2>2. CASE j # n + 1
    <3>1. i \in 1 .. n /\ j \in 1 .. n
      BY <1>5, <2>2
    <3> QED
      BY <1>5, <3>1 DEF IInv, NoReentry
  <2> QED
    BY <2>1, <2>2
<1>11. ActiveSlots'
  <2> SUFFICES ASSUME NEW i \in DOMAIN slots'
               PROVE  /\ slots'[i].wasEnabled
                      /\ slots'[i].o # NoWatcher => ~watcher'[slots'[i].o].enabled
                      /\ slots'[i].runs # NoWatcher =>
                           \E cb \in callbacks : cb.tag = slots'[i].runs
    BY <1>2 DEF ActiveSlots
  <2>1. CASE i = n + 1
    BY <1>3, <1>4, <1>5, <2>1
  <2>2. CASE i \in 1 .. n
    BY <1>4, <1>5, <1>6, <2>2 DEF IInv, ActiveSlots, TypeOK
  <2> QED
    BY <1>5, <2>1, <2>2
<1> QED
  BY <1>7, <1>8, <1>9, <1>10, <1>11 DEF IInv

\* The return of a slot preserves it: the QDisabler enables its notifier.
LEMMA ReturnPreserves ==
  ASSUME IInv, Return
  PROVE  IInv'
<1> USE EventLoopAssumption DEF live
<1> DEFINE n == Len(slots)
           last == slots[n]
<1>1. /\ watcher' = Restored(last)
      /\ slots' = SubSeq(slots, 1, n - 1)
      /\ inLoop' = TRUE
      /\ UNCHANGED <<callbacks, op>>
  BY DEF Return
<1>2. /\ n \in Nat \ {0}
      /\ n <= MaxDepth
      /\ DOMAIN slots = 1 .. n
      /\ last \in Slot
      /\ last.o \in live \cup {NoWatcher}
      /\ last.wasEnabled
  <2>1. n \in Nat \ {0}
    BY EmptySeq DEF Return, IInv, TypeOK
  <2>2. DOMAIN slots = 1 .. n
    BY LenProperties DEF IInv, TypeOK
  <2>3. n \in DOMAIN slots
    BY <2>1, <2>2
  <2> QED
    BY <2>1, <2>2, <2>3, ElementOfSeq DEF IInv, TypeOK, ActiveSlots
<1>3. /\ slots' \in Seq(Slot)
      /\ Len(slots') = n - 1
      /\ DOMAIN slots' = 1 .. n - 1
      /\ \A i \in 1 .. n - 1 : slots'[i] = slots[i]
  <2>1. \A i \in 1 .. n - 1 : slots[i] \in Slot
    BY <1>2, ElementOfSeq DEF IInv, TypeOK
  <2> QED
    BY <1>1, <1>2, <2>1, LenProperties, SubSeqProperties DEF IInv, TypeOK
<1>4. /\ live' = live
      /\ \A x \in live : /\ watcher'[x].chan = watcher[x].chan
                         /\ watcher'[x].doomed = watcher[x].doomed
                         /\ x # last.o => watcher'[x] = watcher[x]
                         /\ x = last.o => watcher'[x].enabled
                         /\ watcher'[x] \in Notifier
  <2>1. CASE last.o = NoWatcher
    BY <1>1, <2>1 DEF Restored, IInv, TypeOK
  <2>2. CASE last.o \in live
    <3>1. watcher' = [watcher EXCEPT ![last.o].enabled = TRUE]
      BY <1>1, <1>2, <2>2 DEF Restored, IInv, TypeOK, Slot
    <3> HIDE DEF last
    <3>2. \A x \in live : watcher[x] \in Notifier
      BY DEF IInv, TypeOK
    <3> QED
      BY <2>2, <3>1, <3>2 DEF IInv, TypeOK, Notifier
  <2> QED
    BY <1>2, <2>1, <2>2
<1>5. \A i \in 1 .. n - 1 : slots[i].o = last.o => last.o = NoWatcher
  <2> SUFFICES ASSUME NEW i \in 1 .. n - 1, slots[i].o = last.o
               PROVE  last.o = NoWatcher
    OBVIOUS
  <2>1. i \in DOMAIN slots /\ n \in DOMAIN slots /\ i < n
    BY <1>2
  <2> QED
    BY <2>1 DEF IInv, NoReentry
<1>6. TypeOK'
  <2>1. watcher' \in [live' -> Notifier]
    <3>1. watcher' = [x \in live |-> watcher'[x]]
      BY <1>1, <1>4 DEF Restored, IInv, TypeOK
    <3> QED
      BY <1>4, <3>1
  <2>2. \A i \in DOMAIN slots' : slots'[i].o \in live' \cup {NoWatcher}
    BY <1>2, <1>3, <1>4 DEF IInv, TypeOK
  <2> QED
    BY <1>1, <1>2, <1>3, <1>4, <2>1, <2>2 DEF IInv, TypeOK
<1>7. WatcherPerCallback'
  BY <1>1, <1>4 DEF IInv, WatcherPerCallback
<1>8. EnabledUnlessRunning'
  <2> SUFFICES ASSUME NEW cb \in callbacks, ~watcher'[cb.tag].enabled
               PROVE  \E i \in DOMAIN slots' : slots'[i].o = cb.tag
    BY <1>1 DEF EnabledUnlessRunning
  <2>1. cb.tag \in live /\ cb.tag # last.o /\ ~watcher[cb.tag].enabled
    BY <1>4 DEF IInv, WatcherPerCallback
  <2>2. PICK i \in DOMAIN slots : slots[i].o = cb.tag
    BY <2>1 DEF IInv, EnabledUnlessRunning
  <2>3. i \in 1 .. n - 1
    BY <1>2, <2>1, <2>2
  <2> QED
    BY <1>3, <2>2, <2>3
<1>9. NoReentry'
  <2> SUFFICES ASSUME NEW i \in DOMAIN slots', NEW j \in DOMAIN slots', i < j
               PROVE  /\ slots'[i].o = slots'[j].o => slots'[i].o = NoWatcher
                      /\ slots'[i].runs = slots'[j].runs /\ slots'[i].runs # NoWatcher =>
                           \/ slots'[i].o # slots'[i].runs
                           \/ slots'[j].o # slots'[i].runs
    BY DEF NoReentry
  <2>1. i \in DOMAIN slots /\ j \in DOMAIN slots
    BY <1>2, <1>3
  <2>2. slots'[i] = slots[i] /\ slots'[j] = slots[j]
    BY <1>3
  <2> QED
    BY <2>1, <2>2 DEF IInv, NoReentry
<1>10. ActiveSlots'
  <2> SUFFICES ASSUME NEW i \in 1 .. n - 1
               PROVE  /\ slots[i].wasEnabled
                      /\ slots[i].o # NoWatcher => ~watcher'[slots[i].o].enabled
                      /\ slots[i].runs # NoWatcher =>
                           \E cb \in callbacks : cb.tag = slots[i].runs
    BY <1>1, <1>3 DEF ActiveSlots
  <2>1. i \in DOMAIN slots
    BY <1>2
  <2> QED
    BY <1>4, <1>5, <2>1 DEF IInv, ActiveSlots, TypeOK
<1> QED
  BY <1>6, <1>7, <1>8, <1>9, <1>10 DEF IInv

\* The remaining actions change neither callbacks nor notifiers nor slots.
LEMMA ControlPreserves ==
  ASSUME IInv,
         \/ Nest
         \/ Unnest
         \/ \E c \in Ctx : Start(c) \/ Done(c)
  PROVE  IInv'
<1>1. UNCHANGED <<callbacks, watcher, slots>>
  BY DEF Nest, Unnest, Start, Done
<1>2. /\ inLoop' \in BOOLEAN
      /\ ~inLoop' => slots # << >>
      /\ op' \subseteq Ctx
  BY DEF Nest, Unnest, Start, Done, IInv, TypeOK
<1> QED
  BY <1>1, <1>2 DEF IInv, TypeOK, WatcherPerCallback, EnabledUnlessRunning,
     NoReentry, ActiveSlots, live

LEMMA NextPreserves == IInv /\ [Next]_vars => IInv'
<1> SUFFICES ASSUME IInv, [Next]_vars PROVE IInv'
  OBVIOUS
<1>1. CASE UNCHANGED vars
  BY <1>1 DEF vars, IInv, TypeOK, WatcherPerCallback, EnabledUnlessRunning,
     NoReentry, ActiveSlots, live
<1>2. CASE \E c \in Ctx, chan \in Channel : Register(c, chan)
  BY <1>2, RegisterPreserves
<1>3. CASE \E cb \in callbacks : Remove(cb)
  BY <1>3, RemovePreserves
<1>4. CASE \E w \in live : Delete(w)
  BY <1>4, DeletePreserves
<1>5. CASE \E w \in live : Activate(w)
  BY <1>5, ActivatePreserves
<1>6. CASE Return
  BY <1>6, ReturnPreserves
<1>7. CASE Nest \/ Unnest \/ \E c \in Ctx : Start(c) \/ Done(c)
  BY <1>7, ControlPreserves
<1> QED
  BY <1>1, <1>2, <1>3, <1>4, <1>5, <1>6, <1>7 DEF Next

LEMMA Inductive == Spec => []IInv
  BY InitEstablishes, NextPreserves, PTL DEF Spec

\* Every variable stays in its range; in particular a QDisabler never keeps
\* the address of a notifier that was deleted in a nested loop.
THEOREM TypeCorrect == Spec => []TypeOK
<1>1. IInv => TypeOK
  BY DEF IInv
<1> QED
  BY <1>1, Inductive, PTL

\* mCallbacks and the notifiers that are not being deleted correspond one to
\* one, however registrations, removals and deferred deletions interleave.
THEOREM Correspondence == Spec => []WatcherPerCallback
<1>1. IInv => WatcherPerCallback
  BY DEF IInv
<1> QED
  BY <1>1, Inductive, PTL

\* A registered descriptor is watched whenever its own slot is not running.
THEOREM NoLostWakeUp == Spec => []EnabledUnlessRunning
<1>1. IInv => EnabledUnlessRunning
  BY DEF IInv
<1> QED
  BY <1>1, Inductive, PTL

\* A notifier does not fire while its slot runs, in however deep a loop.
THEOREM NotReentrant == Spec => []NoReentry
<1>1. IInv => NoReentry
  BY DEF IInv
<1> QED
  BY <1>1, Inductive, PTL

-----------------------------------------------------------------------------
(* Windows *)

WTypes ==
  /\ WinTypeOK
  /\ target \in [Direction -> Nat]
  /\ dropped \subseteq DeviceChannel /\ queued \subseteq DeviceChannel
  /\ setUp \subseteq Direction
  /\ count \in Nat

\* Addresses in use, among them those of callbacks an interactor left behind.
Tagged ==
  /\ \A t, u \in tags : t.at = u.at => t = u
  /\ \A t \in tags : t.at \in used
  /\ \A n \in DOMAIN mCallbacks : mCallbacks[n] \in tags
  /\ \A n, m \in DOMAIN mCallbacks : mCallbacks[n].at = mCallbacks[m].at => n = m
  /\ self = 0 => mCallbacks = <<>>

\* What the mappers know.
Wired ==
  /\ mapping \subseteq connected \cup dropped
  /\ \A n \in DOMAIN mCallbacks :
       mCallbacks[n].chan \in mapping /\ mCallbacks[n].chan.dir \in setUp
  /\ made = 0 => setUp = {}
  /\ self = 1 => \A dir \in setUp : target[dir] = 1

WInv == WTypes /\ Tagged /\ Wired

\* The least number of a set, by way of the intervals up to its numbers.
LEMMA LeastOf ==
  ASSUME NEW T \in SUBSET Nat, T # {}
  PROVE  \E m \in T : \A k \in T : m <= k
<1> DEFINE U == {1 .. k : k \in T}
<1>1. U \subseteq FiniteSubsetsOf(Nat) /\ U # {}
  <2>1. \A k \in T : IsFiniteSet(1 .. k)
    BY FS_Interval
  <2>2. \A k \in T : 1 .. k \in FiniteSubsetsOf(Nat)
    BY <2>1 DEF FiniteSubsetsOf
  <2>3. QED
    BY <2>2
<1>2. PICK x \in U : \A y \in U : <<y, x>> \notin StrictSubsetOrdering(Nat)
  BY <1>1, WFMin, FS_StrictSubsetOrderingWellFounded
<1>3. PICK m \in T : x = 1 .. m
  BY <1>2
<1>4. ASSUME NEW k \in T, k < m
      PROVE  FALSE
  <2>1. 1 .. k \subseteq 1 .. m /\ m \in 1 .. m /\ m \notin 1 .. k
    BY <1>4
  <2>2. 1 .. k \in SUBSET Nat /\ 1 .. m \in SUBSET Nat /\ 1 .. k # 1 .. m
    BY <2>1
  <2>3. <<1 .. k, 1 .. m>> \in StrictSubsetOrdering(Nat)
    BY <2>1, <2>2 DEF StrictSubsetOrdering
  <2>4. QED
    BY <1>2, <1>3, <2>3
<1>5. QED
  BY <1>4

\* A callback for a channel is the first one that actOn() finds, or behind it.
LEMMA FirstIsNotBehind ==
  ASSUME mCallbacks \in Seq(OneFD), NEW n \in DOMAIN mCallbacks
  PROVE  FirstFor(mCallbacks[n].chan) = n \/ FirstFor(mCallbacks[n].chan) < n
<1> DEFINE T == {i \in 1 .. Len(mCallbacks) : mCallbacks[i].chan = mCallbacks[n].chan}
<1>1. Len(mCallbacks) \in Nat /\ n \in 1 .. Len(mCallbacks)
  BY LenProperties
<1>2. n \in T /\ T \in SUBSET Nat
  BY <1>1
<1>3. FirstFor(mCallbacks[n].chan) = Seqs!Min(T)
  BY <1>2 DEF FirstFor, Seqs!SelectInSeq
<1>4. Seqs!Min(T) \in T /\ Seqs!Min(T) <= n
  <2> HIDE DEF T
  <2>1. \E m \in T : \A k \in T : m <= k
    BY <1>2, LeastOf
  <2>2. QED
    BY <1>2, <2>1 DEF Seqs!Min
<1>5. QED
  BY <1>1, <1>2, <1>3, <1>4

\* A sequence without its n-th element.
Without(r, s, n) ==
  /\ DOMAIN r = 1 .. Len(s) - 1
  /\ \A m \in DOMAIN r : LET k == IF m < n THEN m ELSE m + 1
                         IN k \in DOMAIN s /\ k # n /\ r[m] = s[k]

LEMMA RemovedOne ==
  ASSUME NEW S, NEW s \in Seq(S), NEW n \in DOMAIN s
  PROVE  /\ Seqs!RemoveAt(s, n) \in Seq(S)
         /\ Without(Seqs!RemoveAt(s, n), s, n)
<1> DEFINE front == SubSeq(s, 1, n - 1)  back == SubSeq(s, n + 1, Len(s))
           r == Seqs!RemoveAt(s, n)
<1>1. /\ Len(s) \in Nat /\ n \in 1 .. Len(s) /\ DOMAIN s = 1 .. Len(s)
      /\ \A i \in 1 .. Len(s) : s[i] \in S
  BY LenProperties, ElementOfSeq
<1>2. /\ front \in Seq(S)
      /\ Len(front) = n - 1
      /\ \A i \in 1 .. n - 1 : front[i] = s[i]
  <2>1. /\ 1 \in Int /\ n - 1 \in Int /\ \A i \in 1 .. n - 1 : s[i] \in S
    BY <1>1
  <2>2. /\ front \in Seq(S)
        /\ Len(front) = IF 1 <= n - 1 THEN (n - 1) - 1 + 1 ELSE 0
        /\ \A i \in 1 .. (n - 1) - 1 + 1 : front[i] = s[1 + i - 1]
    BY <2>1, SubSeqProperties
  <2>3. QED
    BY <1>1, <2>2
<1>3. /\ back \in Seq(S)
      /\ Len(back) = Len(s) - n
      /\ \A i \in 1 .. Len(s) - n : back[i] = s[n + i]
  <2>1. /\ n + 1 \in Int /\ Len(s) \in Int /\ \A i \in n + 1 .. Len(s) : s[i] \in S
    BY <1>1
  <2>2. /\ back \in Seq(S)
        /\ Len(back) = IF n + 1 <= Len(s) THEN Len(s) - (n + 1) + 1 ELSE 0
        /\ \A i \in 1 .. Len(s) - (n + 1) + 1 : back[i] = s[(n + 1) + i - 1]
    BY <2>1, SubSeqProperties
  <2>3. Len(back) = Len(s) - n
    BY <1>1, <2>2
  <2>4. ASSUME NEW i \in 1 .. Len(s) - n
        PROVE  back[i] = s[n + i]
    <3>1. i \in 1 .. Len(s) - (n + 1) + 1 /\ (n + 1) + i - 1 = n + i
      BY <1>1
    <3>2. QED
      BY <2>2, <3>1
  <2>5. QED
    BY <2>2, <2>3, <2>4
<1>4. r = front \o back
  BY DEF Seqs!RemoveAt
<1> HIDE DEF front, back, r
<1>5. /\ r \in Seq(S)
      /\ Len(r) = Len(front) + Len(back)
      /\ \A i \in 1 .. Len(front) + Len(back) :
           r[i] = IF i <= Len(front) THEN front[i] ELSE back[i - Len(front)]
  BY <1>2, <1>3, <1>4, ConcatProperties
<1>6. DOMAIN r = 1 .. Len(s) - 1
  BY <1>1, <1>2, <1>3, <1>5, LenProperties
<1>7. ASSUME NEW m \in DOMAIN r
      PROVE  LET k == IF m < n THEN m ELSE m + 1
             IN k \in DOMAIN s /\ k # n /\ r[m] = s[k]
  <2>1. CASE m < n
    BY <1>1, <1>2, <1>3, <1>5, <1>6, <2>1
  <2>2. CASE ~(m < n)
    <3>1. /\ m - (n - 1) \in 1 .. Len(s) - n /\ n + (m - (n - 1)) = m + 1
          /\ m \in 1 .. Len(front) + Len(back) /\ ~(m <= Len(front))
      BY <1>1, <1>2, <1>3, <1>6, <2>2
    <3>2. r[m] = s[m + 1]
      BY <1>2, <1>3, <1>5, <3>1
    <3>3. QED
      BY <1>1, <1>6, <2>2, <3>2
  <2>3. QED
    BY <2>1, <2>2
<1>8. QED
  BY <1>5, <1>6, <1>7 DEF Without, r

LEMMA WInitHolds == WinInit => WInv
<1> SUFFICES ASSUME WinInit
             PROVE  WInv
  OBVIOUS
<1>1. mCallbacks = <<>> /\ DOMAIN mCallbacks = {} /\ mCallbacks \in Seq(OneFD)
  BY EmptySeq, LenProperties DEF WinInit
<1>2. WTypes
  BY <1>1, WinAssumption DEF WinInit, WTypes, WinTypeOK
<1>3. Tagged /\ Wired
  BY <1>1 DEF WinInit, Tagged, Wired
<1>4. QED
  BY <1>2, <1>3 DEF WInv

\* Devices and interactors come and go.
LEMMA OpenPreserves ==
  ASSUME WInv, NEW fd \in Fd, Open(fd)
  PROVE  WInv'
<1>1. WTypes'
  BY DEF Open, WInv, WTypes, WinTypeOK
<1>2. Tagged' /\ Wired'
  BY DEF Open, WInv, Tagged, Wired
<1>3. QED
  BY <1>1, <1>2 DEF WInv

LEMMA ClosePreserves ==
  ASSUME WInv, NEW fd \in Fd, Close(fd)
  PROVE  WInv'
<1> DEFINE others == {chan \in DeviceChannel : chan.fd # fd}
<1>1. /\ opened' = opened \ {fd} /\ mapping' = mapping \cap others
      /\ connected' = connected \cap others /\ dropped' = dropped \cap others
      /\ \A tag \in tags : tag.chan.fd # fd
      /\ UNCHANGED <<self, made, mCallbacks, used, tags, count, target, setUp, queued>>
  BY DEF Close
<1>2. WTypes'
  BY <1>1 DEF WInv, WTypes, WinTypeOK
<1>3. Tagged'
  BY <1>1 DEF WInv, Tagged
<1>4. mapping' \subseteq connected' \cup dropped'
  BY <1>1 DEF WInv, Wired
<1>5. ASSUME NEW n \in DOMAIN mCallbacks
      PROVE  mCallbacks[n].chan \in mapping'
  <2>1. mCallbacks[n].chan \in mapping /\ mCallbacks[n] \in tags
    BY DEF WInv, Wired, Tagged
  <2>2. mCallbacks[n].chan \in DeviceChannel /\ mCallbacks[n].chan.fd # fd
    BY <1>1, <2>1 DEF WInv, WTypes, WinTypeOK
  <2>3. QED
    BY <1>1, <2>1, <2>2
<1>6. Wired'
  BY <1>1, <1>4, <1>5 DEF WInv, Wired
<1>7. QED
  BY <1>2, <1>3, <1>6 DEF WInv

LEMMA InteractorsPreserve ==
  ASSUME WInv, Construct \/ Destruct
  PROVE  WInv'
<1>1. CASE Construct
  <2>1. mCallbacks = <<>> /\ DOMAIN mCallbacks = {}
    BY <1>1 DEF Construct, WInv, Tagged
  <2>2. WTypes'
    BY <1>1, WinAssumption DEF Construct, devices, WInv, WTypes, WinTypeOK
  <2>3. Tagged'
    BY <1>1, <2>1 DEF Construct, devices, WInv, Tagged
  <2>4. self' = 1 => setUp' = {}
    BY <1>1 DEF Construct, devices, WInv, WTypes, WinTypeOK, Wired
  <2>5. made' # 0
    BY <1>1, WinAssumption DEF Construct, WInv, WTypes, WinTypeOK
  <2>6. Wired'
    BY <1>1, <2>1, <2>4, <2>5 DEF Construct, devices, WInv, Wired
  <2>7. QED
    BY <2>2, <2>3, <2>6 DEF WInv
<1>2. CASE Destruct
  <2>1. mCallbacks' = <<>> /\ DOMAIN mCallbacks' = {} /\ mCallbacks' \in Seq(OneFD)
    BY <1>2, EmptySeq, LenProperties DEF Destruct
  <2>2. WTypes'
    BY <1>2, <2>1 DEF Destruct, devices, WInv, WTypes, WinTypeOK
  <2>3. Tagged'
    BY <1>2, <2>1 DEF Destruct, devices, WInv, Tagged
  <2>4. Wired'
    BY <1>2, <2>1 DEF Destruct, devices, WInv, Wired
  <2>5. QED
    BY <2>2, <2>3, <2>4 DEF WInv
<1>3. QED
  BY <1>1, <1>2

LEMMA WinRegisterPreserves ==
  ASSUME WInv, NEW chan \in DeviceChannel, WinRegister(chan)
  PROVE  WInv'
<1>1. PICK at \in Address \ used :
        LET cb == [at |-> at, chan |-> chan, id |-> count + 1]
        IN /\ mCallbacks' = Append(mCallbacks, cb)
           /\ used' = used \cup {at}
           /\ tags' = tags \cup {cb}
  BY DEF WinRegister
<1> DEFINE new == [at |-> at, chan |-> chan, id |-> count + 1]
<1>2. /\ self # 0 /\ count < MaxCallbacks
      /\ mCallbacks' = Append(mCallbacks, new)
      /\ used' = used \cup {at} /\ tags' = tags \cup {new} /\ count' = count + 1
      /\ UNCHANGED <<opened, self, made, dropped>>
      /\ setUp' = setUp \cup {chan.dir}
      /\ target' = IF chan.dir \in setUp THEN target ELSE [target EXCEPT ![chan.dir] = self]
      /\ IF chan \notin mapping
         THEN mapping' = mapping \cup {chan} /\ connected' = connected \cup {chan}
              /\ UNCHANGED queued
         ELSE queued' = queued \cup {chan} /\ UNCHANGED <<mapping, connected>>
  BY <1>1 DEF WinRegister, RegisterWatcher
<1>3. /\ new \in OneFD /\ new.at = at /\ new.chan = chan /\ count' \in Nat
      /\ chan.dir \in Direction
  BY <1>2, WinAssumption DEF OneFD, DeviceChannel, WInv, WTypes
<1> HIDE DEF new
<1>4. /\ mCallbacks' \in Seq(OneFD)
      /\ Len(mCallbacks') = Len(mCallbacks) + 1 /\ Len(mCallbacks) \in Nat
      /\ DOMAIN mCallbacks = 1 .. Len(mCallbacks)
      /\ DOMAIN mCallbacks' = 1 .. Len(mCallbacks')
      /\ \A n \in DOMAIN mCallbacks : mCallbacks'[n] = mCallbacks[n]
      /\ mCallbacks'[Len(mCallbacks')] = new
  <2>1. mCallbacks \in Seq(OneFD)
    BY DEF WInv, WTypes, WinTypeOK
  <2>2. mCallbacks' \in Seq(OneFD)
    BY <1>2, <1>3, <2>1, AppendProperties
  <2>3. /\ Len(mCallbacks) \in Nat /\ DOMAIN mCallbacks = 1 .. Len(mCallbacks)
        /\ DOMAIN mCallbacks' = 1 .. Len(mCallbacks')
    BY <2>1, <2>2, LenProperties
  <2>4. QED
    BY <1>2, <1>3, <2>1, <2>2, <2>3, AppendProperties
<1>5. ASSUME NEW n \in DOMAIN mCallbacks'
      PROVE  \/ n \in DOMAIN mCallbacks /\ mCallbacks'[n] = mCallbacks[n]
             \/ n = Len(mCallbacks') /\ mCallbacks'[n] = new
  BY <1>4
<1>6. WTypes'
  <2>1. target' \in [Direction -> Nat]
    BY <1>2, <1>3 DEF WInv, WTypes, WinTypeOK
  <2>2. /\ connected' \subseteq mapping' /\ mapping' \subseteq DeviceChannel
        /\ queued' \subseteq DeviceChannel
    BY <1>2 DEF WInv, WTypes, WinTypeOK
  <2>3. QED
    BY <1>2, <1>3, <1>4, <2>1, <2>2 DEF WInv, WTypes, WinTypeOK
<1>7. \A t \in tags : t.at \in used /\ t.at # at
  BY <1>1 DEF WInv, Tagged
<1>8. Tagged'
  <2>1. \A t, u \in tags' : t.at = u.at => t = u
    BY <1>2, <1>3, <1>7 DEF WInv, Tagged
  <2>2. \A t \in tags' : t.at \in used'
    BY <1>2, <1>3, <1>7
  <2>3. \A n \in DOMAIN mCallbacks' : mCallbacks'[n] \in tags'
    BY <1>2, <1>5 DEF WInv, Tagged
  <2>4. ASSUME NEW n \in DOMAIN mCallbacks', NEW m \in DOMAIN mCallbacks',
               mCallbacks'[n].at = mCallbacks'[m].at
        PROVE  n = m
    BY <1>3, <1>5, <1>7, <2>4 DEF WInv, Tagged
  <2>5. QED
    BY <1>2, <2>1, <2>2, <2>3, <2>4 DEF Tagged
<1>9. Wired'
  <2>1. mapping' \subseteq connected' \cup dropped'
    BY <1>2 DEF WInv, Wired
  <2>2. mapping \subseteq mapping' /\ chan \in mapping' /\ setUp \subseteq setUp' /\ chan.dir \in setUp'
    BY <1>2
  <2>3. \A n \in DOMAIN mCallbacks' :
          mCallbacks'[n].chan \in mapping' /\ mCallbacks'[n].chan.dir \in setUp'
    BY <1>3, <1>5, <2>2 DEF WInv, Wired
  <2>4. made' # 0
    BY <1>2 DEF WInv, WTypes, WinTypeOK
  <2>5. self' = 1 => \A dir \in setUp' : target'[dir] = 1
    BY <1>2, <1>3 DEF WInv, Wired, WTypes
  <2>6. QED
    BY <2>1, <2>3, <2>4, <2>5 DEF Wired
<1>10. QED
  BY <1>6, <1>8, <1>9 DEF WInv

LEMMA WinRemovePreserves ==
  ASSUME WInv, NEW tag \in tags, WinRemove(tag)
  PROVE  WInv'
<1>1. /\ tags' = tags \ {tag}
      /\ UNCHANGED <<opened, self, made, count, mapping, target, setUp, queued>>
  BY DEF WinRemove
<1>2. CASE /\ \A n \in DOMAIN mCallbacks : mCallbacks[n].at # tag.at
           /\ UNCHANGED <<mCallbacks, used, connected, dropped>>
  <2>1. WTypes'
    BY <1>1, <1>2 DEF WInv, WTypes, WinTypeOK
  <2>2. \A n \in DOMAIN mCallbacks : mCallbacks[n] # tag
    BY <1>2
  <2>3. Tagged'
    BY <1>1, <1>2, <2>2 DEF WInv, Tagged
  <2>4. Wired'
    BY <1>1, <1>2 DEF WInv, Wired
  <2>5. QED
    BY <2>1, <2>3, <2>4 DEF WInv
<1>3. ASSUME NEW n \in DOMAIN mCallbacks,
             mCallbacks[n].at = tag.at,
             UnregisterWatcher(mCallbacks[n].chan),
             mCallbacks' = Seqs!RemoveAt(mCallbacks, n),
             used' = used \ {tag.at}
      PROVE  WInv'
  <2> DEFINE chan == mCallbacks[n].chan
  <2>1. mCallbacks \in Seq(OneFD) /\ mCallbacks[n] = tag /\ chan \in DeviceChannel
    BY <1>3 DEF WInv, WTypes, WinTypeOK, Tagged, OneFD
  <2>2. mCallbacks' \in Seq(OneFD) /\ Without(mCallbacks', mCallbacks, n)
    BY <1>3, <2>1, RemovedOne
  <2>3. connected' = connected \ {chan} /\ dropped' = dropped \cup {chan}
    BY <1>3 DEF UnregisterWatcher
  <2>4. ASSUME NEW m \in DOMAIN mCallbacks'
        PROVE  \E k \in DOMAIN mCallbacks \ {n} :
                 k = (IF m < n THEN m ELSE m + 1) /\ mCallbacks'[m] = mCallbacks[k]
    BY <2>2 DEF Without
  <2>5. WTypes'
    BY <1>1, <1>3, <2>1, <2>2, <2>3 DEF WInv, WTypes, WinTypeOK
  <2>6. Tagged'
    <3>1. \A t, u \in tags' : t.at = u.at => t = u
      BY <1>1 DEF WInv, Tagged
    <3>2. \A t \in tags' : t.at \in used'
      BY <1>1, <1>3 DEF WInv, Tagged
    <3>3. ASSUME NEW m \in DOMAIN mCallbacks'
          PROVE  mCallbacks'[m] \in tags'
      <4>1. PICK k \in DOMAIN mCallbacks \ {n} : mCallbacks'[m] = mCallbacks[k]
        BY <2>4
      <4>2. mCallbacks[k] \in tags /\ mCallbacks[k].at # mCallbacks[n].at
        BY <4>1 DEF WInv, Tagged
      <4>3. QED
        BY <1>1, <2>1, <4>1, <4>2
    <3>4. ASSUME NEW m \in DOMAIN mCallbacks', NEW l \in DOMAIN mCallbacks',
                 mCallbacks'[m].at = mCallbacks'[l].at
          PROVE  m = l
      <4>1. /\ m \in Nat /\ l \in Nat /\ n \in Nat
        BY <2>1, <2>2, LenProperties DEF Without
      <4>2. (IF m < n THEN m ELSE m + 1) = (IF l < n THEN l ELSE l + 1)
        BY <2>4, <3>4 DEF WInv, Tagged
      <4>3. QED
        BY <4>1, <4>2
    <3>5. self' = 0 => mCallbacks' = <<>>
      <4>1. self = 0 => DOMAIN mCallbacks = {}
        BY DEF WInv, Tagged
      <4>2. QED
        BY <1>1, <4>1
    <3>6. QED
      BY <3>1, <3>2, <3>3, <3>4, <3>5 DEF Tagged
  <2>7. Wired'
    <3>1. mapping' \subseteq connected' \cup dropped'
      BY <1>1, <2>3 DEF WInv, Wired
    <3>2. \A m \in DOMAIN mCallbacks' :
            mCallbacks'[m].chan \in mapping' /\ mCallbacks'[m].chan.dir \in setUp'
      BY <1>1, <2>4 DEF WInv, Wired
    <3>3. QED
      BY <1>1, <3>1, <3>2 DEF WInv, Wired
  <2>8. QED
    BY <2>5, <2>6, <2>7 DEF WInv
<1>4. QED
  BY <1>2, <1>3 DEF WinRemove

LEMMA DeliverPreserves ==
  ASSUME WInv, NEW chan \in DeviceChannel, Deliver(chan)
  PROVE  WInv'
<1>1. WTypes'
  BY DEF Deliver, devices, WInv, WTypes, WinTypeOK
<1>2. Tagged' /\ Wired'
  BY DEF Deliver, devices, WInv, Tagged, Wired
<1>3. QED
  BY <1>1, <1>2 DEF WInv

LEMMA WinNextPreserves == WInv /\ [WinNext]_winVars => WInv'
<1> SUFFICES ASSUME WInv, [WinNext]_winVars
             PROVE  WInv'
  OBVIOUS
<1>1. CASE UNCHANGED winVars
  <2>1. WTypes'
    BY <1>1 DEF winVars, WInv, WTypes, WinTypeOK
  <2>2. Tagged' /\ Wired'
    BY <1>1 DEF winVars, WInv, Tagged, Wired
  <2>3. QED
    BY <2>1, <2>2 DEF WInv
<1>2. QED
  BY <1>1, OpenPreserves, ClosePreserves, InteractorsPreserve, WinRegisterPreserves,
     DeliverPreserves, WinRemovePreserves DEF WinNext

LEMMA WinMeans == WInv => TagsStayValid /\ DeafIsKnown
<1> SUFFICES ASSUME WInv
             PROVE  TagsStayValid /\ DeafIsKnown
  OBVIOUS
<1>1. TagsStayValid
  BY DEF WInv, WTypes, Tagged, TagsStayValid
<1>2. ASSUME NEW n \in DOMAIN mCallbacks
      PROVE  LET chan == mCallbacks[n].chan
             IN \/ Reached(n)
                \/ FirstFor(chan) < n
                \/ chan \in dropped
                \/ target[chan.dir] # self /\ self > 1
  <2> DEFINE chan == mCallbacks[n].chan
  <2>1. FirstFor(chan) = n \/ FirstFor(chan) < n
    BY FirstIsNotBehind DEF WInv, WTypes, WinTypeOK
  <2>2. chan \in connected \/ chan \in dropped
    BY DEF WInv, Wired
  <2>3. self # 0 /\ self \in Nat
    <3>1. mCallbacks # <<>>
      OBVIOUS
    <3>2. QED
      BY <3>1 DEF WInv, WTypes, WinTypeOK, Tagged
  <2>4. target[chan.dir] = self \/ self > 1
    BY <2>3 DEF WInv, Wired
  <2>5. QED
    BY <2>1, <2>2, <2>4 DEF Reached
<1>3. QED
  BY <1>1, <1>2 DEF DeafIsKnown

\* A tag removes the callback it was given for, or none, for any number of
\* interactors, descriptors and addresses.
THEOREM TagsNeverMistaken == WinSpec => []TagsStayValid
BY WInitHolds, WinNextPreserves, WinMeans, PTL DEF WinSpec

\* A callback that no event reaches is deaf for one of the three reasons.
THEOREM DeafnessExplained == WinSpec => []DeafIsKnown
BY WInitHolds, WinNextPreserves, WinMeans, PTL DEF WinSpec

-----------------------------------------------------------------------------
\* Whichever system a program runs on, all of this holds.
THEOREM OnEitherSystem ==
  MCSpec => [](/\ WatcherPerCallback /\ EnabledUnlessRunning /\ NoReentry
               /\ TagsStayValid /\ DeafIsKnown)
<1>1. [MCNext]_<<vars, winVars, system>> => [Next]_vars /\ [WinNext]_winVars
  BY DEF MCNext
<1>2. IInv => WatcherPerCallback /\ EnabledUnlessRunning /\ NoReentry
  BY DEF IInv
<1>3. QED
  BY <1>1, <1>2, InitEstablishes, NextPreserves, WInitHolds, WinNextPreserves, WinMeans, PTL
     DEF MCSpec, MCInit
=============================================================================
