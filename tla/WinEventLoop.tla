---------------------------- MODULE WinEventLoop ----------------------------
(***************************************************************************)
(* QGpgME::EventLoopInteractor on Windows, where a descriptor stands for a *)
(* QIODevice and signals take the place of notifiers, and the life of the  *)
(* interactor itself.                                                      *)
(*                                                                         *)
(* A device's signal goes to a QSignalMapper, shared by all interactors,   *)
(* which turns it into a descriptor and passes that on to a slot, which    *)
(* calls the first callback that is registered for it.  Each of the three  *)
(* links can be missing.                                                   *)
(***************************************************************************)
EXTENDS Naturals, FiniteSets, Sequences
Seqs == INSTANCE SequencesExt

CONSTANTS
  Fd,             \* descriptors
  Address,        \* where OneFD objects are allocated
  MaxInteractors, \* most interactors made one after the other (bound)
  MaxCallbacks    \* most callbacks registered over time (bound)

Direction == {"Read", "Write"}

ASSUME WinAssumption == MaxInteractors \in Nat /\ MaxCallbacks \in Nat

VARIABLES
  opened,    \* the descriptors that have a device
  self,      \* the number of the interactor, 0 without one
  made,      \* how many there have been
  mCallbacks,\* its OneFD objects
  used,      \* addresses that are allocated
  tags,      \* what gpgme has been given for its callbacks and not given back
  count,     \* how many callbacks there have been
  mapping,   \* the channels that the signal mappers know
  connected, \* those whose device is connected to its mapper
  target,    \* the interactor connected to each mapper
  setUp,     \* the mappers whose static pointer is initialized
  queued,    \* channels for which a call of the slot is queued
  dropped    \* channels that a callback has been removed from

devices == <<opened, mapping, connected, dropped>>
winVars == <<opened, self, made, mCallbacks, used, tags, count, mapping,
             connected, target, setUp, queued, dropped>>

DeviceChannel == [fd : Fd, dir : Direction]
OneFD   == [at : Address, chan : DeviceChannel, id : 1 .. MaxCallbacks]

-----------------------------------------------------------------------------
\* gpgme opens a descriptor and gives it a device.
Open(fd) ==
  /\ fd \notin opened
  /\ opened' = opened \cup {fd}
  /\ UNCHANGED <<self, made, mCallbacks, used, tags, count, mapping, connected,
                 target, setUp, queued, dropped>>

\* It closes one that it has no callbacks for.  The device goes, and with it
\* its connections and what the mappers know of it.
Close(fd) ==
  LET others == {chan \in DeviceChannel : chan.fd # fd}
  IN /\ fd \in opened
     /\ \A tag \in tags : tag.chan.fd # fd
     /\ opened' = opened \ {fd}
     /\ mapping' = mapping \cap others
     /\ connected' = connected \cap others
     /\ dropped' = dropped \cap others
     /\ UNCHANGED <<self, made, mCallbacks, used, tags, count, target, setUp, queued>>

\* instance() makes an interactor when there is none.
Construct ==
  /\ self = 0 /\ made < MaxInteractors
  /\ made' = made + 1
  /\ self' = made'
  /\ UNCHANGED <<devices, mCallbacks, used, tags, count, target, setUp, queued>>

\* Mutant: the destructor deletes the callbacks.
MutDestruct ==
  /\ self # 0
  /\ self' = 0
  /\ mCallbacks' = <<>>
  /\ used' = {}
  /\ target' = [dir \in Direction |-> 0]
  /\ queued' = {}
  /\ UNCHANGED <<devices, made, tags, count, setUp>>

\* ~EventLoopInteractor: the vector goes, the objects in it stay.  Qt drops the
\* connections to the interactor and the calls queued for it.
Destruct ==
  /\ self # 0
  /\ self' = 0
  /\ mCallbacks' = <<>>
  /\ target' = [dir \in Direction |-> 0]
  /\ queued' = {}
  /\ UNCHANGED <<devices, made, used, tags, count, setUp>>

-----------------------------------------------------------------------------
\* registerWatcher(): the device is connected if the mapper does not know the
\* descriptor; otherwise the slot is called, from the event loop.
RegisterWatcher(chan) ==
  /\ setUp' = setUp \cup {chan.dir}
  /\ target' = IF chan.dir \in setUp THEN target ELSE [target EXCEPT ![chan.dir] = self]
  /\ IF chan \notin mapping
     THEN /\ mapping' = mapping \cup {chan}
          /\ connected' = connected \cup {chan}
          /\ UNCHANGED queued
     ELSE queued' = queued \cup {chan} /\ UNCHANGED <<mapping, connected>>

\* registerIOCb(); it fails without a device.
WinRegister(chan) ==
  /\ self # 0 /\ count < MaxCallbacks
  /\ chan.fd \in opened
  /\ RegisterWatcher(chan)
  /\ \E at \in Address \ used :
       LET cb == [at |-> at, chan |-> chan, id |-> count + 1]
       IN /\ mCallbacks' = Append(mCallbacks, cb)
          /\ used' = used \cup {at}
          /\ tags' = tags \cup {cb}
  /\ count' = count + 1
  /\ UNCHANGED <<opened, self, made, dropped>>

\* Mutant: disconnect() names the device only.
MutUnregisterWatcher(chan) ==
  /\ connected' = {c \in connected : c.fd # chan.fd}
  /\ dropped' = dropped \cup {chan}

\* unregisterWatcher(): nothing tells the mapper.
UnregisterWatcher(chan) ==
  /\ connected' = connected \ {chan}
  /\ dropped' = dropped \cup {chan}

\* removeIOCb(): the first callback with the address of the tag.
WinRemove(tag) ==
  /\ tags' = tags \ {tag}
  /\ \/ \E n \in DOMAIN mCallbacks :
          /\ mCallbacks[n].at = tag.at
          /\ \A m \in 1 .. n - 1 : mCallbacks[m].at # tag.at
          /\ UnregisterWatcher(mCallbacks[n].chan)
          /\ mCallbacks' = Seqs!RemoveAt(mCallbacks, n)
          /\ used' = used \ {tag.at}
     \/ /\ \A n \in DOMAIN mCallbacks : mCallbacks[n].at # tag.at
        /\ UNCHANGED <<mCallbacks, used, connected, dropped>>
  /\ UNCHANGED <<opened, self, made, count, mapping, target, setUp, queued>>

\* The event loop calls a slot that was queued.
Deliver(chan) ==
  /\ chan \in queued
  /\ queued' = queued \ {chan}
  /\ UNCHANGED <<devices, self, made, mCallbacks, used, tags, count, target, setUp>>

WinInit ==
  /\ opened = {} /\ self = 0 /\ made = 0 /\ mCallbacks = <<>> /\ used = {}
  /\ tags = {} /\ count = 0 /\ mapping = {} /\ connected = {}
  /\ target = [dir \in Direction |-> 0] /\ setUp = {} /\ queued = {} /\ dropped = {}

WinNext ==
  \/ \E fd \in Fd : Open(fd) \/ Close(fd)
  \/ Construct \/ Destruct
  \/ \E chan \in DeviceChannel : WinRegister(chan) \/ Deliver(chan)
  \/ \E tag \in tags : WinRemove(tag)

WinSpec == WinInit /\ [][WinNext]_winVars

-----------------------------------------------------------------------------
\* The callback that actOn() calls for a channel, 0 if there is none.
FirstFor(chan) == Seqs!SelectInSeq(mCallbacks, LAMBDA cb : cb.chan = chan)

\* A signal of the device, or a call that is queued, reaches the n-th callback.
Reached(n) ==
  LET chan == mCallbacks[n].chan
  IN /\ FirstFor(chan) = n
     /\ (chan \in connected /\ target[chan.dir] = self) \/ chan \in queued

WinTypeOK ==
  /\ opened \subseteq Fd
  /\ self \in {0, made} /\ made \in 0 .. MaxInteractors
  /\ mCallbacks \in Seq(OneFD) /\ tags \subseteq OneFD
  /\ used \subseteq Address
  /\ connected \subseteq mapping /\ mapping \subseteq DeviceChannel

\* Whenever interactors come and go, the tag that gpgme gives back removes the
\* callback it was given for, or none if that went with its interactor: the
\* addresses of callbacks that an interactor leaves behind are not used again.
TagsStayValid ==
  /\ WinTypeOK
  /\ \A tag \in tags, n \in DOMAIN mCallbacks :
       mCallbacks[n].at = tag.at => mCallbacks[n].id = tag.id
  /\ \A n \in DOMAIN mCallbacks : mCallbacks[n] \in tags /\ mCallbacks[n].at \in used

\* A callback that no event reaches has one of three reasons: an earlier one is
\* registered for the same descriptor and direction, the device was
\* disconnected when another such callback was removed, or the signals go to
\* the interactor that was the first to register in this direction, which is
\* gone.
DeafIsKnown ==
  \A n \in DOMAIN mCallbacks :
    LET chan == mCallbacks[n].chan
    IN \/ Reached(n)
       \/ FirstFor(chan) < n
       \/ chan \in dropped
       \/ target[chan.dir] # self /\ self > 1
=============================================================================
