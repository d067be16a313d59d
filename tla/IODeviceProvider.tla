-------------------------- MODULE IODeviceProvider --------------------------
(***************************************************************************)
(* QGpgME::QIODeviceDataProvider::read() between a QIODevice that produces *)
(* data and gpgme, which reads until it sees the end or an error.          *)
(*                                                                         *)
(* The device and gpgme are external.  gpgme takes 0 for the end of the    *)
(* data and -1 for an error whose code is errno; with an errno of 0 it     *)
(* sees no error and reads again.                                          *)
(***************************************************************************)
EXTENDS Naturals

CONSTANTS
  Total,     \* units of data that the device is going to deliver
  Kinds      \* kinds of device: subset of {"process", "file", "socket"}

VARIABLES
  kind,           \* mHaveQProcess means "process"
  left,           \* data that the device still has or will have
  got,            \* data that gpgme has read
  device,         \* "open", "finished", "crashed" (a process), "gone" (at its
                  \* end), "broken" or "silent" (before it)
  errno,          \* the thread's errno: 0 or not
  mErrorOccurred,
  rc,             \* the last result of read(): "data", "eof", "error"
  reader          \* gpgme: "reading", "complete", "failed"

vars == <<kind, left, got, device, errno, mErrorOccurred, rc, reader>>

\* Error::hasSystemError(): the code of errno 0 is GPG_ERR_MISSING_ERRNO, so
\* this is true when there is NO system error.
HasSystemError(e) == e = 0

-----------------------------------------------------------------------------
\* What the device's own read gives, and the errno it leaves.  Nothing resets
\* errno before, so a failing read may find an old value in it.

\* Mutant: a process that crashed leaves errno as it was.
MutNoErrno ==
  CASE left > 0 -> {[num |-> "data", errno |-> errno]}
    [] left = 0 /\ device = "finished" -> {[num |-> "eof", errno |-> errno]}
    [] left = 0 /\ device = "crashed" -> {[num |-> "error", errno |-> errno]}
    [] OTHER -> {}

\* blocking_read(): with nothing available and the process gone, EIO unless
\* the process ended normally.
ProcessRead ==
  CASE left > 0 -> {[num |-> "data", errno |-> errno]}
    [] left = 0 /\ device = "finished" -> {[num |-> "eof", errno |-> errno]}
    [] left = 0 /\ device = "crashed" -> {[num |-> "error", errno |-> 1]}
    [] OTHER -> {}

\* QIODevice::read(): a device may fail with an errno of its own or, silent
\* or gone, without touching it.  A socket returns 0 as long as nothing has
\* arrived.
OtherRead ==
  CASE device = "broken" -> {[num |-> "error", errno |-> 1]}
    [] device \in {"gone", "silent"} -> {[num |-> "error", errno |-> errno]}
    [] device = "finished" -> {[num |-> "eof", errno |-> errno]}
    [] OTHER -> {[num |-> r, errno |-> errno] :
                   r \in (IF left > 0 THEN {"data"} ELSE {})
                     \cup (IF kind = "socket" THEN {"eof"} ELSE {})}

DeviceRead == IF kind = "process" THEN ProcessRead ELSE OtherRead

\* Mutants: mErrorOccurred is not set; there is no workaround.
MutForgetsError(n) ==
  /\ errno' = n.errno
  /\ rc' = IF n.num = "error" /\ ~HasSystemError(n.errno) THEN "eof" ELSE n.num
  /\ UNCHANGED mErrorOccurred

MutNoWorkaround(n) ==
  /\ errno' = n.errno
  /\ rc' = n.num
  /\ mErrorOccurred' = (mErrorOccurred \/ n.num = "error")

\* read() after the device has answered n: the workaround for devices that
\* give -1 at their end.
Deliver(n) ==
  /\ IF n.num = "error" /\ ~HasSystemError(n.errno)
     THEN IF mErrorOccurred
          THEN errno' = 1 /\ rc' = "error"
          ELSE errno' = n.errno /\ rc' = "eof"
     ELSE errno' = n.errno /\ rc' = n.num
  /\ mErrorOccurred' = (mErrorOccurred \/ n.num = "error")

\* gpgme reads, and looks at the result.
Read ==
  /\ reader = "reading"
  /\ \E n \in DeviceRead :
       /\ Deliver(n)
       /\ left' = IF n.num = "data" THEN left - 1 ELSE left
       /\ got' = IF n.num = "data" THEN got + 1 ELSE got
  /\ reader' = CASE rc' = "eof" -> "complete"
                 [] rc' = "error" /\ errno' # 0 -> "failed"
                 [] OTHER -> "reading"
  /\ UNCHANGED <<kind, device>>

\* Between two reads errno becomes what gpgme's other calls, and those of the
\* application, make of it.
Meanwhile ==
  /\ reader = "reading"
  /\ errno' \in {0, 1}
  /\ UNCHANGED <<kind, left, got, device, mErrorOccurred, rc, reader>>

\* The device ends after its data, or early: a process crashes before it has
\* written everything, another device breaks.
End ==
  /\ device = "open"
  /\ \/ left = 0 /\ device' = "finished" /\ UNCHANGED left
     \/ left = 0 /\ kind # "process" /\ device' = "gone" /\ UNCHANGED left
     \/ kind = "process" /\ device' = "crashed" /\ left' \in 0 .. left
     \/ kind # "process" /\ device' \in {"broken", "silent"} /\ UNCHANGED left
  /\ UNCHANGED <<kind, got, errno, mErrorOccurred, rc, reader>>

Init ==
  /\ kind \in Kinds
  /\ left = Total
  /\ got = 0
  /\ device = "open"
  /\ errno \in {0, 1}
  /\ mErrorOccurred = FALSE
  /\ rc = "data"
  /\ reader = "reading"

Next == Read \/ Meanwhile \/ End

\* gpgme keeps reading, and every device comes to an end.
Spec == Init /\ [][Next]_vars /\ WF_vars(Read) /\ WF_vars(End)

-----------------------------------------------------------------------------
\* The values the variables range over.
TypeOK ==
  /\ kind \in Kinds
  /\ left \in 0 .. Total
  /\ got \in 0 .. Total
  /\ device \in {"open", "finished", "gone", "crashed", "broken", "silent"}
  /\ errno \in {0, 1}
  /\ mErrorOccurred \in BOOLEAN
  /\ rc \in {"data", "eof", "error"}
  /\ reader \in {"reading", "complete", "failed"}

Truncated == reader = "complete" /\ got < Total

\* gpgme takes truncated data for complete only after an error that read()
\* turned into an end of data, or from a socket that had nothing yet.  (The
\* errors that read() hides include the EIO of a process that crashed.)
TruncationNeedsError == Truncated => mErrorOccurred \/ kind = "socket"

\* Reading from a device that comes to its end without failing ends with all
\* data; as an error only when gpgme was given the -1 of the device before,
\* with an errno of 0 that told it nothing, and errno has changed since.
CleanEndIsComplete ==
  [][reader' # reader /\ device \in {"finished", "gone"} =>
       \/ reader' = "complete" /\ (got' = Total \/ kind = "socket")
       \/ device = "gone" /\ rc = "error" /\ rc' = "error"]_vars

\* The comment in read(): "If no errno is set, gpgme doesn't detect the error
\* and loops forever. So return 0 on the very first -1 in case errno is 0".
ReaderStops == <>(reader # "reading")
=============================================================================
