----------------------------- MODULE MCTransfers -----------------------------
(***************************************************************************)
(* Transfers through a pipe for TLC, byte by byte: what a callback writes  *)
(* to gpg (PipeWrite) and what gpgme reads from a device                   *)
(* (IODeviceProvider).  The two share nothing, so a behaviour is about one *)
(* of them, its subject.                                                   *)
(***************************************************************************)
EXTENDS PipeWrite

CONSTANTS Total, Kinds

ASSUME DeviceAssumption ==
  Total \in Nat /\ Kinds \subseteq {"process", "file", "socket"}

VARIABLES
  subject, \* what a behaviour is about
  source,  \* the kind of the device
  taken,   \* what gpgme has read from it
  left, device, errno, mErrorOccurred, rc, reader

deviceVars == <<source, taken, left, device, errno, mErrorOccurred, rc, reader>>
transferVars == <<vars, deviceVars, subject>>

Device == INSTANCE IODeviceProvider WITH kind <- source, got <- taken

Writing == subject = "writing" /\ Next /\ UNCHANGED <<deviceVars, subject>>
Reading == subject = "reading" /\ Device!Read /\ UNCHANGED <<vars, subject>>
Between == subject = "reading" /\ Device!Meanwhile /\ UNCHANGED <<vars, subject>>
Ending  == subject = "reading" /\ Device!End /\ UNCHANGED <<vars, subject>>

\* The other transfer of a behaviour does not begin.
MCInit ==
  /\ Init /\ Device!Init
  /\ \/ subject = "writing" /\ source = "process" /\ errno = 0
     \/ subject = "reading" /\ kind = "edit" /\ text = <<>>

\* gpgme keeps reading, and every device comes to an end.
MCSpec ==
  /\ MCInit
  /\ [][Writing \/ Reading \/ Between \/ Ending]_transferVars
  /\ WF_transferVars(Reading) /\ WF_transferVars(Ending)

\* gpgme takes truncated data for complete only after an error that the device
\* provider's read() turned into an end of data, or from a socket.
TruncationNeedsError == Device!TypeOK /\ Device!TruncationNeedsError

\* Reading from a device that comes to its end without failing ends with all
\* data, and as an error only after a -1 with an errno of 0.
CleanEndIsComplete == Device!CleanEndIsComplete

\* Reading from a process through the device provider comes to an end.
ProcessReaderStops ==
  subject = "reading" /\ source = "process" ~> reader # "reading"
==============================================================================
