------------------------------ MODULE Dialogues ------------------------------
(***************************************************************************)
(* The dialogues of the three interactors that consist of a table only,    *)
(* GpgAddUserIDEditInteractor, GpgSetOwnerTrustEditInteractor and          *)
(* GpgSetExpiryTimeEditInteractor.  Which one the application uses, and    *)
(* the trust it asks for, is chosen in the initial state.                  *)
(***************************************************************************)
EXTENDS EditSession

CONSTANT Notices   \* status lines that ask nothing and may come at any time

VARIABLES
  who,        \* which interactor it is; never assigned
  ownertrust  \* m_ownertrust of the second one; never assigned

dvars == <<svars, who, ownertrust>>

Add    == INSTANCE AddUserID
Trust  == INSTANCE SetOwnerTrust
Expire == INSTANCE SetExpiryTime

\* There may be more states, errors, lines and positions than the interactors
\* and gpg name here; the command lines are the three that the interactors give.
ASSUME DialogueAssumption ==
  /\ StartState = "START"
  /\ ErrorState = "ERROR"
  /\ Add!States \cup Trust!States \cup Expire!States \subseteq State
  /\ {"GENERAL", "INV_NAME", "INV_USER_ID", "INV_TIME"} \subseteq Error
  /\ {"<name>", "<email>", "<comment>", "<date>", "1", "2", "3", "4", "5", "quit", "Y"}
        \cup Command \subseteq Line
  /\ Command = {"adduid", "trust", "expire"}
  /\ DOMAIN Add!Asks \cup DOMAIN Trust!Asks \cup DOMAIN Expire!Asks \subseteq Position
  /\ "exited" \notin Position
  /\ \A p \in DOMAIN Add!Asks    : Add!Asks[p] \in Input
  /\ \A p \in DOMAIN Trust!Asks  : Trust!Asks[p] \in Input
  /\ \A p \in DOMAIN Expire!Asks : Expire!Asks[p] \in Input
  /\ \A i \in Notices : i \in Input /\ ~Prompting(i)

NextState(i) ==
  CASE who = "adduid" -> Add!NextState(state, error, i)
    [] who = "trust"  -> Trust!NextState(state, error, i)
    [] who = "expire" -> Expire!NextState(state, error, i)

Action(s) ==
  CASE who = "adduid" -> Add!Action(s)
    [] who = "trust"  -> Trust!Action(ownertrust, s)
    [] who = "expire" -> Expire!Action(s)

Asks ==
  CASE who = "adduid" -> Add!Asks
    [] who = "trust"  -> Trust!Asks
    [] who = "expire" -> Expire!Asks

Script ==
  CASE who = "adduid" -> Add!Script
    [] who = "trust"  -> Trust!Script
    [] who = "expire" -> Expire!Script

\* The lines for the questions of the command.
Values ==
  CASE who = "adduid" -> Add!Values
    [] who = "trust"  -> Trust!Values(ownertrust)
    [] who = "expire" -> Expire!Values

Hears(i) == Tell(i, NextState(i), Action(NextState(i).state))

Ask    == at \in Position /\ Hears(Asks[at]) /\ UNCHANGED <<who, ownertrust>>
Notice == (\E i \in Notices : Hears(i)) /\ UNCHANGED <<who, ownertrust>>
Answer == Read(Script) /\ UNCHANGED <<who, ownertrust>>
Leave  == Exit /\ UNCHANGED <<who, ownertrust>>
Kill   == Killed /\ UNCHANGED <<who, ownertrust>>
Again  == EditAgain /\ UNCHANGED <<who, ownertrust>>

DialogueInit ==
  /\ SessionInit
  /\ who \in {"adduid", "trust", "expire"}
  /\ ownertrust \in Trust!OwnerTrust

DialogueNext == Ask \/ Notice \/ Answer \/ Leave \/ Kill \/ Again

\* gpgme and gpg run on as long as there is something to read.
Fairness == WF_dvars(Ask) /\ WF_dvars(Answer) /\ WF_dvars(Leave)

DialogueSpec == DialogueInit /\ [][DialogueNext]_dvars /\ Fairness

-----------------------------------------------------------------------------
\* No line goes to a prompt that it was not written for: gpg never takes the
\* name for the email address, the trust for a date or an answer for a command.
\* gpg takes any line for some questions, so this depends on the interactor and
\* gpg agreeing on the position, through errors, rejected values and reuse.
RightAnswer ==
  told \subseteq Values \cup ({"prompt"} \X (Command \cup {"quit"}))
                        \cup {<<"save", "Y">>}

\* What gpg saves is all that the application asked for, ultimate trust only
\* after its confirmation.
SavedIsAsked == saved => Values \subseteq told

\* An interactor gives its command once, also when it is used again after a
\* dialogue that was cut short: it never repeats a change on another key.
CommandAtMostOnce == commands <= 1

\* gpg changes what the application asked it to change, through answers to the
\* right prompts, completely or not at all, and once.
DoesWhatIsAsked ==
  SessionTypeOK /\ RightAnswer /\ SavedIsAsked /\ CommandAtMostOnce

\* A value that gpg asks for a second time, because it did not like the first
\* one, is not offered again: the interactor gives up.
RefusedValueAborts ==
  [][prompt = NoPrompt /\ prompt' # NoPrompt /\ at \notin {"prompt", "save"}
       /\ (\E l \in Line : <<at, l>> \in told) => error' # NoError]_dvars

\* The dialogue comes to an end, with or without an error.
Terminates == running ~> ~running
=============================================================================
