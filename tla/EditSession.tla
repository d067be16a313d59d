----------------------------- MODULE EditSession -----------------------------
(***************************************************************************)
(* A dialogue: the callback of module EditInteractor, called by gpgme with *)
(* what "gpg --command-fd --edit-key" asks.  gpg is external code; its     *)
(* side is a script (see EditProtocol) that the actions below are given,   *)
(* with the prompt that gpg prints at its position.                        *)
(***************************************************************************)
EXTENDS EditInteractor

CONSTANTS
  Position,  \* the positions in a script at which gpg asks something
  Command,   \* the lines that start an edit operation
  MaxUses    \* how often the application uses the interactor (bound)

ASSUME SessionAssumption == MaxUses \in Nat \ {0}

VARIABLES
  at,        \* gpg's position in its script, "exited" when it is gone
  modified,  \* gpg holds a change that is not saved yet
  saved,     \* gpg has saved the change
  told,      \* the <<position, line>> pairs gpg acted on in this dialogue
  uses,      \* number of dialogues so far
  commands   \* 0, 1 or 2 for more: the command lines acted on, over all dialogues

gpg   == <<at, modified, saved, told>>
svars == <<vars, gpg, uses, commands>>

SessionInit ==
  /\ Init
  /\ at = "prompt"
  /\ modified = FALSE
  /\ saved = FALSE
  /\ told = {}
  /\ uses = 1
  /\ commands = 0

\* gpg asks the question of its position, or reports something else.
Tell(i, next, act) ==
  /\ at \in Position
  /\ Call(i, next, act)
  /\ UNCHANGED <<gpg, uses, commands>>

\* Where the answer may take gpg.
Rows(script, p, line) ==
  LET known == {r \in script : r.at = p /\ r.line = line}
  IN IF known = {} THEN {Row(p, line, p, "none")} ELSE known

\* "quit" leaves at once only if nothing is modified, and asks otherwise.
Possible(r) == /\ r.does = "quit" => ~modified
               /\ r.to = "save" => modified

\* gpg reads the line and acts on it.
Read(script) ==
  /\ at \in Position
  /\ Consume
  /\ \E r \in {q \in Rows(script, at, reply) : Possible(q)} :
       /\ at' = r.to
       /\ modified' = (modified \/ r.does = "modify")
       /\ saved' = (saved \/ r.does = "save")
       /\ told' = told \cup {<<at, reply>>}
  /\ commands' = IF reply \in Command /\ at = "prompt" /\ commands < 2
                 THEN commands + 1 ELSE commands
  /\ UNCHANGED uses

\* The operation ends: gpg has exited, or is killed while it still talks.
Exit ==
  /\ at = "exited"
  /\ Finish
  /\ UNCHANGED <<gpg, uses, commands>>

Killed ==
  /\ at \in Position
  /\ Finish
  /\ at' = "exited"
  /\ UNCHANGED <<modified, saved, told, uses, commands>>

\* The application edits another key with the same interactor.
EditAgain ==
  /\ uses < MaxUses
  /\ Reuse
  /\ uses' = uses + 1
  /\ at' = "prompt"
  /\ modified' = FALSE
  /\ saved' = FALSE
  /\ told' = {}
  /\ UNCHANGED commands

-----------------------------------------------------------------------------
\* The values the variables range over; the interactor never stores or returns
\* an error code that its own code does not name.
SessionTypeOK ==
  /\ TypeOK
  /\ at \in Position \cup {"exited"}
  /\ modified \in BOOLEAN
  /\ saved \in BOOLEAN
  /\ told \subseteq Position \X Line
  /\ uses \in 1 .. MaxUses
  /\ commands \in 0 .. 2

\* gpg waits for a line that nobody will write, in an operation that no
\* error has ended.
Hung == running /\ prompt # NoPrompt /\ reply = NoLine
=============================================================================
