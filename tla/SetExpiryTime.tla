---------------------------- MODULE SetExpiryTime ----------------------------
(***************************************************************************)
(* GpgSetExpiryTimeEditInteractor and gpg's "expire" command, which asks   *)
(* again for a date that it cannot parse.                                  *)
(***************************************************************************)
EXTENDS EditProtocol

CONSTANT Line   \* all lines that may be sent

States == {"START", "COMMAND", "DATE", "QUIT", "SAVE", "ERROR"}

KeygenValid == GetLine("keygen.valid")

Table ==
  { From("START",   MainPrompt,  "COMMAND"),
    From("COMMAND", KeygenValid, "DATE"),
    From("DATE",    MainPrompt,  "QUIT"),
    From("QUIT",    SaveOkay,    "SAVE"),
    From("ERROR",   MainPrompt,  "QUIT") }

\* In state DATE the code tests "strcmp(args, "keygen.valid")" without
\* comparing it to 0: the repeated question gives GENERAL, every other line
\* that is asked for gives INV_TIME.
Rejection(s, last, i) ==
  CASE s = "DATE" /\ i.status = "GET_LINE" /\ i # KeygenValid -> "INV_TIME"
    [] s = "ERROR" -> last
    [] OTHER       -> "GENERAL"

\* nextState(), in state s and with the lastError() "last".
NextState(s, last, i) == Lookup(Table, s, i, Refuse(Rejection(s, last, i)))

Lines == [COMMAND |-> "expire", DATE |-> "<date>", QUIT |-> "quit", SAVE |-> "Y"]

\* action(), in state s.
Action(s) == Answered(Lines, s)

-----------------------------------------------------------------------------
\* gpg's side.  Any line may be a date; a passphrase that is refused takes gpg
\* back to the main prompt with nothing changed.  With several subkeys selected
\* it first asks whether to change them, too.
Asks == [prompt |-> MainPrompt, save |-> SaveOkay, valid |-> KeygenValid,
         subkeys |-> GetBool("keyedit.expire_multiple_subkeys.okay")]

Script == QuitRows \cup
  {Row("prompt", "expire", "valid", "none"), Row("prompt", "expire", "subkeys", "none")}
  \cup UNION {{Row("valid", l, "valid",  "none"),
               Row("valid", l, "prompt", "modify"),
               Row("valid", l, "prompt", "none")} : l \in Line}

\* The line for the question, what the application asked for.
Values == {<<"valid", "<date>">>}
=============================================================================
