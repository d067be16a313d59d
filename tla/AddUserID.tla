------------------------------ MODULE AddUserID ------------------------------
(***************************************************************************)
(* GpgAddUserIDEditInteractor and gpg's "adduid" command.  The name, the   *)
(* email address and the comment are opaque lines; gpg decides whether it  *)
(* likes them, and asks again for one that it does not like.               *)
(***************************************************************************)
EXTENDS EditProtocol

CONSTANT Line   \* all lines that may be sent

States == {"START", "COMMAND", "NAME", "EMAIL", "COMMENT", "QUIT", "SAVE",
          "ERROR"}

KeygenName    == GetLine("keygen.name")
KeygenEmail   == GetLine("keygen.email")
KeygenComment == GetLine("keygen.comment")

\* Mutants: the next row does not look at the question; a repeated question
\* keeps the state; the command is given again after the comment; a question
\* that is asked again is answered again.
MutTableSkips == {From("START", MainPrompt, "COMMAND"),
  From("COMMAND", KeygenName, "NAME"), From("NAME", KeygenName, "EMAIL")}
MutTableLoops == {From("START", MainPrompt, "COMMAND"),
  From("COMMAND", KeygenName, "NAME"), From("NAME", KeygenName, "NAME")}
MutTableRepeats == {From("START", MainPrompt, "COMMAND"),
  From("COMMAND", KeygenName, "NAME"), From("NAME", KeygenEmail, "EMAIL"),
  From("EMAIL", KeygenComment, "COMMENT"), From("COMMENT", MainPrompt, "COMMAND")}
MutTableInsists == {From("START", MainPrompt, "COMMAND"),
  From("COMMAND", KeygenName, "NAME"), From("NAME", KeygenName, "COMMAND")}

Table ==
  { From("START",   MainPrompt,    "COMMAND"),
    From("COMMAND", KeygenName,    "NAME"),
    From("NAME",    KeygenEmail,   "EMAIL"),
    From("EMAIL",   KeygenComment, "COMMENT"),
    From("COMMENT", MainPrompt,    "QUIT"),
    From("QUIT",    SaveOkay,      "SAVE"),
    From("ERROR",   MainPrompt,    "QUIT") }

\* The error for an unexpected prompt: a value asked for twice was rejected.
Rejection(s, last, i) ==
  CASE s = "NAME"    /\ i = KeygenName    -> "INV_NAME"
    [] s = "EMAIL"   /\ i = KeygenEmail   -> "INV_USER_ID"
    [] s = "COMMENT" /\ i = KeygenComment -> "INV_USER_ID"
    [] s = "ERROR"                        -> last
    [] OTHER                              -> "GENERAL"

\* nextState(), in state s and with the lastError() "last".
NextState(s, last, i) == Lookup(Table, s, i, Refuse(Rejection(s, last, i)))

\* Mutant: the email address and the comment are swapped.
MutLines == [COMMAND |-> "adduid", NAME |-> "<name>", EMAIL |-> "<comment>",
             COMMENT |-> "<email>", QUIT |-> "quit", SAVE |-> "Y"]

Lines == [COMMAND |-> "adduid", NAME |-> "<name>", EMAIL |-> "<email>",
          COMMENT |-> "<comment>", QUIT |-> "quit", SAVE |-> "Y"]

\* action(), in state s.
Action(s) == Answered(Lines, s)

-----------------------------------------------------------------------------
\* gpg's side.  It may take any line for a name, an address or a comment.
Asks == [prompt |-> MainPrompt, save |-> SaveOkay, name |-> KeygenName,
         email |-> KeygenEmail, comment |-> KeygenComment]

Script == QuitRows \cup
  {Row("prompt", "adduid", "name", "none")} \cup
  UNION {{Row("name",    l, "email",   "none"),
          Row("name",    l, "name",    "none"),
          Row("email",   l, "comment", "none"),
          Row("email",   l, "email",   "none"),
          Row("comment", l, "comment", "none"),
          Row("comment", l, "prompt",  "modify"),
          Row("comment", l, "prompt",  "none")} : l \in Line}

\* The lines for the questions, what the application asked for.
Values == {<<"name", "<name>">>, <<"email", "<email>">>, <<"comment", "<comment>">>}
=============================================================================
