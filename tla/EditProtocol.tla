---------------------------- MODULE EditProtocol ----------------------------
(***************************************************************************)
(* What the edit callback, the interactors and gpg have in common: status  *)
(* lines, errors, and the helpers with which the transition tables of the  *)
(* interactors and the menus of gpg are written down.  No state.           *)
(***************************************************************************)
EXTENDS Naturals

NoError  == "NO_ERROR"
Canceled == "CANCELED"
NoLine   == "<none>"      \* action() returned a null pointer, nothing written
Partial  == "<partial>"   \* bytes went out, but not the terminating newline
NoPrompt == [status |-> "<none>", args |-> "<none>"]

GetLine(args) == [status |-> "GET_LINE", args |-> args]
GetBool(args) == [status |-> "GET_BOOL", args |-> args]
MainPrompt == GetLine("keyedit.prompt")
SaveOkay   == GetBool("keyedit.save.okay")

\* gpg waits for a line after these; only then is there an fd to write to.
Prompting(i) == i.status \in {"GET_BOOL", "GET_LINE"}

\* Error::operator bool(): a cancellation does not count as an error.
Fails(e) == e \notin {NoError, Canceled}

\* The errors that the callback can take from status_to_error().
StatusErrors == {"NO_PASSPHRASE", "ALREADY_SIGNED", "SIG_EXPIRED"}

\* status_to_error()
StatusToError(status) ==
  CASE status = "MISSING_PASSPHRASE" -> "NO_PASSPHRASE"
    [] status = "ALREADY_SIGNED"     -> "ALREADY_SIGNED"
    [] status = "SIGEXPIRED"         -> "SIG_EXPIRED"
    [] OTHER                         -> NoError

\* EditInteractor::needsNoResponse()
NeedsNoResponse(status) ==
  status \notin {"ALREADY_SIGNED", "ERROR", "GET_BOOL", "GET_LINE",
                 "KEY_CREATED", "NEED_PASSPHRASE_SYM", "SC_OP_FAILURE"}

-----------------------------------------------------------------------------
\* Rows of an interactor's transition table.
From(s, i, to) == [from |-> s, on |-> i, to |-> to]
Target(table, s, i) == {t.to : t \in {r \in table : r.from = s /\ r.on = i}}

To(s)       == [state |-> s, err |-> NoError]
Refuse(err) == [state |-> "ERROR", err |-> err]

\* How every nextState() of the library answers in state s: nothing happens on
\* a status that needs no response, a row of the table is followed, and an
\* input that has no row is answered with "otherwise".
Lookup(table, s, i, otherwise) ==
  IF NeedsNoResponse(i.status) THEN To(s)
  ELSE IF Target(table, s, i) = {} THEN otherwise
  ELSE To(CHOOSE t \in Target(table, s, i) : TRUE)

\* An action() that returns the line of the state, or a null pointer.
Answered(lines, s) ==
  [line |-> IF s \in DOMAIN lines THEN lines[s] ELSE NoLine, err |-> NoError]

-----------------------------------------------------------------------------
\* gpg's side is a script, a set of rows: at position "at" the answer "line"
\* may take it to position "to", with the effect "does".  Several rows for one
\* answer leave the choice to gpg; an answer without a row is asked for again.
Row(p, line, to, does) == [at |-> p, line |-> line, to |-> to, does |-> does]

\* Every script ends this way: "quit" asks whether to save, if there is
\* something to save.
QuitRows == {Row("prompt", "quit", "exited", "quit"),
             Row("prompt", "quit", "save",   "none"),
             Row("save",   "Y",    "exited", "save")}
=============================================================================
