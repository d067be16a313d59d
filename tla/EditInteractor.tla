--------------------------- MODULE EditInteractor ---------------------------
(***************************************************************************)
(* The callback through which GnuPG's --edit-key dialogue is driven        *)
(* (CallbackHelper::edit_interactor_callback_impl) and the state that it   *)
(* keeps in EditInteractor::Private.                                       *)
(*                                                                         *)
(* What the two virtual functions nextState() and action() answer is a     *)
(* parameter of the callback, so Spec below describes EVERY interactor,    *)
(* the ones of the library and the ones an application derives.  Modules   *)
(* Dialogues and SignKey pass the answers of the library's own ones.       *)
(***************************************************************************)
EXTENDS EditProtocol

CONSTANTS
  State,       \* the states of the interactor (unsigned int in the code)
  StartState,  \* EditInteractor::StartState
  ErrorState,  \* EditInteractor::ErrorState
  Input,       \* the status lines gpgme reports: [status, args] records
  Line,        \* the lines an action may answer with ("" is one of them)
  Error        \* error codes an interactor or a write may produce

ASSUME InteractorAssumption ==
  /\ {StartState, ErrorState} \subseteq State
  /\ StartState # ErrorState
  /\ StatusErrors \cup {NoError, Canceled} \subseteq Error
  /\ {NoLine, Partial} \cap Line = {}
  /\ NoPrompt \notin Input

VARIABLES
  state,    \* EditInteractor::Private::state
  error,    \* EditInteractor::Private::error
  running,  \* gpgme's edit operation is in progress
  prompt,   \* the prompt that gpg waits at, NoPrompt between prompts
  reply     \* what the callback wrote for that prompt

own  == <<state, error>>
vars == <<state, error, running, prompt, reply>>

-----------------------------------------------------------------------------
Transition == [state : State, err : Error]              \* nextState()
Result     == [line : Line \cup {NoLine}, err : Error]  \* action()

\* Mutant: a write that fails half-way counts as a success.
MutWriteOutcomes(i, line) ==
  {[reply |-> r, err |-> NoError] : r \in {line, Partial}}

\* The two write()s of an answer: the result, then the newline.  Either may
\* fail, with an errno of its own; without an fd the first one always does.
WriteOutcomes(i, line) ==
  LET Failed(r) == [reply : r, err : {e \in Error : Fails(e)}]
  IN IF Prompting(i)
     THEN {[reply |-> line, err |-> NoError]} \cup Failed({NoLine, Partial})
     ELSE Failed({NoLine})

\* The label "error:" with err set.
Record(e) == error' = e /\ state' = ErrorState

\* The label "error:" without it: an error from before is kept.
Accept(s) == state' = s /\ UNCHANGED error

\* The condition under which the callback asks the interactor to act.
ActionCalled(i, next) ==
  /\ ~Fails(StatusToError(i.status))
  /\ ~Fails(next.err)
  /\ next.state # state
  /\ error = NoError

\* edit_interactor_callback_impl(), where nextState() returns "next" and
\* action(), if it is called, returns "act".
Callback(i, next, act) ==
  \/ /\ Fails(StatusToError(i.status))
     /\ Record(StatusToError(i.status))
     /\ reply' = NoLine
  \/ /\ ~Fails(StatusToError(i.status))
     /\ Fails(next.err)
     /\ Record(next.err)
     /\ reply' = NoLine
  \/ /\ ~Fails(StatusToError(i.status))
     /\ ~Fails(next.err)
     /\ ~ActionCalled(i, next)
     /\ Accept(next.state)
     /\ reply' = NoLine
  \/ /\ ActionCalled(i, next)
     /\ IF Fails(act.err)
        THEN Record(act.err) /\ reply' = NoLine
        ELSE IF act.line = NoLine
        THEN Accept(next.state) /\ reply' = NoLine
        ELSE \E w \in WriteOutcomes(i, act.line) :
               /\ reply' = w.reply
               /\ IF Fails(w.err)
                  THEN Record(w.err)
                  ELSE Accept(next.state)

-----------------------------------------------------------------------------
\* gpgme reports a status line.  A callback that returns an error makes it
\* abandon the operation.  It calls again only when gpg said something, and
\* gpg says nothing while it waits for a line.
Call(i, next, act) ==
  /\ running
  /\ prompt = NoPrompt
  /\ Callback(i, next, act)
  /\ prompt' = IF Prompting(i) THEN i ELSE NoPrompt
  /\ running' = (error' = NoError)

\* gpg has read a complete line and goes on.
Consume ==
  /\ running
  /\ prompt # NoPrompt
  /\ reply \in Line
  /\ prompt' = NoPrompt
  /\ reply' = NoLine
  /\ UNCHANGED <<state, error, running>>

\* gpg exits, between two prompts or because it waits in vain and is killed.
Finish ==
  /\ running
  /\ running' = FALSE
  /\ prompt' = NoPrompt
  /\ reply' = NoLine
  /\ UNCHANGED own

\* Context::edit() with the interactor that Context::takeLastEditInteractor()
\* handed back: nothing resets its state or its error.
Reuse ==
  /\ ~running
  /\ running' = TRUE
  /\ prompt' = NoPrompt
  /\ reply' = NoLine
  /\ UNCHANGED own

Init ==
  /\ state = StartState
  /\ error = NoError
  /\ running = TRUE
  /\ prompt = NoPrompt
  /\ reply = NoLine

Next ==
  \/ \E i \in Input, next \in Transition, act \in Result : Call(i, next, act)
  \/ Consume
  \/ Finish
  \/ Reuse

Spec == Init /\ [][Next]_vars

-----------------------------------------------------------------------------
\* The values the variables range over.
TypeOK ==
  /\ state \in State
  /\ error \in Error
  /\ running \in BOOLEAN
  /\ prompt \in Input \cup {NoPrompt}
  /\ reply \in Line \cup {NoLine, Partial}

\* A cancellation is swallowed by Error::operator bool() wherever it comes
\* from, so the error that lastError() returns never is one.
NeverCanceled == error # Canceled

\* A complete line reaches gpg only from a callback that returned success,
\* only in answer to a prompt, and never after an error was recorded, however
\* often the interactor is used again: a half-written answer is never
\* completed and a failed dialogue is not continued.
\* Bytes without a newline are left behind only by a call that also recorded
\* the error, so gpg is never left with half a line and a live operation.
WholeAnswers ==
  /\ reply \in Line => error = NoError /\ running /\ prompt # NoPrompt
  /\ reply = Partial => error # NoError /\ ~running

\* Once an error is recorded, no later call clears it: the interactor that
\* failed keeps failing, also in the operations it is reused for.
ErrorIsSticky == [][error # NoError => error' # NoError]_vars
=============================================================================
