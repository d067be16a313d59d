------------------------ MODULE EditInteractorProofs ------------------------
(***************************************************************************)
(* What the edit callback guarantees for every interactor, for every set   *)
(* of states, status lines, lines and error codes; and what the sign-key   *)
(* interactor, the one that counts, guarantees in a dialogue with gpg, for *)
(* any number of user IDs, states and uses.                                *)
(***************************************************************************)
EXTENDS SignKey, TLAPS

\* The invariants hold together: each needs the types, and none of them needs
\* more of the others than that a call starts from a state without an answer.
IInv == TypeOK /\ NeverCanceled /\ WholeAnswers

-----------------------------------------------------------------------------
\* The error that status_to_error() yields is an error code, and if it fails
\* it is one of the three named ones.
LEMMA StatusErrorType ==
  ASSUME NEW status
  PROVE  StatusToError(status) \in Error
<1>1. StatusToError(status) \in StatusErrors \cup {NoError}
  BY DEF StatusToError, StatusErrors, NoError
<1>2. QED
  BY <1>1, InteractorAssumption

\* Whatever the interactor answers, the callback leaves well-typed values,
\* never a cancellation, and a complete line only without an error; bytes of
\* an incomplete line only with one.
LEMMA CallbackOutcome ==
  ASSUME TypeOK, NeverCanceled,
         NEW i \in Input, NEW next \in Transition, NEW act \in Result,
         Callback(i, next, act)
  PROVE  /\ state' \in State
         /\ error' \in Error
         /\ error' # Canceled
         /\ reply' \in Line \cup {NoLine, Partial}
         /\ reply' \in Line => error' = NoError /\ Prompting(i)
         /\ reply' = Partial => Fails(error')
<1> USE InteractorAssumption
<1>1. CASE Fails(StatusToError(i.status))
  <2>1. /\ error' = StatusToError(i.status)
        /\ state' = ErrorState
        /\ reply' = NoLine
    BY <1>1 DEF Callback, ActionCalled, Record, Accept
  <2>2. QED
    BY <1>1, <2>1, StatusErrorType DEF Fails, NoLine, Partial
<1>2. CASE ~Fails(StatusToError(i.status)) /\ Fails(next.err)
  <2>1. /\ error' = next.err
        /\ state' = ErrorState
        /\ reply' = NoLine
    BY <1>2 DEF Callback, ActionCalled, Record, Accept
  <2>2. QED
    BY <1>2, <2>1 DEF Fails, NoLine, Partial, Transition
<1>3. CASE /\ ~Fails(StatusToError(i.status))
           /\ ~Fails(next.err)
           /\ ~ActionCalled(i, next)
  <2>1. error' = error /\ state' = next.state /\ reply' = NoLine
    BY <1>3 DEF Callback, Accept
  <2>2. QED
    BY <2>1 DEF TypeOK, NeverCanceled, NoLine, Partial, Transition
<1>4. CASE ActionCalled(i, next)
  <2>0. error = NoError
    BY <1>4 DEF ActionCalled
  <2>1. CASE Fails(act.err)
    <3>1. error' = act.err /\ state' = ErrorState /\ reply' = NoLine
      BY <1>4, <2>1 DEF Callback, ActionCalled, Record, Accept
    <3>2. QED
      BY <2>1, <3>1 DEF Fails, NoLine, Partial, Result
  <2>2. CASE ~Fails(act.err) /\ act.line = NoLine
    <3>1. error' = error /\ state' = next.state /\ reply' = NoLine
      BY <1>4, <2>2 DEF Callback, ActionCalled, Accept
    <3>2. QED
      BY <3>1 DEF TypeOK, NeverCanceled, NoLine, Partial, Transition
  <2>3. CASE ~Fails(act.err) /\ act.line # NoLine
    <3>1. PICK w \in WriteOutcomes(i, act.line) :
            /\ reply' = w.reply
            /\ IF Fails(w.err) THEN Record(w.err)
               ELSE Accept(next.state)
      BY <1>4, <2>3 DEF Callback, ActionCalled, Accept
    <3>2. act.line \in Line
      BY <2>3 DEF Result
    <3>3. \/ /\ w.reply = act.line
             /\ w.err = NoError
             /\ Prompting(i)
          \/ /\ w.reply \in {NoLine, Partial}
             /\ w.err \in Error
             /\ Fails(w.err)
      BY <3>1 DEF WriteOutcomes
    <3>4. CASE w.reply = act.line /\ w.err = NoError /\ Prompting(i)
      <4>1. error' = NoError /\ state' = next.state /\ reply' = act.line
        BY <3>1, <3>4, <2>0 DEF Fails, Accept
      <4>2. QED
        BY <4>1, <3>2, <3>4 DEF NoError, Canceled, NoLine, Partial, Transition
    <3>5. CASE w.reply \in {NoLine, Partial} /\ w.err \in Error /\ Fails(w.err)
      <4>1. error' = w.err /\ state' = ErrorState /\ reply' = w.reply
        BY <3>1, <3>5 DEF Record, Accept
      <4>2. QED
        BY <4>1, <3>5 DEF Fails
    <3>6. QED
      BY <3>3, <3>4, <3>5
  <2>4. QED
    BY <2>1, <2>2, <2>3
<1>5. QED
  BY <1>1, <1>2, <1>3, <1>4

-----------------------------------------------------------------------------
LEMMA InitEstablishesIInv == Init => IInv
BY InteractorAssumption
   DEF Init, IInv, TypeOK, NeverCanceled, WholeAnswers,
       NoError, Canceled, NoLine, Partial

LEMMA NextPreservesIInv == IInv /\ [Next]_vars => IInv'
<1> SUFFICES ASSUME IInv, [Next]_vars
             PROVE  IInv'
  OBVIOUS
<1> USE DEF IInv
<1>1. ASSUME NEW i \in Input, NEW next \in Transition, NEW act \in Result,
             Call(i, next, act)
      PROVE  IInv'
  <2>1. /\ prompt' = IF Prompting(i) THEN i ELSE NoPrompt
        /\ running' = (error' = NoError)
    BY <1>1 DEF Call
  <2>2. /\ state' \in State
        /\ error' \in Error
        /\ error' # Canceled
        /\ reply' \in Line \cup {NoLine, Partial}
        /\ reply' \in Line => error' = NoError /\ Prompting(i)
        /\ reply' = Partial => Fails(error')
    BY <1>1, CallbackOutcome DEF Call
  <2>3. TypeOK'
    BY <2>1, <2>2 DEF TypeOK
  <2>4. WholeAnswers'
    BY <2>1, <2>2, InteractorAssumption DEF WholeAnswers, Fails
  <2>5. QED
    BY <2>2, <2>3, <2>4 DEF NeverCanceled
<1>2. CASE Consume
  BY <1>2, InteractorAssumption
  DEF Consume, TypeOK, NeverCanceled, WholeAnswers, NoLine, Partial
<1>3. CASE Finish
  BY <1>3, InteractorAssumption
  DEF Finish, own, TypeOK, NeverCanceled, WholeAnswers, NoLine, Partial
<1>4. CASE Reuse
  BY <1>4, InteractorAssumption
  DEF Reuse, own, TypeOK, NeverCanceled, WholeAnswers, NoLine, Partial
<1>5. CASE UNCHANGED vars
  BY <1>5 DEF vars, TypeOK, NeverCanceled, WholeAnswers
<1>6. QED
  BY <1>1, <1>2, <1>3, <1>4, <1>5 DEF Next

\* The inductive invariant holds in every reachable state.
LEMMA Inductive == Spec => []IInv
BY InitEstablishesIInv, NextPreservesIInv, PTL DEF Spec

\* The variables keep their types, whatever the interactor answers.
THEOREM TypeCorrect == Spec => []TypeOK
<1>1. IInv => TypeOK
  BY DEF IInv
<1>2. QED
  BY <1>1, Inductive, PTL

\* A cancellation is never recorded as the interactor's error.
THEOREM CancellationSwallowed == Spec => []NeverCanceled
<1>1. IInv => NeverCanceled
  BY DEF IInv
<1>2. QED
  BY <1>1, Inductive, PTL

\* gpg gets complete lines only from successful calls, and incomplete ones
\* only from calls that abort the operation.
THEOREM CleanAnswers == Spec => []WholeAnswers
<1>1. IInv => WholeAnswers
  BY DEF IInv
<1>2. QED
  BY <1>1, Inductive, PTL

-----------------------------------------------------------------------------
\* A call keeps the error from before or records one that fails.
LEMMA CallbackError ==
  ASSUME NEW i, NEW next, NEW act, Callback(i, next, act)
  PROVE  error' = error \/ Fails(error')
<1>1. CASE ActionCalled(i, next)
  <2>1. CASE Fails(act.err) \/ act.line = NoLine
    BY <1>1, <2>1 DEF Callback, ActionCalled, Record, Accept
  <2>2. CASE ~Fails(act.err) /\ act.line # NoLine
    <3>1. PICK w \in WriteOutcomes(i, act.line) :
            /\ reply' = w.reply
            /\ IF Fails(w.err) THEN Record(w.err)
               ELSE Accept(next.state)
      BY <1>1, <2>2 DEF Callback, ActionCalled, Accept
    <3>2. QED
      BY <3>1 DEF Record, Accept
  <2>3. QED
    BY <2>1, <2>2
<1>2. CASE ~ActionCalled(i, next)
  BY <1>2 DEF Callback, Record, Accept
<1>3. QED
  BY <1>1, <1>2

\* Once recorded, an error stays recorded, through every later use.
THEOREM StickyError == Spec => ErrorIsSticky
<1>1. [Next]_vars => [error # NoError => error' # NoError]_vars
  <2> SUFFICES ASSUME Next
               PROVE  error # NoError => error' # NoError
    OBVIOUS
  <2>1. ASSUME NEW i \in Input, NEW next \in Transition, NEW act \in Result,
               Call(i, next, act)
        PROVE  error # NoError => error' # NoError
    BY <2>1, CallbackError DEF Call, Fails
  <2>2. CASE Consume \/ Finish \/ Reuse
    BY <2>2 DEF Consume, Finish, Reuse, own
  <2>3. QED
    BY <2>1, <2>2 DEF Next
<1>2. QED
  BY <1>1, PTL DEF Spec, ErrorIsSticky

-----------------------------------------------------------------------------
\* The sign-key interactor.  What its proofs need of a row of makeTable().
RowFacts(r) ==
  /\ r.to \in {COMMAND, UIDS_ANSWER_SIGN_ALL, SET_EXPIRE, SET_CHECK_LEVEL,
               SET_TRUST_VALUE, SET_TRUST_DEPTH, SET_TRUST_REGEXP, CONFIRM,
               QUIT, SAVE}
  /\ r.from = r.to => r.to = CONFIRM /\ r.on \in {Promote, Okay}
  /\ r.to = COMMAND => r.on = MainPrompt /\ r.from \in {START, UIDS_LIST_SEPARATELY_DONE}
  /\ (r.to = UIDS_ANSWER_SIGN_ALL) = (r.on = SignAll)
  /\ r.to = UIDS_ANSWER_SIGN_ALL => r.from = COMMAND
  /\ r.on = Okay => r.to = CONFIRM
  /\ r.to = CONFIRM => r.on \in {Okay, Promote, GetLine("sign_uid.okay")}
  /\ r.to = SET_TRUST_VALUE => r.on = TrustValue
  /\ r.to = SET_TRUST_DEPTH => r.on = TrustDepth
  /\ r.to = SET_TRUST_REGEXP => r.on = TrustRegexp
  /\ r.on = MainPrompt => r.to \in {COMMAND, QUIT}
  /\ r.from = START => r.to = COMMAND
  /\ r.from = UIDS_ANSWER_SIGN_ALL => r.on # MainPrompt
  /\ r.from \notin Listing
  /\ Prompting(r.on)

\* The numbers of the states: the listing lies between two groups of them.
LEMMA StatesDiffer ==
  /\ Slots \in Nat
  /\ UIDS_LIST_SEPARATELY_DONE \in Nat
  /\ UIDS_LIST_SEPARATELY_DONE > 3
  /\ Listing = 3 .. UIDS_LIST_SEPARATELY_DONE - 1
  /\ START = 0 /\ COMMAND = 1 /\ UIDS_ANSWER_SIGN_ALL = 2 /\ UIDS_LIST_SEPARATELY = 3
  /\ SET_EXPIRE = UIDS_LIST_SEPARATELY_DONE + 1
  /\ SET_CHECK_LEVEL = UIDS_LIST_SEPARATELY_DONE + 2
  /\ SET_TRUST_VALUE = UIDS_LIST_SEPARATELY_DONE + 3
  /\ SET_TRUST_DEPTH = UIDS_LIST_SEPARATELY_DONE + 4
  /\ SET_TRUST_REGEXP = UIDS_LIST_SEPARATELY_DONE + 5
  /\ CONFIRM = UIDS_LIST_SEPARATELY_DONE + 6
  /\ QUIT = UIDS_LIST_SEPARATELY_DONE + 7
  /\ SAVE = UIDS_LIST_SEPARATELY_DONE + 8
  /\ ERROR = UIDS_LIST_SEPARATELY_DONE + 9
BY SlotsAssumption
   DEF START, COMMAND, UIDS_ANSWER_SIGN_ALL, UIDS_LIST_SEPARATELY,
       UIDS_LIST_SEPARATELY_DONE, SET_EXPIRE, SET_CHECK_LEVEL, SET_TRUST_VALUE,
       SET_TRUST_DEPTH, SET_TRUST_REGEXP, CONFIRM, QUIT, SAVE, ERROR, Listing

\* Every row of the table has these facts.
LEMMA TableRows ==
  ASSUME NEW r \in Table
  PROVE  RowFacts(r)
<1> USE StatesDiffer
<1>1. r \in FirstEntries \/ r = From(CONFIRM, MainPrompt, QUIT)
  BY DEF Table
<1> USE DEF RowFacts, From, MainPrompt, SaveOkay, GetLine, GetBool, SignAll, Promote,
            Expire, Class, TrustValue, TrustDepth, TrustRegexp, Okay, Prompting
<1>2. CASE r = From(CONFIRM, MainPrompt, QUIT)
  BY <1>2
<1>3. CASE r \in
    { From(START, MainPrompt, COMMAND),
      From(COMMAND, SignAll, UIDS_ANSWER_SIGN_ALL),
      From(COMMAND, Okay, CONFIRM),
      From(UIDS_ANSWER_SIGN_ALL, Okay, CONFIRM),
      From(UIDS_ANSWER_SIGN_ALL, Expire, SET_EXPIRE),
      From(UIDS_ANSWER_SIGN_ALL, Class, SET_CHECK_LEVEL),
      From(SET_TRUST_VALUE, TrustDepth, SET_TRUST_DEPTH),
      From(SET_TRUST_DEPTH, TrustRegexp, SET_TRUST_REGEXP),
      From(SET_TRUST_REGEXP, GetLine("sign_uid.okay"), CONFIRM),
      From(SET_CHECK_LEVEL, Okay, CONFIRM),
      From(SET_EXPIRE, GetBool("sign_uid.class"), SET_CHECK_LEVEL),
      From(UIDS_LIST_SEPARATELY_DONE, MainPrompt, COMMAND),
      From(ERROR, MainPrompt, QUIT),
      From(QUIT, SaveOkay, SAVE) }
  BY <1>3
<1>4. ASSUME NEW s \in {CONFIRM, UIDS_LIST_SEPARATELY_DONE},
             NEW i \in {Promote, Okay, Expire, Class, TrustValue}
      PROVE  /\ i \in {Promote, Okay} => RowFacts(From(s, i, CONFIRM))
             /\ i = Expire => RowFacts(From(s, i, SET_EXPIRE))
             /\ i = Class => RowFacts(From(s, i, SET_CHECK_LEVEL))
             /\ i = TrustValue => RowFacts(From(s, i, SET_TRUST_VALUE))
  BY <1>4
<1>5. CASE \E s \in {CONFIRM, UIDS_LIST_SEPARATELY_DONE} :
             \/ \E i \in {Promote, Okay} : r = From(s, i, CONFIRM)
             \/ r = From(s, Expire, SET_EXPIRE)
             \/ r = From(s, Class, SET_CHECK_LEVEL)
             \/ r = From(s, TrustValue, SET_TRUST_VALUE)
  <2> HIDE DEF RowFacts, From, MainPrompt, SaveOkay, GetLine, GetBool, SignAll, Promote,
            Expire, Class, TrustValue, TrustDepth, TrustRegexp, Okay, Prompting
  <2>1. QED
    BY <1>4, <1>5
<1>6. QED
  <2> HIDE DEF RowFacts, From, MainPrompt, SaveOkay, GetLine, GetBool, SignAll, Promote,
            Expire, Class, TrustValue, TrustDepth, TrustRegexp, Okay, Prompting
  <2>1. QED
    BY <1>1, <1>2, <1>3, <1>5 DEF FirstEntries

\* What nextState() answers, by the part of the function that answers.
ByRow(i) ==
  /\ Prompting(i)
  /\ \E r \in Table : r.from = state /\ r.on = i /\ NextState(i) = Named(r.to)

Quiet(i) == ~Prompting(i) /\ NextState(i) = Named(state)

Listed(i) ==
  /\ i = MainPrompt
  /\ \/ /\ state = UIDS_ANSWER_SIGN_ALL
        /\ ~AllSigned
        /\ NextState(i) = Named(UIDS_LIST_SEPARATELY)
     \/ /\ state \in Listing
        /\ ~AllUserIDsListed
        /\ NextState(i) = Named(state + 1)
     \/ /\ state \in Listing
        /\ AllUserIDsListed
        /\ NextState(i) = Named(UIDS_LIST_SEPARATELY_DONE)

Refused(i) ==
  \/ NextState(i) \in {Unusual("GENERAL"), Unusual("UNUSABLE_PUBKEY")}
  \/ state \in {CONFIRM, ERROR} /\ NextState(i) = Unusual(error)

\* These are all of its answers.
LEMMA NextStateAnswers ==
  ASSUME NEW i
  PROVE  ByRow(i) \/ Quiet(i) \/ Listed(i) \/ Refused(i)
<1>0. Prompting(MainPrompt) /\ (Prompting(i) => ~NeedsNoResponse(i.status))
  BY DEF Prompting, NeedsNoResponse, MainPrompt, GetLine
<1>1. CASE NeedsNoResponse(i.status)
  BY <1>0, <1>1 DEF NextState, Lookup, To, Named, Quiet
<1>2. CASE ~NeedsNoResponse(i.status) /\ Target(Table, state, i) # {}
  <2>1. NextState(i) = To(CHOOSE t \in Target(Table, state, i) : TRUE)
    BY <1>2 DEF NextState, Lookup
  <2>2. PICK t \in Target(Table, state, i) : NextState(i) = To(t)
    BY <1>2, <2>1
  <2>3. PICK r \in Table : r.from = state /\ r.on = i /\ t = r.to
    BY <2>2 DEF Target
  <2>4. Prompting(i)
    BY <2>3, TableRows DEF RowFacts
  <2>5. QED
    BY <2>2, <2>3, <2>4 DEF ByRow, To, Named
<1>3. CASE ~NeedsNoResponse(i.status) /\ Target(Table, state, i) = {}
  <2>1. NextState(i) = Unlisted(i)
    BY <1>3 DEF NextState, Lookup
  <2>2. CASE state = UIDS_ANSWER_SIGN_ALL /\ i = MainPrompt
    <3>1. Unlisted(i) = IF AllSigned THEN Unusual("UNUSABLE_PUBKEY")
                        ELSE Named(UIDS_LIST_SEPARATELY)
      BY <2>2, StatesDiffer DEF Unlisted
    <3>2. QED
      BY <2>1, <2>2, <3>1 DEF Listed, Refused
  <2>3. CASE state \in Listing /\ i = MainPrompt
    <3>1. Unlisted(i) = Named(IF AllUserIDsListed THEN UIDS_LIST_SEPARATELY_DONE
                              ELSE state + 1)
      <4>1. state \notin {UIDS_ANSWER_SIGN_ALL, CONFIRM, ERROR}
        BY <2>3, StatesDiffer
      <4>2. QED
        BY <2>3, <4>1 DEF Unlisted
    <3>2. QED
      BY <2>1, <2>3, <3>1 DEF Listed
  <2>4. CASE i # MainPrompt \/ state \notin {UIDS_ANSWER_SIGN_ALL} \cup Listing
    <3>1. Unlisted(i) = IF state \in {CONFIRM, ERROR} THEN Unusual(error)
                        ELSE Unusual("GENERAL")
      BY <2>4 DEF Unlisted
    <3>2. QED
      BY <2>1, <3>1 DEF Refused
  <2>5. QED
    BY <2>2, <2>3, <2>4
<1>4. QED
  BY <1>1, <1>2, <1>3

\* What action() answers in each state.
LEMMA ActionLines ==
  ASSUME NEW s
  PROVE  /\ s \in {COMMAND, UIDS_LIST_SEPARATELY_DONE} => Action(s) = Says("sign")
         /\ s = UIDS_ANSWER_SIGN_ALL => Action(s) = Says(IF AllSigned THEN "Y" ELSE "N")
         /\ s \in {SET_EXPIRE, CONFIRM, SAVE} => Action(s) = Says("Y")
         /\ s \in {SET_TRUST_VALUE, SET_TRUST_DEPTH, SET_TRUST_REGEXP}
              => Action(s) = Says(NoLine)
         /\ s = SET_CHECK_LEVEL => Action(s) = Says("<level>")
         /\ s = QUIT => Action(s) = Says("quit")
         /\ s \in Listing => Action(s) = Says(CurrentUserID)
         /\ s = ERROR => Action(s) = [line |-> NoLine, err |-> "GENERAL"]
<1>1. CASE s \in {COMMAND, UIDS_LIST_SEPARATELY_DONE}
  <2>1. s \notin {UIDS_ANSWER_SIGN_ALL, SET_EXPIRE, CONFIRM, SAVE, SET_TRUST_VALUE,
                  SET_TRUST_DEPTH, SET_TRUST_REGEXP, SET_CHECK_LEVEL, QUIT, ERROR} \cup Listing
    BY <1>1, StatesDiffer
  <2>2. Action(s) = Says("sign")
    BY <1>1, <2>1 DEF Action
  <2>3. QED
    BY <1>1, <2>1, <2>2
<1>2. CASE s = UIDS_ANSWER_SIGN_ALL
  <2>1. s \notin {COMMAND, UIDS_LIST_SEPARATELY_DONE, SET_EXPIRE, CONFIRM, SAVE, SET_TRUST_VALUE,
                  SET_TRUST_DEPTH, SET_TRUST_REGEXP, SET_CHECK_LEVEL, QUIT, ERROR} \cup Listing
    BY <1>2, StatesDiffer
  <2>2. Action(s) = Says(IF AllSigned THEN "Y" ELSE "N")
    BY <1>2, <2>1 DEF Action
  <2>3. QED
    BY <1>2, <2>1, <2>2
<1>3. CASE s \in {SET_EXPIRE, CONFIRM, SAVE}
  <2>1. s \notin {COMMAND, UIDS_LIST_SEPARATELY_DONE, UIDS_ANSWER_SIGN_ALL, SET_TRUST_VALUE,
                  SET_TRUST_DEPTH, SET_TRUST_REGEXP, SET_CHECK_LEVEL, QUIT, ERROR} \cup Listing
    BY <1>3, StatesDiffer
  <2>2. Action(s) = Says("Y")
    BY <1>3, <2>1 DEF Action
  <2>3. QED
    BY <1>3, <2>1, <2>2
<1>4. CASE s \in {SET_TRUST_VALUE, SET_TRUST_DEPTH, SET_TRUST_REGEXP}
  <2>1. s \notin {COMMAND, UIDS_LIST_SEPARATELY_DONE, UIDS_ANSWER_SIGN_ALL, SET_EXPIRE,
                  CONFIRM, SAVE, SET_CHECK_LEVEL, QUIT, ERROR} \cup Listing
    BY <1>4, StatesDiffer
  <2>2. Action(s) = Says(NoLine)
    BY <1>4, <2>1 DEF Action
  <2>3. QED
    BY <1>4, <2>1, <2>2
<1>5. CASE s \in {SET_CHECK_LEVEL, QUIT}
  <2>1. /\ s \notin {COMMAND, UIDS_LIST_SEPARATELY_DONE, UIDS_ANSWER_SIGN_ALL, SET_EXPIRE,
                     CONFIRM, SAVE, SET_TRUST_VALUE, SET_TRUST_DEPTH, SET_TRUST_REGEXP,
                     ERROR} \cup Listing
        /\ SET_CHECK_LEVEL # QUIT
    BY <1>5, StatesDiffer
  <2>2. Action(s) = IF s = QUIT THEN Says("quit") ELSE Says("<level>")
    BY <1>5, <2>1 DEF Action
  <2>3. QED
    BY <1>5, <2>1, <2>2
<1>6. CASE s \in Listing
  <2>1. s \notin {COMMAND, UIDS_LIST_SEPARATELY_DONE, UIDS_ANSWER_SIGN_ALL, SET_EXPIRE,
                  CONFIRM, SAVE, SET_TRUST_VALUE, SET_TRUST_DEPTH, SET_TRUST_REGEXP,
                  SET_CHECK_LEVEL, QUIT, ERROR}
    BY <1>6, StatesDiffer
  <2>2. Action(s) = Says(CurrentUserID)
    BY <1>6, <2>1 DEF Action
  <2>3. QED
    BY <1>6, <2>1, <2>2
<1>7. CASE s = ERROR
  <2>1. s \notin {COMMAND, UIDS_LIST_SEPARATELY_DONE, UIDS_ANSWER_SIGN_ALL, SET_EXPIRE,
                  CONFIRM, SAVE, SET_TRUST_VALUE, SET_TRUST_DEPTH, SET_TRUST_REGEXP,
                  SET_CHECK_LEVEL, QUIT} \cup Listing
    BY <1>7, StatesDiffer
  <2>2. Action(s) = [line |-> NoLine, err |-> "GENERAL"]
    BY <1>7, <2>1 DEF Action
  <2>3. QED
    BY <1>7, <2>1, <2>2
<1>8. QED
  BY <1>1, <1>2, <1>3, <1>4, <1>5, <1>6, <1>7

\* What becomes of a status line: the call fails, it changes nothing, or gpg
\* waits at the prompt in the next state, with its line written unless there
\* is none or the state stayed as it was.
Aborts(i) ==
  /\ ~running'
  /\ error' # NoError
  /\ error = NoError => state' = ERROR
  /\ \/ nextId' = nextId
     \/ /\ error = NoError
        /\ Listed(i)
        /\ NextState(i).state \in Listing
        /\ nextId' = nextId + 1

Ignores(i) ==
  /\ ~Prompting(i)
  /\ error = NoError
  /\ running'
  /\ prompt' = NoPrompt
  /\ reply' = NoLine
  /\ UNCHANGED <<state, error, nextId>>

Prompts(i) ==
  /\ Prompting(i)
  /\ ByRow(i) \/ Listed(i)
  /\ error = NoError
  /\ error' = NoError
  /\ running'
  /\ prompt' = i
  /\ state' = NextState(i).state
  /\ reply' = IF state' = state THEN NoLine ELSE Action(state').line
  /\ nextId' = IF state' # state /\ state' \in Listing THEN nextId + 1 ELSE nextId

\* A prompt that has a next state leads to one that action() knows, and only
\* the listing leads into the listing.
LEMMA NextStates ==
  ASSUME NEW i, ByRow(i) \/ Listed(i)
  PROVE  /\ Prompting(i)
         /\ NextState(i).err = NoError
         /\ NextState(i).state \in 1 .. SAVE
         /\ Action(NextState(i).state).err = NoError
         /\ NextState(i).state \in Listing => Listed(i)
<1>1. CASE ByRow(i)
  <2>1. PICK r \in Table : r.from = state /\ r.on = i /\ NextState(i) = Named(r.to)
    BY <1>1 DEF ByRow
  <2>2. r.to \in {COMMAND, UIDS_ANSWER_SIGN_ALL, SET_EXPIRE, SET_CHECK_LEVEL,
                  SET_TRUST_VALUE, SET_TRUST_DEPTH, SET_TRUST_REGEXP, CONFIRM,
                  QUIT, SAVE}
    BY TableRows DEF RowFacts
  <2>3. r.to \in 1 .. SAVE /\ r.to \notin Listing
    BY <2>2, StatesDiffer
  <2>4. Action(r.to).err = NoError
    BY <2>2, ActionLines DEF Says
  <2>5. NextState(i).state = r.to /\ NextState(i).err = NoError
    BY <2>1 DEF Named
  <2>6. Prompting(i)
    BY <1>1 DEF ByRow
  <2>7. QED
    BY <2>3, <2>4, <2>5, <2>6
<1>2. CASE Listed(i)
  <2>0. PICK s \in Listing \cup {UIDS_LIST_SEPARATELY_DONE} : NextState(i) = Named(s)
    <3>1. /\ UIDS_LIST_SEPARATELY \in Listing
          /\ \A s \in Listing : s + 1 \in Listing \cup {UIDS_LIST_SEPARATELY_DONE}
      BY StatesDiffer
    <3>2. QED
      BY <1>2, <3>1 DEF Listed
  <2>1. /\ NextState(i).err = NoError
        /\ NextState(i).state \in Listing \cup {UIDS_LIST_SEPARATELY_DONE}
    BY <2>0 DEF Named
  <2>2. NextState(i).state \in 1 .. SAVE
    BY <2>1, StatesDiffer
  <2>3. Action(NextState(i).state).err = NoError
    BY <2>1, ActionLines DEF Says
  <2>4. Prompting(i)
    BY <1>2 DEF Listed, Prompting, MainPrompt, GetLine
  <2>5. QED
    BY <1>2, <2>1, <2>2, <2>3, <2>4
<1>3. QED
  BY <1>1, <1>2

\* A prompt is no status that status_to_error() turns into an error.
LEMMA StatusOfPrompt ==
  ASSUME NEW i, Prompting(i)
  PROVE  StatusToError(i.status) = NoError
BY DEF Prompting, StatusToError, NoError

\* The callback, put together with the answers of this interactor.
LEMMA HearsOutcome ==
  ASSUME NEW i \in Input, error # Canceled, error = NoError => state # ERROR, Hears(i)
  PROVE  Aborts(i) \/ Ignores(i) \/ Prompts(i)
<1> DEFINE next == NextState(i)
           act  == Answering(i)
<1>1. /\ Callback(i, next, act)
      /\ prompt' = IF Prompting(i) THEN i ELSE NoPrompt
      /\ running' = (error' = NoError)
      /\ nextId' = IF Selects(i) THEN nextId + 1 ELSE nextId
  BY DEF Hears, Tell, Call, Advance
<1>2. Selects(i) => ActionCalled(i, next) /\ next.state \in Listing
  BY DEF Selects, Acting
<1> HIDE DEF next, act
<1>3. CASE error # NoError
  <2>1. Fails(error) /\ ~ActionCalled(i, next)
    BY <1>3 DEF Fails, ActionCalled
  <2>2. error' # NoError
    BY <1>1, <1>3, <2>1, CallbackError DEF Fails
  <2>3. QED
    BY <1>1, <1>2, <1>3, <2>1, <2>2 DEF Aborts
<1>4. CASE error = NoError /\ (Fails(StatusToError(i.status)) \/ Fails(next.err))
  <2>1. Fails(error') /\ state' = ErrorState /\ ~ActionCalled(i, next)
    BY <1>1, <1>4 DEF Callback, Record, ActionCalled
  <2>2. QED
    BY <1>1, <1>2, <1>4, <2>1, SignAssumption DEF Aborts, Fails
<1>5. CASE error = NoError /\ ~Fails(StatusToError(i.status)) /\ ~Fails(next.err)
  <2>1. CASE Refused(i)
    <3>1. state = CONFIRM /\ next = Unusual(error)
      BY <1>5, <2>1 DEF Refused, next, Unusual, Fails, NoError, Canceled
    <3>2. ActionCalled(i, next) /\ next.state = ERROR /\ ERROR \notin Listing
      BY <1>5, <3>1, StatesDiffer DEF ActionCalled, Unusual
    <3>3. act = [line |-> NoLine, err |-> "GENERAL"]
      BY <3>2, ActionLines DEF act, next, Answering, Acting
    <3>4. Fails(act.err)
      BY <3>3 DEF Fails, NoError, Canceled
    <3>5. Fails(error') /\ state' = ErrorState
      BY <1>1, <3>2, <3>4 DEF Callback, Record, ActionCalled
    <3>6. QED
      BY <1>1, <1>2, <1>5, <3>2, <3>5, SignAssumption DEF Aborts, Fails
  <2>2. CASE Quiet(i)
    <3>1. next = Named(state) /\ ~Prompting(i)
      BY <2>2 DEF Quiet, next
    <3>2. ~ActionCalled(i, next)
      BY <3>1 DEF Named, ActionCalled
    <3>3. state' = state /\ error' = error /\ reply' = NoLine
      BY <1>1, <1>5, <3>1, <3>2 DEF Callback, Accept, Named
    <3>4. QED
      BY <1>1, <1>2, <1>5, <3>1, <3>2, <3>3 DEF Ignores
  <2>3. CASE ByRow(i) \/ Listed(i)
    <3>1. /\ Prompting(i)
          /\ next.err = NoError
          /\ Action(next.state).err = NoError
          /\ next.state \in Listing => Listed(i)
      BY <2>3, NextStates DEF next
    <3>2. CASE next.state = state
      <4>1. ~ActionCalled(i, next)
        BY <3>2 DEF ActionCalled
      <4>2. state' = state /\ error' = error /\ reply' = NoLine
        BY <1>1, <1>5, <3>2, <4>1 DEF Callback, Accept
      <4>3. QED
        BY <1>1, <1>2, <1>5, <2>3, <3>1, <3>2, <4>1, <4>2 DEF Prompts, next
    <3>3. CASE next.state # state
      <4>1. ActionCalled(i, next)
        BY <1>5, <3>3 DEF ActionCalled
      <4>2. act = Action(next.state)
        BY <4>1 DEF Answering, Acting, act, next
      <4>3. nextId' = IF next.state \in Listing THEN nextId + 1 ELSE nextId
        BY <1>1, <4>1 DEF Selects, Acting, next
      <4>4. \/ error' = error /\ state' = next.state /\ reply' = act.line
            \/ Fails(error') /\ state' = ErrorState
        <5>1. CASE act.line = NoLine
          BY <1>1, <3>1, <4>1, <4>2, <5>1
             DEF Callback, Accept, ActionCalled, Fails
        <5>2. CASE act.line # NoLine
          <6>1. PICK w \in WriteOutcomes(i, act.line) :
                  /\ reply' = w.reply
                  /\ IF Fails(w.err) THEN Record(w.err)
                     ELSE Accept(next.state)
            BY <1>1, <3>1, <4>1, <4>2, <5>2
               DEF Callback, ActionCalled, Fails
          <6>2. Fails(w.err) \/ w.reply = act.line
            BY <3>1, <6>1 DEF WriteOutcomes
          <6>3. QED
            BY <6>1, <6>2 DEF Record, Accept
        <5>3. QED
          BY <5>1, <5>2
      <4>5. QED
        BY <1>1, <1>5, <2>3, <3>1, <3>3, <4>2, <4>3, <4>4, SignAssumption
        DEF Prompts, Aborts, Fails, next
    <3>4. QED
      BY <3>2, <3>3
  <2>4. QED
    BY <2>1, <2>2, <2>3, NextStateAnswers
<1>6. QED
  BY <1>3, <1>4, <1>5

-----------------------------------------------------------------------------
\* nextUserID() yields a line, also past the end.
LEMMA CurrentIsLine ==
  ASSUME userIDs \in UserIDLists, nextId \in Nat, nextId > 0
  PROVE  CurrentUserID \in Line
<1>1. userIDs \in Seq(Line) /\ "<garbage>" \in Line
  BY SignAssumption
<1>2. QED
  BY <1>1 DEF CurrentUserID

\* nextState() and action() answer with states, lines and errors.
LEMMA AnswersTyped ==
  ASSUME NEW i, state \in State, error \in Error, error = NoError => state # ERROR,
         userIDs \in UserIDLists, nextId \in Nat, nextId > 0
  PROVE  NextState(i) \in Transition /\ Answering(i) \in Result
<1>1. /\ 0 .. ERROR \subseteq State /\ ERROR \in 0 .. ERROR /\ 1 .. SAVE \subseteq 0 .. ERROR
      /\ {NoError, "GENERAL", "UNUSABLE_PUBKEY"} \subseteq Error
  <2>1. ERROR \in 0 .. ERROR /\ 1 .. SAVE \subseteq 0 .. ERROR
    BY StatesDiffer
  <2>2. QED
    BY <2>1, SignAssumption, InteractorAssumption
<1>2. NextState(i) \in Transition
  <2>1. CASE ByRow(i) \/ Listed(i)
    <3>1. NextState(i).state \in State
      BY <1>1, <2>1, NextStates
    <3>2. PICK s : NextState(i) = Named(s)
      BY <2>1 DEF ByRow, Listed
    <3>3. QED
      BY <1>1, <3>1, <3>2 DEF Named, Transition
  <2>2. CASE Quiet(i)
    BY <1>1, <2>2 DEF Quiet, Named, Transition
  <2>3. CASE Refused(i)
    BY <1>1, <2>3 DEF Refused, Unusual, Transition
  <2>4. QED
    BY <2>1, <2>2, <2>3, NextStateAnswers
<1>3. CurrentUserID \in Line
  BY CurrentIsLine
<1>4. ASSUME NEW s \in 1 .. ERROR
      PROVE  Action(s) \in Result
  <2>1. \/ s \in {COMMAND, UIDS_LIST_SEPARATELY_DONE, UIDS_ANSWER_SIGN_ALL, SET_EXPIRE,
                  CONFIRM, SAVE, SET_TRUST_VALUE, SET_TRUST_DEPTH, SET_TRUST_REGEXP,
                  SET_CHECK_LEVEL, QUIT, ERROR}
        \/ s \in Listing
    BY StatesDiffer
  <2>2. /\ {"sign", "Y", "N", "<level>", "quit", CurrentUserID} \subseteq Line
        /\ NoError \in Error /\ "GENERAL" \in Error
    BY <1>1, <1>3, SignAssumption
  <2>3. \/ \E l \in Line \cup {NoLine} : Action(s) = Says(l)
        \/ Action(s) = [line |-> NoLine, err |-> "GENERAL"]
    BY <2>1, <2>2, ActionLines
  <2>4. QED
    BY <2>2, <2>3 DEF Says, Result
<1>5. Answering(i) \in Result
  <2>1. CASE Acting(i)
    <3>1. NextState(i).state # state /\ ~Fails(NextState(i).err) /\ error = NoError
      BY <2>1 DEF Acting, ActionCalled
    <3>2. NextState(i).state \in 1 .. ERROR
      <4>1. CASE ByRow(i) \/ Listed(i)
        BY <4>1, NextStates, StatesDiffer
      <4>2. CASE Quiet(i)
        BY <3>1, <4>2 DEF Quiet, Named
      <4>3. CASE Refused(i)
        BY <4>3, StatesDiffer DEF Refused, Unusual
      <4>4. QED
        BY <4>1, <4>2, <4>3, NextStateAnswers
    <3>3. QED
      BY <1>4, <2>1, <3>2 DEF Answering
  <2>2. CASE ~Acting(i)
    BY <1>1, <2>2 DEF Answering, Says, Result
  <2>3. QED
    BY <2>1, <2>2
<1>6. QED
  BY <1>2, <1>5

-----------------------------------------------------------------------------
\* Each of the prompts that matter is asked at one position of gpg's script.
LEMMA OnePosition ==
  /\ Position = {"prompt", "save", "signall", "promote", "expire", "class",
                 "value", "depth", "regexp", "okay"}
  /\ \A p \in Position :
       /\ GpgAsks[p] \in Input /\ Prompting(GpgAsks[p]) /\ GpgAsks[p] # NoPrompt
       /\ GpgAsks[p] # GetLine("sign_uid.okay")
       /\ (GpgAsks[p] = MainPrompt) = (p = "prompt")
       /\ (GpgAsks[p] = SignAll) = (p = "signall")
       /\ (GpgAsks[p] = Promote) = (p = "promote")
       /\ (GpgAsks[p] = TrustValue) = (p = "value")
       /\ (GpgAsks[p] = TrustDepth) = (p = "depth")
       /\ (GpgAsks[p] = TrustRegexp) = (p = "regexp")
       /\ (GpgAsks[p] = Okay) = (p = "okay")
<1>1. /\ Position = {"prompt", "save", "signall", "promote", "expire", "class",
                     "value", "depth", "regexp", "okay"}
      /\ \A p \in Position : GpgAsks[p] \in Input
  BY SignAssumption DEF GpgAsks
<1>2. \A p \in Position :
       /\ Prompting(GpgAsks[p]) /\ GpgAsks[p] # NoPrompt
       /\ GpgAsks[p] # GetLine("sign_uid.okay")
       /\ (GpgAsks[p] = MainPrompt) = (p = "prompt")
       /\ (GpgAsks[p] = SignAll) = (p = "signall")
       /\ (GpgAsks[p] = Promote) = (p = "promote")
       /\ (GpgAsks[p] = TrustValue) = (p = "value")
       /\ (GpgAsks[p] = TrustDepth) = (p = "depth")
       /\ (GpgAsks[p] = TrustRegexp) = (p = "regexp")
       /\ (GpgAsks[p] = Okay) = (p = "okay")
  BY <1>1 DEF GpgAsks, MainPrompt, SaveOkay, SignAll, Promote, Expire, Class, TrustValue,
              TrustDepth, TrustRegexp, Okay, GetLine, GetBool, Prompting, NoPrompt
<1>3. QED
  BY <1>1, <1>2

\* Where gpg's script may lead.
LEMMA ScriptLeads ==
  ASSUME NEW p \in Position, NEW line, NEW r \in Rows(GpgScript, p, line)
  PROVE  /\ r.to \in Position \cup {"exited"}
         /\ r.to \in {"depth", "regexp"} => r.to = p
         /\ r.to = "promote" => p = "promote" \/ "promote" \in asksFor
         /\ r.to = "value" => p = "value" \/ "trust" \in asksFor
         /\ p = "okay" /\ line = "Y" =>
                 \/ r.to = "prompt"
                 \/ "signers" \in asksFor /\ r.to \in Signature
         /\ p = "promote" /\ line = "Y" => r.to \in AfterPromote
         /\ p = "prompt" /\ line = "sign" => r.to \in Signature \cup {"signall"}
         /\ p = "prompt" /\ line \notin {"sign", "quit"} => r.to = "prompt"
         /\ p = "signall" /\ line = "N" => r.to = "prompt"
         /\ p = "signall" /\ line = "Y" => r.to \in Signature
<1>1. /\ Signature \subseteq {"okay", "value", "class", "expire", "promote"}
      /\ AfterPromote \subseteq Signature /\ "promote" \notin AfterPromote
      /\ AfterExpire \subseteq AfterPromote /\ AfterClass \subseteq AfterExpire
      /\ "promote" \in Signature => "promote" \in asksFor
      /\ "value" \in Signature => "trust" \in asksFor
      /\ "okay" \in AfterClass
  BY DEF Signature, AfterPromote, AfterExpire, AfterClass
<1>2. CASE r \in GpgScript /\ r.at = p /\ r.line = line
  <2>1. \/ p = "prompt" /\ line = "quit" /\ r.to \in {"exited", "save"}
        \/ p = "save" /\ line = "Y" /\ r.to = "exited"
        \/ p = "prompt" /\ line = "sign" /\ r.to \in Signature \cup {"signall"}
        \/ p = "signall" /\ line = "Y" /\ r.to \in Signature
        \/ p = "signall" /\ line = "N" /\ r.to = "prompt"
        \/ p = "promote" /\ line = "Y" /\ r.to \in AfterPromote
        \/ p = "expire" /\ line = "Y" /\ r.to \in AfterExpire
        \/ p = "class" /\ line = "<level>" /\ r.to \in AfterClass
        \/ p = "okay" /\ line = "Y" /\ r.to = "prompt"
        \/ p = "okay" /\ line = "Y" /\ "signers" \in asksFor /\ r.to \in Signature
    BY <1>2 DEF GpgScript, QuitRows, Rows1, Row
  <2>2. /\ "promote" \in asksFor \/ "promote" \notin Signature
        /\ "trust" \in asksFor \/ "value" \notin Signature
        /\ AfterExpire \subseteq Signature /\ AfterClass \subseteq Signature
    BY <1>1
  <2>3. r.to \in {"exited", "save", "signall", "prompt"} \cup Signature
    BY <2>1, <2>2, <1>1
  <2>6. /\ r.to \in {"exited", "save", "signall", "prompt", "okay", "value", "class", "expire",
                  "promote"}
    BY <1>1, <2>3
  <2>7. r.to \in Position \cup {"exited"} /\ r.to \notin {"depth", "regexp"}
    BY <2>6, OnePosition
  <2>4. /\ r.to = "promote" => p = "promote" \/ "promote" \in asksFor
        /\ r.to = "value" => p = "value" \/ "trust" \in asksFor
    BY <1>1, <2>1, <2>2
  <2>5. CASE p = "prompt"
    BY <2>1, <2>4, <2>5, <2>7
  <2>8. CASE p = "signall"
    BY <2>1, <2>4, <2>8, <2>7
  <2>9. CASE p \notin {"prompt", "signall"}
    <3>1. p = "okay" /\ line = "Y" =>
                 \/ r.to = "prompt"
                 \/ "signers" \in asksFor /\ r.to \in Signature
      BY <2>1
    <3>2. p = "promote" /\ line = "Y" => r.to \in AfterPromote
      BY <2>1
    <3>3. QED
      BY <2>4, <2>7, <2>9, <3>1, <3>2
  <2>10. QED
    BY <2>5, <2>8, <2>9
<1>3. CASE r = Row(p, line, p, "none") /\ {q \in GpgScript : q.at = p /\ q.line = line} = {}
  <2>1. r.to = p
    BY <1>3 DEF Row
  <2>2. /\ Row("prompt", "sign", "okay", "none") \in GpgScript
        /\ Row("signall", "Y", "okay", "none") \in GpgScript
        /\ Row("signall", "N", "prompt", "none") \in GpgScript
        /\ Row("promote", "Y", "okay", "none") \in GpgScript
        /\ Row("okay", "Y", "prompt", "none") \in GpgScript
    BY <1>1 DEF GpgScript, Rows1
  <2>3. /\ ~(p = "prompt" /\ line = "sign")
        /\ ~(p = "signall" /\ line \in {"Y", "N"})
        /\ ~(p = "promote" /\ line = "Y")
        /\ ~(p = "okay" /\ line = "Y")
    BY <1>3, <2>2 DEF Row
  <2>4. QED
    BY <2>1, <2>3
<1>4. QED
  BY <1>2, <1>3 DEF Rows

-----------------------------------------------------------------------------
\* What gpg waits with at a prompt: the state that the prompt led to.
Fits ==
  /\ state \notin {START, ERROR, SET_TRUST_DEPTH, SET_TRUST_REGEXP}
  /\ (prompt = SignAll) = (state = UIDS_ANSWER_SIGN_ALL)
  /\ prompt = Okay => state = CONFIRM
  /\ state = CONFIRM => prompt \in {Okay, Promote}
  /\ state = SET_TRUST_VALUE => prompt = TrustValue
  /\ prompt = MainPrompt => state \in {COMMAND, UIDS_LIST_SEPARATELY_DONE, QUIT} \cup Listing
  /\ state \in {COMMAND, UIDS_LIST_SEPARATELY_DONE} \cup Listing => prompt = MainPrompt
  /\ state \in {COMMAND, UIDS_LIST_SEPARATELY_DONE} => reply = "sign"
  /\ state = UIDS_ANSWER_SIGN_ALL => reply = IF AllSigned THEN "Y" ELSE "N"
  /\ state = CONFIRM => reply \in {"Y", NoLine}

\* gpg waits at a prompt of its position, with the answer to that prompt.
AtPrompt ==
  running /\ prompt # NoPrompt =>
    /\ error = NoError
    /\ at \in Position
    /\ prompt = GpgAsks[at]
    /\ Fits

\* Optional questions are asked only by a gpg that has them, and the details
\* of a trust signature never, since its first question gets no answer.
Reached ==
  /\ at \notin {"depth", "regexp"}
  /\ at = "promote" => "promote" \in asksFor
  /\ at = "value" => "trust" \in asksFor

\* Once a confirmation is given, gpg asks questions about a signature again
\* only after a promotion, or for another signing key.
Confirmed ==
  running /\ prompt = NoPrompt /\ state = CONFIRM
    => \/ at \in {"prompt", "exited"}
       \/ "promote" \in asksFor /\ at \in AfterPromote
       \/ "signers" \in asksFor /\ at \in Signature

\* What holds in every use, inductive together with FirstUse below.
SInv ==
  /\ IInv
  /\ SignTypeOK
  /\ nextId > 0
  /\ error = NoError => state # ERROR
  /\ AtPrompt
  /\ Reached
  /\ Confirmed
  /\ HangsAreKnown

\* While it lists, the interactor moves on with every main prompt.
LEMMA ListedStates ==
  ASSUME NEW i, Listed(i)
  PROVE  /\ i = MainPrompt
         /\ NextState(i).state \in Listing \cup {UIDS_LIST_SEPARATELY_DONE}
         /\ NextState(i).state # state
<1>1. PICK s \in Listing \cup {UIDS_LIST_SEPARATELY_DONE} :
        NextState(i) = Named(s) /\ s # state
  <2>1. /\ UIDS_LIST_SEPARATELY \in Listing \ {UIDS_ANSWER_SIGN_ALL}
        /\ UIDS_LIST_SEPARATELY_DONE \notin Listing
        /\ \A s \in Listing : /\ s + 1 \in Listing \cup {UIDS_LIST_SEPARATELY_DONE}
                              /\ s + 1 # s
    BY StatesDiffer
  <2>2. QED
    BY <2>1 DEF Listed
<1>2. QED
  BY <1>1 DEF Listed, Named

\* The prompt fits the new state, and only two states may be left without a
\* line: CONFIRM, reached from itself, and SET_TRUST_VALUE.
LEMMA PromptFits ==
  ASSUME NEW i, Prompts(i), 
         i \notin {TrustDepth, TrustRegexp, GetLine("sign_uid.okay")},
         CurrentUserID \in Line, UNCHANGED userIDs
  PROVE  /\ Fits'
         /\ reply' = NoLine => \/ state' = CONFIRM /\ state = CONFIRM
                               \/ state' = SET_TRUST_VALUE
<1>0. /\ prompt' = i
      /\ state' = NextState(i).state
      /\ reply' = IF state' = state THEN NoLine ELSE Action(state').line
      /\ ByRow(i) \/ Listed(i)
      /\ AllSigned' = AllSigned
  BY DEF Prompts, AllSigned
<1>1. CASE ByRow(i)
  <2>1. PICK r \in Table : r.from = state /\ r.on = i /\ NextState(i) = Named(r.to)
    BY <1>1 DEF ByRow
  <2>2. state' = r.to /\ RowFacts(r)
    BY <1>0, <2>1, TableRows DEF Named
  <2>3. state' \in {COMMAND, UIDS_ANSWER_SIGN_ALL, SET_EXPIRE, SET_CHECK_LEVEL,
                    SET_TRUST_VALUE, SET_TRUST_DEPTH, SET_TRUST_REGEXP, CONFIRM,
                    QUIT, SAVE}
    BY <2>2 DEF RowFacts
  <2>4. state' \notin {START, ERROR, UIDS_LIST_SEPARATELY_DONE} \cup Listing
    BY <2>3, StatesDiffer
  <2>5. /\ state' = COMMAND => prompt' = MainPrompt
        /\ (prompt' = SignAll) = (state' = UIDS_ANSWER_SIGN_ALL)
        /\ prompt' = Okay => state' = CONFIRM
        /\ state' = CONFIRM => prompt' \in {Okay, Promote, GetLine("sign_uid.okay")}
        /\ state' = SET_TRUST_VALUE => prompt' = TrustValue
        /\ state' = SET_TRUST_DEPTH => prompt' = TrustDepth
        /\ state' = SET_TRUST_REGEXP => prompt' = TrustRegexp
        /\ prompt' = MainPrompt => state' \in {COMMAND, QUIT}
        /\ state' = state => state' = CONFIRM
    BY <1>0, <2>1, <2>2 DEF RowFacts
  <2>6. prompt' # GetLine("sign_uid.okay")
    BY <1>0
  <2>7. state' # state =>
          /\ state' = COMMAND => reply' = "sign"
          /\ state' = UIDS_ANSWER_SIGN_ALL => reply' = IF AllSigned THEN "Y" ELSE "N"
          /\ state' = CONFIRM => reply' = "Y"
          /\ state' \notin {SET_TRUST_VALUE, SET_TRUST_DEPTH, SET_TRUST_REGEXP}
               => reply' # NoLine
    BY <1>0, <2>3, ActionLines DEF Says, NoLine
  <2>8. state' = state => reply' = NoLine
    BY <1>0
  <2>9. CONFIRM \notin {COMMAND, UIDS_ANSWER_SIGN_ALL, SET_TRUST_VALUE}
    BY StatesDiffer
  <2>10. QED
    BY <1>0, <2>4, <2>5, <2>6, <2>7, <2>8, <2>9 DEF Fits
<1>2. CASE Listed(i)
  <2>1. /\ prompt' = MainPrompt
        /\ state' \in Listing \cup {UIDS_LIST_SEPARATELY_DONE}
        /\ reply' = Action(state').line
    BY <1>0, <1>2, ListedStates
  <2>2. state' \notin {START, ERROR, COMMAND, UIDS_ANSWER_SIGN_ALL, CONFIRM,
                       SET_TRUST_VALUE, SET_TRUST_DEPTH, SET_TRUST_REGEXP}
    BY <2>1, StatesDiffer
  <2>3. /\ state' = UIDS_LIST_SEPARATELY_DONE => reply' = "sign"
        /\ reply' # NoLine
    BY <2>1, ActionLines, InteractorAssumption DEF Says, NoLine
  <2>4. MainPrompt \notin {SignAll, Okay}
    BY DEF MainPrompt, SignAll, Okay, GetLine, GetBool
  <2>5. QED
    BY <2>1, <2>2, <2>3, <2>4 DEF Fits
<1>3. QED
  BY <1>0, <1>1, <1>2

\* gpgme reports a status line.
LEMMA HearsPreserves ==
  ASSUME SInv, NEW i \in Input, Hears(i),
         Prompting(i) => at \in Position /\ i = GpgAsks[at]
  PROVE  SInv'
<1> USE DEF SInv
<1>1. /\ state \in State /\ error \in Error /\ error # Canceled
      /\ userIDs \in UserIDLists /\ nextId \in Nat
  BY DEF SignTypeOK, SessionTypeOK, TypeOK, IInv, NeverCanceled
<1>2. /\ Call(i, NextState(i), Answering(i))
      /\ UNCHANGED <<at, modified, saved, told, uses, commands, userIDs, asksFor>>
      /\ nextId' = IF Selects(i) THEN nextId + 1 ELSE nextId
      /\ running /\ prompt = NoPrompt
  BY DEF Hears, Tell, Advance, gpg, Call
<1>3. NextState(i) \in Transition /\ Answering(i) \in Result
  BY <1>1, AnswersTyped
<1>4. IInv'
  <2>1. Next
    BY <1>2, <1>3 DEF Next
  <2>2. QED
    BY <2>1, NextPreservesIInv
<1>5. SignTypeOK' /\ nextId' > 0
  BY <1>1, <1>2, <1>4 DEF SignTypeOK, SessionTypeOK, IInv
<1>6. Reached'
  BY <1>2 DEF Reached
<1>7. Aborts(i) \/ Ignores(i) \/ Prompts(i)
  BY <1>1, HearsOutcome
<1>8. CASE Aborts(i)
  BY <1>4, <1>5, <1>6, <1>8 DEF Aborts, AtPrompt, Confirmed, HangsAreKnown, Hung
<1>9. CASE Ignores(i)
  <2>1. AfterPromote' = AfterPromote /\ Signature' = Signature
    BY <1>2 DEF AfterPromote, AfterExpire, AfterClass, Signature
  <2>2. Confirmed'
    BY <1>2, <1>9, <2>1 DEF Ignores, Confirmed
  <2>3. QED
    BY <1>4, <1>5, <1>6, <1>9, <2>2 DEF Ignores, AtPrompt, HangsAreKnown, Hung
<1>10. CASE Prompts(i)
  <2>1. /\ error' = NoError /\ prompt' = i /\ state' = NextState(i).state
        /\ at \in Position /\ i = GpgAsks[at] /\ error = NoError
        /\ i # NoPrompt
    BY <1>10, OnePosition DEF Prompts
  <2>2. i \notin {TrustDepth, TrustRegexp, GetLine("sign_uid.okay")}
    BY <2>1, OnePosition DEF Reached
  <2>3. CurrentUserID \in Line
    BY <1>1, CurrentIsLine
  <2>4. /\ Fits'
        /\ reply' = NoLine => \/ state' = CONFIRM /\ state = CONFIRM
                              \/ state' = SET_TRUST_VALUE
    BY <1>2, <1>10, <2>2, <2>3, PromptFits
  <2>5. AtPrompt'
    BY <1>2, <2>1, <2>4 DEF AtPrompt
  <2>6. HangsAreKnown'
    <3>1. SUFFICES ASSUME reply' = NoLine
                   PROVE  HangsAreKnown'
      BY DEF HangsAreKnown, Hung
    <3>2. CASE state' = CONFIRM /\ state = CONFIRM
      <4>1. i \in {Okay, Promote} /\ at \in {"okay", "promote"}
        BY <2>1, <2>4, <3>2, OnePosition DEF Fits
      <4>2. \/ "promote" \in asksFor /\ at \in AfterPromote
            \/ "signers" \in asksFor
        BY <1>2, <3>2, <4>1 DEF Confirmed
      <4>3. "promote" \notin AfterPromote
        BY DEF AfterPromote, AfterExpire, AfterClass
      <4>4. \/ i = Okay /\ asksFor \cap {"signers", "promote"} # {}
            \/ i = Promote /\ "signers" \in asksFor
        <5>1. at = "promote" => "signers" \in asksFor
          BY <4>2, <4>3
        <5>2. at = "promote" \/ i = Okay
          BY <2>1, <4>1, OnePosition
        <5>3. QED
          BY <4>1, <4>2, <5>1, <5>2
      <4>5. QED
        BY <1>2, <2>1, <3>2, <4>4 DEF HangsAreKnown
    <3>3. CASE state' = SET_TRUST_VALUE
      <4>1. at = "value"
        BY <2>1, <2>4, <3>3, OnePosition DEF Fits
      <4>2. "trust" \in asksFor'
        BY <1>2, <4>1 DEF Reached
      <4>3. QED
        BY <3>3, <4>2 DEF HangsAreKnown
    <3>4. QED
      BY <2>4, <3>1, <3>2, <3>3
  <2>7. Confirmed' /\ state' # ERROR
    BY <2>1, <2>4 DEF Confirmed, Fits
  <2>8. QED
    BY <1>4, <1>5, <1>6, <2>1, <2>5, <2>6, <2>7
<1>11. QED
  BY <1>7, <1>8, <1>9, <1>10

\* gpg reads a line.
LEMMA ReadPreserves ==
  ASSUME SInv, ReadIt
  PROVE  SInv'
<1> USE DEF SInv
<1>1. /\ at \in Position /\ Consume /\ UNCHANGED <<uses, userIDs, nextId, asksFor>>
      /\ running /\ prompt # NoPrompt /\ reply \in Line
      /\ prompt' = NoPrompt /\ reply' = NoLine
      /\ UNCHANGED <<state, error, running>>
  BY DEF ReadIt, Read, Consume, own2
<1>2. PICK r \in Rows(GpgScript, at, reply) :
        /\ at' = r.to
        /\ modified' = (modified \/ r.does = "modify")
        /\ saved' = (saved \/ r.does = "save")
        /\ told' = told \cup {<<at, reply>>}
  BY DEF ReadIt, Read
<1>3. IInv'
  <2>1. Next
    BY <1>1 DEF Next
  <2>2. QED
    BY <2>1, NextPreservesIInv
<1>4. SignTypeOK' /\ nextId' > 0
  <2>1. at' \in Position \cup {"exited"}
    BY <1>1, <1>2, ScriptLeads
  <2>2. told' \subseteq Position \X Line
    BY <1>1, <1>2 DEF SignTypeOK, SessionTypeOK
  <2>3. modified' \in BOOLEAN /\ saved' \in BOOLEAN
    BY <1>2
  <2>4. commands' \in 0 .. 2
    <3>1. commands \in 0 .. 2
      BY DEF SignTypeOK, SessionTypeOK
    <3>2. \/ commands' = commands
          \/ commands < 2 /\ commands' = commands + 1
      BY DEF ReadIt, Read
    <3>3. QED
      BY <3>1, <3>2
  <2>5. QED
    BY <1>1, <1>3, <2>1, <2>2, <2>3, <2>4 DEF SignTypeOK, SessionTypeOK, IInv
<1>5. Reached'
  BY <1>1, <1>2, ScriptLeads DEF Reached
<1>6. Confirmed'
  <2>1. SUFFICES ASSUME state = CONFIRM
                 PROVE  Confirmed'
    BY <1>1 DEF Confirmed
  <2>2. prompt \in {Okay, Promote} /\ prompt = GpgAsks[at] /\ reply = "Y"
    BY <1>1, <2>1, InteractorAssumption DEF AtPrompt, Fits
  <2>3. at \in {"okay", "promote"}
    BY <1>1, <2>2, OnePosition
  <2>4. \/ at' = "prompt"
        \/ "promote" \in asksFor /\ at' \in AfterPromote
        \/ "signers" \in asksFor /\ at' \in Signature
    BY <1>1, <1>2, <2>2, <2>3, ScriptLeads DEF Reached
  <2>5. AfterPromote' = AfterPromote /\ Signature' = Signature
    BY <1>1 DEF AfterPromote, AfterExpire, AfterClass, Signature
  <2>6. QED
    BY <1>1, <2>4, <2>5 DEF Confirmed
<1>7. QED
  BY <1>1, <1>3, <1>4, <1>5, <1>6 DEF AtPrompt, HangsAreKnown, Hung

-----------------------------------------------------------------------------
\* The states before the listing, and what gpg acted on.
Early == {START, COMMAND, UIDS_ANSWER_SIGN_ALL}

SaidNo == <<"signall", "N">> \in told
Signed == <<"okay", "Y">> \in told
Told(k) == <<"prompt", userIDs[k]>> \in told

\* How far a first dialogue has come: no user ID is selected before the listing,
\* all before the current one while it lasts, and after it all of them if there
\* are states enough; nothing is signed before it is over.
FirstRun ==
  /\ error = NoError
  /\ state \in Early => nextId = 1 /\ ~Signed
  /\ state \in {START, COMMAND} => ~SaidNo
  /\ state = UIDS_ANSWER_SIGN_ALL /\ SaidNo
       => prompt = NoPrompt /\ at = "prompt" /\ ~AllSigned
  /\ state \in Listing
       => /\ at = "prompt"
          /\ ~Signed
          /\ prompt # NoPrompt => reply = userIDs[nextId - 1]
          /\ \A k \in 1 .. nextId - 1 :
               Told(k) \/ (prompt # NoPrompt /\ k = nextId - 1)
  /\ state = UIDS_LIST_SEPARATELY_DONE
       => Selected /\ (prompt = NoPrompt => at # "prompt")
  /\ state \notin Early \cup Listing /\ SaidNo /\ Len(userIDs) <= Slots
       => \A k \in 1 .. Len(userIDs) : Told(k)

\* The properties of the first use.  They are not inductive for later ones:
\* nothing resets the state and the iterator.
FirstUse ==
  /\ uses = 1 /\ running => FirstRun
  /\ uses = 1 => /\ nextId <= Len(userIDs) + 1
                 /\ state \in Listing => nextId = state - UIDS_LIST_SEPARATELY + 2
  /\ SelectedBeforeSigning
\* A status line in the first use.
LEMMA HearsFirst ==
  ASSUME SInv, FirstUse, NEW i \in Input, Hears(i),
         Prompting(i) => at \in Position /\ i = GpgAsks[at]
  PROVE  FirstUse'
<1>1. /\ error # Canceled /\ (error = NoError => state # ERROR)
      /\ userIDs \in Seq(Line) /\ nextId \in Nat /\ nextId > 0 /\ state \in Nat
      /\ Len(userIDs) \in Nat
  <2>1. userIDs \in Seq(Line) /\ state \in Nat
    BY SignAssumption DEF SInv, SignTypeOK, SessionTypeOK, TypeOK
  <2>2. QED
    BY <2>1 DEF SInv, SignTypeOK, SessionTypeOK, IInv, NeverCanceled
<1>2. /\ UNCHANGED <<at, told, uses, userIDs>>
      /\ running /\ prompt = NoPrompt
  BY DEF Hears, Tell, Advance, gpg, Call
<1>3. /\ SelectedBeforeSigning'
      /\ SaidNo' = SaidNo /\ Signed' = Signed /\ Selected' = Selected
      /\ AllSigned' = AllSigned /\ \A k \in Nat : Told(k)' = Told(k)
  BY <1>2 DEF FirstUse, SelectedBeforeSigning, SaidNo, Signed, Selected, AllSigned, Told
<1>4. SUFFICES ASSUME uses = 1
               PROVE  /\ running' => FirstRun'
                      /\ nextId' <= Len(userIDs) + 1
                      /\ state' \in Listing => nextId' = state' - UIDS_LIST_SEPARATELY + 2
  BY <1>2, <1>3 DEF FirstUse
<1>5. /\ FirstRun
      /\ nextId <= Len(userIDs) + 1
      /\ state \in Listing => nextId = state - UIDS_LIST_SEPARATELY + 2
  BY <1>2, <1>4 DEF FirstUse
<1>6. ~AllSigned => Len(userIDs) > 0
  BY <1>1 DEF AllSigned
<1>7. CASE Aborts(i)
  <2>1. state' = ERROR /\ ~running'
    BY <1>5, <1>7 DEF Aborts, FirstRun
  <2>2. state' \notin Listing
    BY <2>1, StatesDiffer
  <2>3. Listed(i) /\ NextState(i).state \in Listing => nextId <= Len(userIDs)
    <3>1. SUFFICES ASSUME Listed(i), NextState(i).state \in Listing
                   PROVE  nextId <= Len(userIDs)
      OBVIOUS
    <3>2. CASE state = UIDS_ANSWER_SIGN_ALL /\ ~AllSigned
      BY <1>1, <1>5, <1>6, <3>2 DEF FirstRun, Early
    <3>3. CASE state \in Listing /\ ~AllUserIDsListed
      BY <1>1, <1>5, <3>3 DEF AllUserIDsListed
    <3>4. NextState(i) # Named(UIDS_LIST_SEPARATELY_DONE)
      BY <3>1, StatesDiffer DEF Named
    <3>5. QED
      BY <3>1, <3>2, <3>3, <3>4 DEF Listed
  <2>4. nextId' <= Len(userIDs) + 1
    BY <1>1, <1>5, <1>7, <2>3 DEF Aborts
  <2>5. QED
    BY <2>1, <2>2, <2>4
<1>8. CASE Ignores(i)
  <2>1. UNCHANGED <<state, error, nextId, prompt>>
    BY <1>2, <1>8 DEF Ignores
  <2>2. FirstRun'
    BY <1>1, <1>2, <1>3, <1>5, <2>1 DEF FirstRun
  <2>3. QED
    BY <1>5, <2>1, <2>2
<1>9. CASE Prompts(i) /\ ByRow(i)
  <2>1. PICK r \in Table : r.from = state /\ r.on = i /\ NextState(i) = Named(r.to)
    BY <1>9 DEF ByRow
  <2>2. /\ state' = r.to /\ RowFacts(r) /\ at \in Position /\ i = GpgAsks[at]
        /\ error' = NoError /\ prompt' = i
    BY <1>9, <2>1, TableRows DEF Named, Prompts
  <2>3. /\ state' \in {COMMAND, UIDS_ANSWER_SIGN_ALL, SET_EXPIRE, SET_CHECK_LEVEL,
                       SET_TRUST_VALUE, SET_TRUST_DEPTH, SET_TRUST_REGEXP, CONFIRM,
                       QUIT, SAVE}
        /\ state \notin Listing
    BY <2>1, <2>2 DEF RowFacts
  <2>4. state' \notin {START, UIDS_LIST_SEPARATELY_DONE} \cup Listing
    BY <2>3, StatesDiffer
  <2>5. nextId' = nextId
    BY <1>9, <2>4 DEF Prompts
  <2>6. state' = COMMAND => nextId = 1 /\ ~Signed /\ ~SaidNo
    <3>1. SUFFICES ASSUME state' = COMMAND
                   PROVE  nextId = 1 /\ ~Signed /\ ~SaidNo
      OBVIOUS
    <3>2. i = MainPrompt /\ state \in {START, UIDS_LIST_SEPARATELY_DONE}
      BY <2>1, <2>2, <3>1 DEF RowFacts
    <3>3. at = "prompt"
      <4>1. at \in Position /\ GpgAsks[at] = MainPrompt
        BY <2>2, <3>2
      <4>2. QED
        BY <4>1, OnePosition
    <3>4. state = START
      BY <1>2, <1>5, <3>2, <3>3 DEF FirstRun
    <3>5. QED
      BY <1>5, <3>4 DEF FirstRun, Early
  <2>7. state' = UIDS_ANSWER_SIGN_ALL => nextId = 1 /\ ~Signed /\ ~SaidNo
    BY <1>5, <2>1, <2>2 DEF RowFacts, FirstRun, Early
  <2>8. state' \notin {COMMAND, UIDS_ANSWER_SIGN_ALL} /\ SaidNo /\ Len(userIDs) <= Slots
          => \A k \in 1 .. Len(userIDs) : Told(k)
    <3>1. SUFFICES ASSUME state' \notin {COMMAND, UIDS_ANSWER_SIGN_ALL}, SaidNo,
                          Len(userIDs) <= Slots
                   PROVE  \A k \in 1 .. Len(userIDs) : Told(k)
      OBVIOUS
    <3>2. state \notin {START, COMMAND}
      BY <1>5, <3>1 DEF FirstRun
    <3>3. state # UIDS_ANSWER_SIGN_ALL
      <4>1. SUFFICES ASSUME state = UIDS_ANSWER_SIGN_ALL
                     PROVE  FALSE
        OBVIOUS
      <4>2. at = "prompt"
        BY <1>5, <3>1, <4>1 DEF FirstRun
      <4>3. i = MainPrompt
        BY <2>2, <4>2, OnePosition
      <4>4. QED
        BY <2>1, <2>2, <4>1, <4>3 DEF RowFacts
    <3>4. QED
      BY <1>5, <2>3, <3>1, <3>2, <3>3 DEF FirstRun, Early
  <2>9. prompt' # NoPrompt
    BY <2>2, OnePosition
  <2>10. FirstRun'
    BY <1>1, <1>2, <1>3, <2>2, <2>4, <2>5, <2>6, <2>7, <2>8 DEF FirstRun, Early
  <2>11. QED
    BY <1>5, <2>4, <2>5, <2>10
<1>10. CASE Prompts(i) /\ Listed(i)
  <2>1. /\ i = MainPrompt /\ state' = NextState(i).state /\ state' # state
        /\ reply' = Action(state').line
        /\ nextId' = IF state' \in Listing THEN nextId + 1 ELSE nextId
        /\ at \in Position /\ i = GpgAsks[at]
        /\ error' = NoError /\ prompt' = i
    BY <1>10, ListedStates DEF Prompts
  <2>2. at = "prompt" /\ prompt' # NoPrompt
    BY <2>1, OnePosition
  <2>3. CASE /\ state = UIDS_ANSWER_SIGN_ALL
             /\ ~AllSigned
             /\ NextState(i) = Named(UIDS_LIST_SEPARATELY)
    <3>1. state' = UIDS_LIST_SEPARATELY
      BY <2>1, <2>3 DEF Named
    <3>2. /\ state' \in Listing /\ state' - UIDS_LIST_SEPARATELY = 0
          /\ state' \notin Early /\ state' # UIDS_LIST_SEPARATELY_DONE
      BY <3>1, StatesDiffer DEF Early
    <3>3. nextId = 1 /\ nextId' = 2 /\ ~Signed
      BY <1>5, <2>1, <2>3, <3>2 DEF FirstRun, Early
    <3>4. reply' = userIDs[1]
      BY <1>1, <1>6, <2>1, <2>3, <3>2, <3>3, ActionLines DEF Says, CurrentUserID
    <3>5. FirstRun'
      BY <1>2, <1>3, <2>1, <2>2, <3>2, <3>3, <3>4 DEF FirstRun, Early
    <3>6. QED
      BY <1>1, <1>6, <2>3, <3>2, <3>3, <3>5
  <2>4. CASE /\ state \in Listing
             /\ ~AllUserIDsListed
             /\ NextState(i) = Named(state + 1)
    <3>1. state' = state + 1
      BY <2>1, <2>4 DEF Named
    <3>2. nextId <= Len(userIDs) /\ ~Signed /\ \A k \in 1 .. nextId - 1 : Told(k)
      BY <1>1, <1>2, <1>5, <2>4 DEF AllUserIDsListed, FirstRun
    <3>3. CASE state' \in Listing
      <4>1. nextId' = nextId + 1 /\ nextId' = state' - UIDS_LIST_SEPARATELY + 2
        BY <1>1, <1>5, <2>1, <2>4, <3>1, <3>3, StatesDiffer
      <4>2. state' \notin Early /\ state' # UIDS_LIST_SEPARATELY_DONE
        BY <3>3, StatesDiffer DEF Early
      <4>3. reply' = userIDs[nextId]
        BY <2>1, <3>2, <3>3, ActionLines DEF Says, CurrentUserID
      <4>4. nextId' - 1 = nextId
        BY <1>1, <4>1
      <4>5. \A k \in 1 .. nextId' - 1 : Told(k) \/ k = nextId' - 1
        BY <1>1, <3>2, <4>4
      <4>6. FirstRun'
        BY <1>1, <1>2, <1>3, <2>1, <2>2, <3>2, <3>3, <4>2, <4>3, <4>4, <4>5
           DEF FirstRun, Early
      <4>7. QED
        BY <1>1, <3>2, <4>1, <4>6
    <3>4. CASE state' \notin Listing
      <4>1. /\ state' = UIDS_LIST_SEPARATELY_DONE /\ state' \notin Early
            /\ nextId = Slots + 1 /\ nextId' = nextId
        BY <1>1, <1>5, <2>1, <2>4, <3>1, <3>4, StatesDiffer, SlotsAssumption
           DEF Early, UIDS_LIST_SEPARATELY_DONE
      <4>2. 1 \in 1 .. nextId - 1 /\ 1 \in 1 .. Len(userIDs)
        BY <1>1, <3>2, <4>1, SlotsAssumption
      <4>3. Selected
        BY <3>2, <4>2 DEF Selected, Told
      <4>4. ~(Len(userIDs) <= Slots)
        BY <1>1, <3>2, <4>1, SlotsAssumption
      <4>5. FirstRun'
        BY <1>2, <1>3, <2>1, <2>2, <3>4, <4>1, <4>3, <4>4, StatesDiffer
           DEF FirstRun, Early
      <4>6. QED
        BY <1>5, <3>4, <4>1, <4>5
    <3>5. QED
      BY <3>3, <3>4
  <2>5. CASE /\ state \in Listing
             /\ AllUserIDsListed
             /\ NextState(i) = Named(UIDS_LIST_SEPARATELY_DONE)
    <3>1. state' = UIDS_LIST_SEPARATELY_DONE
      BY <2>1, <2>5 DEF Named
    <3>2. state' \notin Early \cup Listing /\ nextId' = nextId
      BY <2>1, <3>1, StatesDiffer DEF Early
    <3>3. nextId - 1 = Len(userIDs) /\ \A k \in 1 .. Len(userIDs) : Told(k)
      BY <1>1, <1>2, <1>5, <2>5 DEF AllUserIDsListed, FirstRun
    <3>4. nextId >= 2
      BY <1>1, <1>5, <2>5, StatesDiffer
    <3>5. Selected
      BY <1>1, <3>3, <3>4 DEF Selected, Told
    <3>6. FirstRun'
      BY <1>1, <1>2, <1>3, <2>1, <2>2, <3>1, <3>2, <3>3, <3>5 DEF FirstRun, Early
    <3>7. QED
      BY <1>5, <3>2, <3>6
  <2>6. QED
    BY <1>10, <2>3, <2>4, <2>5 DEF Listed
<1>11. Aborts(i) \/ Ignores(i) \/ Prompts(i)
  BY <1>1, HearsOutcome
<1>12. QED
  BY <1>7, <1>8, <1>9, <1>10, <1>11 DEF Prompts

\* gpg reads a line in the first use.
LEMMA ReadFirst ==
  ASSUME SInv, FirstUse, ReadIt
  PROVE  FirstUse'
<1>1. /\ at \in Position /\ UNCHANGED <<uses, userIDs, nextId>>
      /\ running /\ prompt # NoPrompt /\ reply \in Line
      /\ prompt' = NoPrompt
      /\ UNCHANGED <<state, error, running>>
  BY DEF ReadIt, Read, Consume, own2
<1>2. PICK r \in Rows(GpgScript, at, reply) :
        /\ at' = r.to
        /\ told' = told \cup {<<at, reply>>}
  BY DEF ReadIt, Read
<1>3. userIDs \in Seq(Line \ {"sign", "quit"}) /\ nextId \in Nat /\ nextId > 0
      /\ Len(userIDs) \in Nat
  BY SignAssumption DEF SInv, SignTypeOK
<1>4. Fits /\ prompt = GpgAsks[at]
  BY <1>1 DEF SInv, AtPrompt
<1>5. /\ at = "okay" => state = CONFIRM
      /\ (at = "signall") = (state = UIDS_ANSWER_SIGN_ALL)
      /\ state \in {COMMAND, UIDS_LIST_SEPARATELY_DONE} \cup Listing => at = "prompt"
  BY <1>1, <1>4, OnePosition DEF Fits
<1>6. /\ CONFIRM \notin Early \cup Listing
      /\ UIDS_ANSWER_SIGN_ALL \notin {START, COMMAND} \cup Listing
      /\ START \notin Listing
  BY StatesDiffer DEF Early
<1>7. /\ Signed => Signed'
      /\ Signed' => Signed \/ at = "okay"
      /\ SaidNo => SaidNo'
      /\ SaidNo' => SaidNo \/ (at = "signall" /\ reply = "N")
      /\ Selected => Selected'
      /\ AllSigned' = AllSigned
      /\ \A k : Told(k) => Told(k)'
  BY <1>1, <1>2 DEF Signed, SaidNo, Selected, AllSigned, Told
<1>8. SUFFICES ASSUME uses = 1
               PROVE  FirstRun' /\ SelectedBeforeSigning'
  BY <1>1 DEF FirstUse, SelectedBeforeSigning
<1>9. /\ FirstRun
      /\ nextId <= Len(userIDs) + 1
      /\ state \in Listing => nextId = state - UIDS_LIST_SEPARATELY + 2
  BY <1>1, <1>8 DEF FirstUse
<1>10. FirstRun'
  <2>1. error' = NoError
    BY <1>1, <1>9 DEF FirstRun
  <2>2. state \in Early => nextId' = 1 /\ ~Signed'
    BY <1>1, <1>5, <1>6, <1>7, <1>9 DEF FirstRun
  <2>3. state \in {START, COMMAND} => ~SaidNo'
    BY <1>5, <1>6, <1>7, <1>9 DEF FirstRun
  <2>4. state = UIDS_ANSWER_SIGN_ALL /\ SaidNo' => at' = "prompt" /\ ~AllSigned
    <3>1. SUFFICES ASSUME state = UIDS_ANSWER_SIGN_ALL, SaidNo'
                   PROVE  at' = "prompt" /\ ~AllSigned
      OBVIOUS
    <3>2. at = "signall" /\ reply = "N"
      BY <1>1, <1>7, <1>9, <3>1 DEF FirstRun
    <3>3. at' = "prompt"
      BY <1>1, <1>2, <3>2, ScriptLeads
    <3>4. QED
      BY <1>4, <3>1, <3>2, <3>3 DEF Fits
  <2>5. state \in Listing =>
          at' = "prompt" /\ ~Signed' /\ \A k \in 1 .. nextId - 1 : Told(k)'
    <3>1. SUFFICES ASSUME state \in Listing
                   PROVE  at' = "prompt" /\ ~Signed' /\ \A k \in 1 .. nextId - 1 : Told(k)'
      OBVIOUS
    <3>2. /\ at = "prompt" /\ ~Signed /\ reply = userIDs[nextId - 1]
          /\ \A k \in 1 .. nextId - 1 : Told(k) \/ k = nextId - 1
      BY <1>1, <1>9, <3>1 DEF FirstRun
    <3>3. nextId - 1 \in 1 .. Len(userIDs)
      BY <1>3, <1>9, <3>1, StatesDiffer
    <3>4. reply \notin {"sign", "quit"}
      BY <1>3, <3>2, <3>3
    <3>5. at' = "prompt"
      BY <1>1, <1>2, <3>2, <3>4, ScriptLeads
    <3>6. \A k \in 1 .. nextId - 1 : Told(k)'
      BY <1>1, <1>2, <3>2 DEF Told
    <3>7. QED
      BY <1>7, <3>2, <3>5, <3>6
  <2>6. state = UIDS_LIST_SEPARATELY_DONE => Selected' /\ at' # "prompt"
    <3>1. SUFFICES ASSUME state = UIDS_LIST_SEPARATELY_DONE
                   PROVE  Selected' /\ at' # "prompt"
      OBVIOUS
    <3>2. at = "prompt" /\ reply = "sign"
      BY <1>4, <1>5, <3>1 DEF Fits
    <3>3. at' \in Signature \cup {"signall"}
      BY <1>1, <1>2, <3>2, ScriptLeads
    <3>4. "prompt" \notin Signature
      BY DEF Signature, AfterPromote, AfterExpire, AfterClass
    <3>5. QED
      BY <1>7, <1>9, <3>1, <3>3, <3>4 DEF FirstRun
  <2>7. state \notin Early \cup Listing /\ SaidNo' /\ Len(userIDs) <= Slots
          => \A k \in 1 .. Len(userIDs) : Told(k)'
    <3>1. state \notin Early => state # UIDS_ANSWER_SIGN_ALL
      BY DEF Early
    <3>2. QED
      BY <1>5, <1>7, <1>9, <3>1 DEF FirstRun
  <2>8. QED
    BY <1>1, <1>7, <2>1, <2>2, <2>3, <2>4, <2>5, <2>6, <2>7 DEF FirstRun
<1>11. SelectedBeforeSigning'
  <2>1. SUFFICES ASSUME SaidNo', Signed', Len(userIDs) <= Slots
                 PROVE  \A k \in 1 .. Len(userIDs) : Told(k)'
    BY <1>1 DEF SelectedBeforeSigning, SaidNo, Signed, Told
  <2>2. state' \notin Early \cup Listing
    BY <1>10, <2>1 DEF FirstRun
  <2>3. QED
    BY <1>1, <1>10, <2>1, <2>2 DEF FirstRun
<1>12. QED
  BY <1>8, <1>10, <1>11

-----------------------------------------------------------------------------
\* The invariant holds initially and is preserved by every action.
LEMMA SignInitHolds == SignInit => SInv /\ FirstUse
<1> SUFFICES ASSUME SignInit
             PROVE  SInv /\ FirstUse
  OBVIOUS
<1>1. /\ Init /\ at = "prompt" /\ modified = FALSE /\ saved = FALSE /\ told = {}
      /\ uses = 1 /\ commands = 0 /\ userIDs \in UserIDLists /\ nextId = 1
      /\ asksFor \subseteq OptionalQuestions
      /\ state = START /\ error = NoError /\ prompt = NoPrompt
  BY SignAssumption DEF SignInit, SessionInit, Init
<1>2. IInv
  BY <1>1, InitEstablishesIInv
<1>3. Len(userIDs) \in Nat
  BY <1>1, SignAssumption
<1>4. START \notin Listing \cup {ERROR, CONFIRM, UIDS_ANSWER_SIGN_ALL,
                               UIDS_LIST_SEPARATELY_DONE} /\ START \in Early
  BY StatesDiffer DEF Early
<1>5. SignTypeOK
  <2>1. at \in Position /\ told \subseteq Position \X Line
    BY <1>1, OnePosition
  <2>2. uses \in 1 .. MaxUses /\ commands \in 0 .. 2 /\ nextId \in Nat
    BY <1>1, SessionAssumption
  <2>3. modified \in BOOLEAN /\ saved \in BOOLEAN
    BY <1>1
  <2>4. SessionTypeOK
    BY <1>2, <2>1, <2>2, <2>3 DEF SessionTypeOK, IInv
  <2>5. QED
    BY <1>1, <2>2, <2>4 DEF SignTypeOK
<1>6. SInv
  BY <1>1, <1>2, <1>4, <1>5
     DEF SInv, AtPrompt, Reached, Confirmed, HangsAreKnown, Hung
<1>7. FirstUse
  BY <1>1, <1>3, <1>4 DEF FirstUse, FirstRun, SelectedBeforeSigning, SaidNo, Signed
<1>8. QED
  BY <1>6, <1>7

\* Where the operation ends, nothing is left to wait for.
LEMMA EndPreserves ==
  ASSUME SInv, FirstUse, ExitIt \/ KillIt
  PROVE  SInv' /\ FirstUse'
<1>1. /\ Finish /\ running' = FALSE /\ prompt' = NoPrompt /\ reply' = NoLine
      /\ UNCHANGED <<state, error, modified, saved, told, uses, commands,
                     userIDs, nextId, asksFor>>
      /\ at' \in {at, "exited"}
  BY DEF ExitIt, KillIt, Exit, Killed, Finish, own, gpg, own2
<1>2. IInv'
  BY <1>1, NextPreservesIInv DEF Next, SInv
<1>3. SignTypeOK'
  BY <1>1, <1>2 DEF SInv, SignTypeOK, SessionTypeOK, IInv
<1>4. SInv'
  BY <1>1, <1>2, <1>3 DEF SInv, AtPrompt, Reached, Confirmed, HangsAreKnown, Hung
<1>5. FirstUse'
  BY <1>1 DEF FirstUse, SelectedBeforeSigning
<1>6. QED
  BY <1>4, <1>5

\* The interactor is used again, as the last dialogue left it.
LEMMA AgainPreserves ==
  ASSUME SInv, AgainIt
  PROVE  SInv' /\ FirstUse'
<1>1. /\ Reuse /\ prompt' = NoPrompt /\ reply' = NoLine /\ at' = "prompt"
      /\ modified' = FALSE /\ saved' = FALSE /\ told' = {} /\ uses' = uses + 1
      /\ uses < MaxUses
      /\ UNCHANGED <<state, error, commands, userIDs, nextId, asksFor>>
  BY DEF AgainIt, EditAgain, Reuse, own, own2
<1>2. IInv'
  BY <1>1, NextPreservesIInv DEF Next, SInv
<1>3. uses' \in 1 .. MaxUses /\ uses' # 1
  BY <1>1, SessionAssumption DEF SInv, SignTypeOK, SessionTypeOK
<1>4. SignTypeOK'
  <2>1. at' \in Position
    BY <1>1, OnePosition
  <2>2. QED
    BY <1>1, <1>2, <1>3, <2>1 DEF SInv, SignTypeOK, SessionTypeOK, IInv
<1>5. SInv'
  BY <1>1, <1>2, <1>4 DEF SInv, AtPrompt, Reached, Confirmed, HangsAreKnown, Hung
<1>6. FirstUse'
  BY <1>3 DEF FirstUse, SelectedBeforeSigning
<1>7. QED
  BY <1>5, <1>6

LEMMA SignNextPreserves == SInv /\ FirstUse /\ [SignNext]_kvars => SInv' /\ FirstUse'
<1> SUFFICES ASSUME SInv, FirstUse, [SignNext]_kvars
             PROVE  SInv' /\ FirstUse'
  OBVIOUS
<1>1. CASE AskIt
  <2>1. at \in Position /\ Hears(GpgAsks[at])
    BY <1>1, SignAssumption DEF AskIt
  <2>2. GpgAsks[at] \in Input
    BY <2>1, OnePosition
  <2>3. QED
    BY <2>1, <2>2, HearsPreserves, HearsFirst
<1>2. CASE NoticeIt
  <2>1. PICK i \in Notices : Hears(i)
    BY <1>2 DEF NoticeIt
  <2>2. i \in Input /\ ~Prompting(i)
    BY SignAssumption
  <2>3. QED
    BY <2>1, <2>2, HearsPreserves, HearsFirst
<1>3. CASE ReadIt
  BY <1>3, ReadPreserves, ReadFirst
<1>4. CASE ExitIt \/ KillIt
  BY <1>4, EndPreserves
<1>5. CASE AgainIt
  BY <1>5, AgainPreserves
<1>6. CASE UNCHANGED kvars
  <2>1. UNCHANGED <<state, error, running, prompt, reply, at, modified, saved, told, uses,
                    commands, userIDs, nextId, asksFor>>
    BY <1>6 DEF kvars, svars, own2, vars, gpg
  <2>2. IInv'
    BY <2>1, NextPreservesIInv DEF vars, SInv
  <2>3. SInv'
    BY <2>1, <2>2
       DEF SInv, IInv, SignTypeOK, SessionTypeOK, AtPrompt, Fits, AllSigned, Reached, Confirmed,
           AfterPromote, AfterExpire, AfterClass, Signature, HangsAreKnown, Hung
  <2>4. FirstUse'
    BY <2>1 DEF FirstUse, FirstRun, Early, SelectedBeforeSigning, SaidNo, Signed, Told,
                Selected, AllSigned
  <2>5. QED
    BY <2>3, <2>4
<1>7. QED
  BY <1>1, <1>2, <1>3, <1>4, <1>5, <1>6 DEF SignNext

LEMMA SignInductive == SignSpec => [](SInv /\ FirstUse)
BY SignInitHolds, SignNextPreserves, PTL DEF SignSpec

\* During its first listing the interactor's state counts the user IDs, and the
\* iterator never passes the end, for any list and any number of states.
THEOREM ListingInStep == SignSpec => []StateCountsUserIDs
<1>1. SInv /\ FirstUse => StateCountsUserIDs
  BY DEF SInv, FirstUse, StateCountsUserIDs
<1>2. QED
  BY <1>1, SignInductive, PTL

\* Nothing is signed before every requested user ID is selected.
THEOREM SelectionComplete == SignSpec => []SelectedBeforeSigning
<1>1. FirstUse => SelectedBeforeSigning
  BY DEF FirstUse
<1>2. QED
  BY <1>1, SignInductive, PTL

\* gpg is never left waiting but at the prompts that HangsAreKnown lists, also
\* by an interactor that is used again.
THEOREM OnlyKnownHangs == SignSpec => []HangsAreKnown
<1>1. SInv => HangsAreKnown
  BY DEF SInv
<1>2. QED
  BY <1>1, SignInductive, PTL

\* GpgSignKeyEditInteractor is one of the interactors that Spec describes.
\* What the theorems above say of every interactor holds of it.
THEOREM SignKeyInteracts == SignSpec => Spec
<1>1. SignInit => Init
  BY DEF SignInit, SessionInit
<1>2. SInv /\ [SignNext]_kvars => [Next]_vars
  <2> SUFFICES ASSUME SInv, [SignNext]_kvars
               PROVE  [Next]_vars
    OBVIOUS
  <2>1. ASSUME NEW i \in Input, Hears(i)
        PROVE  Next
    <3>1. Call(i, NextState(i), Answering(i))
      BY <2>1 DEF Hears, Tell
    <3>2. NextState(i) \in Transition /\ Answering(i) \in Result
      BY AnswersTyped DEF SInv, SignTypeOK, SessionTypeOK, TypeOK
    <3>3. QED
      BY <3>1, <3>2 DEF Next
  <2>2. CASE AskIt
    BY <2>1, <2>2, SignAssumption, OnePosition DEF AskIt
  <2>3. CASE NoticeIt
    BY <2>1, <2>3, SignAssumption DEF NoticeIt
  <2>4. CASE ReadIt \/ ExitIt \/ KillIt \/ AgainIt
    BY <2>4 DEF ReadIt, ExitIt, KillIt, AgainIt, Read, Exit, Killed, EditAgain, Next
  <2>5. CASE UNCHANGED kvars
    BY <2>5 DEF kvars, svars
  <2>6. QED
    BY <2>2, <2>3, <2>4, <2>5 DEF SignNext
<1>3. QED
  BY <1>1, <1>2, SignInductive, PTL DEF SignSpec, Spec
=============================================================================
