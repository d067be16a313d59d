------------------------------- MODULE SignKey -------------------------------
(***************************************************************************)
(* GpgSignKeyEditInteractor in a dialogue with gpg.  States are numbers,   *)
(* as in the code, because the interactor counts through the states        *)
(* UIDS_LIST_SEPARATELY, UIDS_LIST_SEPARATELY + 1, ... to select one user  *)
(* ID after the other; their range ends at UIDS_LIST_SEPARATELY_DONE.      *)
(***************************************************************************)
EXTENDS EditSession, Sequences

CONSTANTS
  Slots,        \* number of states set aside for the listing (999997)
  UserIDLists,  \* the lists that setUserIDsToSign() may be called with
  Notices       \* status lines that ask nothing and may come at any time

ASSUME SlotsAssumption == Slots \in Nat \ {0}

VARIABLES
  userIDs,  \* Private::userIDs, the lines that select them; never assigned
  nextId,   \* Private::nextId, 1 for begin(), Len(userIDs) + 1 for end()
  asksFor   \* optional questions that this gpg may ask; never assigned

own2  == <<userIDs, nextId, asksFor>>
kvars == <<svars, own2>>

\* gpg goes through the questions once more for a second secret key that it
\* signs with, asks whether to promote a local signature, and asks for the
\* parameters of a trust signature.
OptionalQuestions == {"signers", "promote", "trust"}

START                     == 0
COMMAND                   == 1
UIDS_ANSWER_SIGN_ALL      == 2
UIDS_LIST_SEPARATELY      == 3
UIDS_LIST_SEPARATELY_DONE == UIDS_LIST_SEPARATELY + Slots
SET_EXPIRE                == UIDS_LIST_SEPARATELY_DONE + 1
SET_CHECK_LEVEL           == UIDS_LIST_SEPARATELY_DONE + 2
SET_TRUST_VALUE           == UIDS_LIST_SEPARATELY_DONE + 3
SET_TRUST_DEPTH           == UIDS_LIST_SEPARATELY_DONE + 4
SET_TRUST_REGEXP          == UIDS_LIST_SEPARATELY_DONE + 5
CONFIRM                   == UIDS_LIST_SEPARATELY_DONE + 6
QUIT                      == UIDS_LIST_SEPARATELY_DONE + 7
SAVE                      == UIDS_LIST_SEPARATELY_DONE + 8
ERROR                     == UIDS_LIST_SEPARATELY_DONE + 9

Listing == UIDS_LIST_SEPARATELY .. UIDS_LIST_SEPARATELY_DONE - 1

SignAll     == GetBool("keyedit.sign_all.okay")
Promote     == GetBool("sign_uid.local_promote_okay")
Expire      == GetLine("sign_uid.expire")
Class       == GetLine("sign_uid.class")
TrustValue  == GetLine("trustsign_prompt.trust_value")
TrustDepth  == GetLine("trustsign_prompt.trust_depth")
TrustRegexp == GetLine("trustsign_prompt.trust_regexp")
Okay        == GetBool("sign_uid.okay")

Named(st)    == [state |-> st, err |-> NoError]
Unusual(err) == [state |-> ERROR, err |-> err]

\* makeTable() but for the last entries.  The entries for the expiry's class
\* question and for the regexp's confirmation name the wrong kind of prompt.
FirstEntries ==
  { From(START, MainPrompt, COMMAND),
    From(COMMAND, SignAll, UIDS_ANSWER_SIGN_ALL),
    From(COMMAND, Okay, CONFIRM),
    From(UIDS_ANSWER_SIGN_ALL, Okay, CONFIRM),
    From(UIDS_ANSWER_SIGN_ALL, Expire, SET_EXPIRE),
    From(UIDS_ANSWER_SIGN_ALL, Class, SET_CHECK_LEVEL),
    From(SET_TRUST_VALUE, TrustDepth, SET_TRUST_DEPTH),
    From(SET_TRUST_DEPTH, TrustRegexp, SET_TRUST_REGEXP),
    From(SET_TRUST_REGEXP, GetLine("sign_uid.okay"), CONFIRM),
    From(SET_CHECK_LEVEL, Okay, CONFIRM),
    From(SET_EXPIRE, GetBool("sign_uid.class"), SET_CHECK_LEVEL),
    From(UIDS_LIST_SEPARATELY_DONE, MainPrompt, COMMAND),
    From(ERROR, MainPrompt, QUIT),
    From(QUIT, SaveOkay, SAVE) }
  \cup {From(s, i, CONFIRM) :
          s \in {CONFIRM, UIDS_LIST_SEPARATELY_DONE}, i \in {Promote, Okay}}
  \cup {From(s, Expire, SET_EXPIRE) : s \in {CONFIRM, UIDS_LIST_SEPARATELY_DONE}}
  \cup {From(s, Class, SET_CHECK_LEVEL) :
          s \in {CONFIRM, UIDS_LIST_SEPARATELY_DONE}}
  \cup {From(s, TrustValue, SET_TRUST_VALUE) :
          s \in {CONFIRM, UIDS_LIST_SEPARATELY_DONE}}

\* Mutant: of the two entries for CONFIRM and the main prompt the first wins.
MutTable == FirstEntries \cup {From(CONFIRM, MainPrompt, COMMAND)}

\* makeTable().  The entry for CONFIRM and the main prompt is assigned twice,
\* COMMAND first; the second assignment replaces it.
Table == FirstEntries \cup {From(CONFIRM, MainPrompt, QUIT)}

\* Mutants: the list ends one user ID too late, or too early.
MutListedLate  == nextId = Len(userIDs) + 2
MutListedEarly == nextId = Len(userIDs)

AllSigned        == userIDs = <<>>             \* Private::signAll()
AllUserIDsListed == nextId = Len(userIDs) + 1

\* Mutants: the state is not counted up; the first user ID is skipped.
MutStays(i) ==
  IF state = UIDS_ANSWER_SIGN_ALL /\ i = MainPrompt /\ ~AllSigned
  THEN Named(UIDS_LIST_SEPARATELY)
  ELSE IF state \in Listing /\ i = MainPrompt
  THEN Named(state)
  ELSE Unusual("GENERAL")

MutSkips(i) ==
  IF state = UIDS_ANSWER_SIGN_ALL /\ i = MainPrompt /\ ~AllSigned
  THEN Named(UIDS_LIST_SEPARATELY + 1)
  ELSE Unusual("GENERAL")

\* What nextState() does with an input that is not in the table.
Unlisted(i) ==
  CASE state = UIDS_ANSWER_SIGN_ALL /\ i = MainPrompt ->
         IF AllSigned THEN Unusual("UNUSABLE_PUBKEY")
         ELSE Named(UIDS_LIST_SEPARATELY)
    [] state \in Listing /\ i = MainPrompt ->
         Named(IF AllUserIDsListed THEN UIDS_LIST_SEPARATELY_DONE
               ELSE state + 1)
    [] state \in {CONFIRM, ERROR} -> Unusual(error)
    [] OTHER -> Unusual("GENERAL")

\* GpgSignKeyEditInteractor::nextState()
NextState(i) == Lookup(Table, state, i, Unlisted(i))

\* The line that nextUserID() selects.  Past the end its assertion fails, and
\* a build without assertions reads whatever lies there.
CurrentUserID == IF nextId <= Len(userIDs) THEN userIDs[nextId] ELSE "<garbage>"

Says(line) == [line |-> line, err |-> NoError]

\* GpgSignKeyEditInteractor::action().  The options and the check level only
\* choose the text of a line.  The states of a trust signature have none.
Action(s) ==
  CASE s \in {COMMAND, UIDS_LIST_SEPARATELY_DONE} -> Says("sign")
    [] s = UIDS_ANSWER_SIGN_ALL -> Says(IF AllSigned THEN "Y" ELSE "N")
    [] s \in {SET_EXPIRE, CONFIRM, SAVE} -> Says("Y")
    [] s \in {SET_TRUST_VALUE, SET_TRUST_DEPTH, SET_TRUST_REGEXP} -> Says(NoLine)
    [] s = SET_CHECK_LEVEL -> Says("<level>")
    [] s = QUIT -> Says("quit")
    [] s \in Listing -> Says(CurrentUserID)
    [] OTHER -> [line |-> NoLine, err |-> "GENERAL"]

Acting(i) == ActionCalled(i, NextState(i))
Selects(i) == Acting(i) /\ NextState(i).state \in Listing

Answering(i) == IF Acting(i) THEN Action(NextState(i).state)
                ELSE Says(NoLine)

\* action() calls nextUserID(), which moves on to the next user ID.
Advance(i) == /\ nextId' = IF Selects(i) THEN nextId + 1 ELSE nextId
              /\ UNCHANGED <<userIDs, asksFor>>
-----------------------------------------------------------------------------
\* gpg's side of the "sign" command.
GpgAsks ==
  [prompt |-> MainPrompt, save |-> SaveOkay, signall |-> SignAll,
   promote |-> Promote, expire |-> Expire, class |-> Class,
   value |-> TrustValue, depth |-> TrustDepth, regexp |-> TrustRegexp,
   okay |-> Okay]

\* A user ID is selected by its number, which is no command of gpg's menu.
ASSUME SignAssumption ==
  /\ StartState = START
  /\ ErrorState = ERROR
  /\ 0 .. ERROR \subseteq State
  /\ State \subseteq Nat
  /\ {"GENERAL", "UNUSABLE_PUBKEY"} \subseteq Error
  /\ Position = DOMAIN GpgAsks
  /\ Notices \cup {GpgAsks[p] : p \in Position} \subseteq Input
  /\ \A i \in Notices : ~Prompting(i)
  /\ {"sign", "Y", "N", "<level>", "quit", "<garbage>"} \subseteq Line
  /\ UserIDLists \subseteq Seq(Line \ {"sign", "quit"})

\* The questions about one signature, in gpg's order; most are optional.
AfterClass   == {"okay"} \cup (IF "trust" \in asksFor THEN {"value"} ELSE {})
AfterExpire  == AfterClass \cup {"class"}
AfterPromote == AfterExpire \cup {"expire"}
Signature    == AfterPromote \cup (IF "promote" \in asksFor THEN {"promote"} ELSE {})

\* Some user ID is selected; gpg then does not ask whether to sign them all.
Selected == \E k \in 1 .. Len(userIDs) : <<"prompt", userIDs[k]>> \in told

Rows1(p, line, positions) == {Row(p, line, q, "none") : q \in positions}

\* Without a selection gpg asks whether to sign all user IDs of a key that
\* has several; a line that names a user ID toggles its selection.
GpgScript == QuitRows
  \cup Rows1("prompt", "sign", Signature \cup {"signall"})
  \cup Rows1("signall", "Y", Signature)
  \cup Rows1("signall", "N", {"prompt"})
  \cup Rows1("promote", "Y", AfterPromote)
  \cup Rows1("expire", "Y", AfterExpire)
  \cup Rows1("class", "<level>", AfterClass)
  \cup {Row("okay", "Y", "prompt", "modify"), Row("okay", "Y", "prompt", "none")}
  \cup (IF "signers" \in asksFor /\ <<"okay", "Y">> \notin told
        THEN Rows1("okay", "Y", Signature) ELSE {})

Hears(i) == Tell(i, NextState(i), Answering(i)) /\ Advance(i)

AskIt    == at \in DOMAIN GpgAsks /\ Hears(GpgAsks[at])
NoticeIt == \E i \in Notices : Hears(i)
ReadIt   == Read(GpgScript) /\ (at' = "signall" => ~Selected) /\ UNCHANGED own2
ExitIt   == Exit /\ UNCHANGED own2
KillIt   == Killed /\ UNCHANGED own2
AgainIt  == EditAgain /\ UNCHANGED own2

SignInit ==
  /\ SessionInit
  /\ userIDs \in UserIDLists
  /\ nextId = 1
  /\ asksFor \in SUBSET OptionalQuestions

SignNext == AskIt \/ NoticeIt \/ ReadIt \/ ExitIt \/ KillIt \/ AgainIt

\* gpgme and gpg run on as long as there is something to read.
Fairness == WF_kvars(AskIt) /\ WF_kvars(ReadIt) /\ WF_kvars(ExitIt)

SignSpec == SignInit /\ [][SignNext]_kvars /\ Fairness

-----------------------------------------------------------------------------
\* The values the variables range over.
SignTypeOK == /\ SessionTypeOK
              /\ userIDs \in UserIDLists
              /\ nextId \in Nat
              /\ asksFor \subseteq OptionalQuestions

\* While user IDs are listed for the first time, the state counts them: it is
\* UIDS_LIST_SEPARATELY plus the number of those before the current one.  And
\* "assert(nextId != userIDs.end())" in nextUserID() holds, for the iterator
\* never passes the end.  (Nothing rewinds it: an interactor that is used again
\* after its listing was complete violates the assertion.)
StateCountsUserIDs ==
  /\ SignTypeOK
  /\ uses = 1 => /\ nextId <= Len(userIDs) + 1
                 /\ state \in Listing => nextId = state - UIDS_LIST_SEPARATELY + 2

\* When user IDs are to be signed separately, gpg signs only after every one of
\* them was selected, as long as they are no more than the states set aside for
\* them.  (It does not hold for an interactor that is used again after an
\* interrupted listing.)
SelectedBeforeSigning ==
  uses = 1 /\ Len(userIDs) <= Slots /\ <<"signall", "N">> \in told
           /\ <<"okay", "Y">> \in told
    => \A k \in 1 .. Len(userIDs) : <<"prompt", userIDs[k]>> \in told

\* gpg waits in vain only where the table has a self-loop, CONFIRM to CONFIRM
\* (a second signing key, or the confirmation after a promotion), and in the
\* unfinished states of a trust signature.  Without these three questions
\* every prompt of every listing gets its line.
HangsAreKnown ==
  Hung => \/ /\ state = CONFIRM
             /\ \/ prompt = Okay /\ asksFor \cap {"signers", "promote"} # {}
                \/ prompt = Promote /\ "signers" \in asksFor
          \/ state = SET_TRUST_VALUE /\ "trust" \in asksFor

\* The comment on UIDS_LIST_SEPARATELY says "we increase state() by one for
\* each UID, so that action() is called": every prompt gets a line or ends
\* the operation.
NeverHung == ~Hung

\* The dialogue does not go round in circles: it ends, with or without an
\* error, or arrives at one of the prompts above.
Settles == running ~> (~running \/ Hung)
=============================================================================
