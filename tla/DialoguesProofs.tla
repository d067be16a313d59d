--------------------------- MODULE DialoguesProofs ---------------------------
(***************************************************************************)
(* What the three interactors that consist of a table promise, for every   *)
(* set of status lines, lines and errors and any number of uses.           *)
(*                                                                         *)
(* The tables, the lines and gpg's scripts enter the argument through a    *)
(* few facts only (RuleFacts, TextFacts, ScriptFacts): a state gives its   *)
(* line at one place of gpg's script, and a row leads to a state that was  *)
(* not there before and has heard one line more.                           *)
(***************************************************************************)
EXTENDS Dialogues, TLAPS

\* The table and the lines of the interactor that is used.
Rules ==
  CASE who = "adduid" -> Add!Table
    [] who = "trust"  -> Trust!Table
    [] who = "expire" -> Expire!Table

Texts ==
  CASE who = "adduid" -> Add!Lines
    [] who = "trust"  -> Trust!Lines(ownertrust)
    [] who = "expire" -> Expire!Lines

\* The position at which gpg asks for the line of a state.
Place == [COMMAND |-> "prompt", NAME |-> "name", EMAIL |-> "email",
          COMMENT |-> "comment", VALUE |-> "value", REALLY_ULTIMATE |-> "ultimate",
          DATE |-> "valid", QUIT |-> "prompt", SAVE |-> "save"]

\* The states whose lines gpg has taken when the interactor gets to a state.
Earlier == [COMMAND |-> {}, NAME |-> {"COMMAND"}, EMAIL |-> {"COMMAND", "NAME"},
            COMMENT |-> {"COMMAND", "NAME", "EMAIL"}, VALUE |-> {"COMMAND"},
            REALLY_ULTIMATE |-> {"COMMAND", "VALUE"}, DATE |-> {"COMMAND"}]

Given(s)  == <<Place[s], Texts[s]>>
Before(s) == {Given(t) : t \in Earlier[s]}

\* The states in which values are given, and those that leave.
Middle == DOMAIN Texts \ {"QUIT", "SAVE"}
Leaving == {"QUIT", "SAVE"}

\* A dialogue has just begun, is giving values, or comes to its end.
Begun ==
  /\ told = {}
  /\ at = "prompt"
  /\ prompt = NoPrompt
  /\ ~modified
  /\ ~saved

Giving ==
  /\ state \in Middle
  /\ told = IF prompt = NoPrompt THEN Before(state) \cup {Given(state)} ELSE Before(state)

Ending ==
  /\ state \in Leaving
  /\ at \in {"prompt", "save", "exited"}

\* gpg waits for the line of the current state, at the place for it.
Waits ==
  /\ error = NoError
  /\ state \in DOMAIN Texts
  /\ at = Place[state]
  /\ reply = Texts[state]

\* Where gpg is, and what its position says about the trust that is set.
InStep ==
  /\ at \in DOMAIN Asks \cup {"exited"}
  /\ at = "ultimate" => ownertrust = Trust!Ultimate
  /\ at = "save" => modified

\* The command has not been given in the first state, nor while gpg waits for it.
CommandToCome ==
  error = NoError /\ (state = "START" \/ (state = "COMMAND" /\ prompt # NoPrompt))

DInv ==
  /\ SessionTypeOK
  /\ who \in {"adduid", "trust", "expire"} /\ ownertrust \in Trust!OwnerTrust
  /\ error # Canceled
  /\ reply \in Line => error = NoError /\ running /\ prompt # NoPrompt
  /\ error = NoError => state \in DOMAIN Texts \cup {"START"}
  /\ InStep
  /\ RightAnswer
  /\ modified \/ saved => Values \subseteq told
  /\ CommandAtMostOnce /\ (CommandToCome => commands = 0)
  /\ running /\ prompt # NoPrompt => Waits
  /\ running /\ error = NoError => Begun \/ Giving \/ Ending

-----------------------------------------------------------------------------
\* What the argument needs to know of the lines, ...
TextFacts(s) ==
  /\ s \in DOMAIN Place
  /\ s \notin {"START", "ERROR"}
  /\ Texts[s] \in Line
  /\ Place[s] \in DOMAIN Asks
  /\ s \in Leaving => Given(s) \in {<<"prompt", "quit">>, <<"save", "Y">>}
  /\ s \in Middle => s \in DOMAIN Earlier /\ Earlier[s] \subseteq Middle
  /\ s = "COMMAND" => Given(s) = <<"prompt", who>>
  /\ s \in Middle \ {"COMMAND"} =>
       /\ Place[s] \notin {"prompt", "save"}
       /\ \A t \in Earlier[s] : Place[t] # Place[s]
       /\ Place[s] # "ultimate" \/ ownertrust = Trust!Ultimate => Given(s) \in Values

\* ... of the rows of the table, ...
RuleFacts(r) ==
  /\ Prompting(r.on)
  /\ r.to \in DOMAIN Texts
  /\ r.to # r.from
  /\ r.to = "COMMAND" <=> r.from = "START"
  /\ \A p \in DOMAIN Asks : Asks[p] = r.on => Place[r.to] = p
  /\ r.to \in Middle \ {"COMMAND"} =>
       /\ r.from \in Middle
       /\ Earlier[r.to] = Earlier[r.from] \cup {r.from}

\* ... and of what gpg does with the line of a state.
ScriptFacts(s, r) ==
  /\ r.to \in DOMAIN Asks \cup {"exited"}
  /\ r.to = "ultimate" => ownertrust = Trust!Ultimate
  /\ s \in Leaving => r.to \in {"save", "exited"}
  /\ r.does = "modify" =>
       /\ s \in Middle
       /\ Values \subseteq Before(s) \cup {Given(s)}
  /\ r.does = "save" => Place[s] = "save"

Known == who \in {"adduid", "trust", "expire"} /\ ownertrust \in Trust!OwnerTrust

\* The line that is sent for a trust is the entry of gpg's menu that means it.
LEMMA TrustGiven ==
  ASSUME NEW o \in Trust!OwnerTrust
  PROVE  /\ Trust!TrustStrings[o + 1] \in {"1", "2", "3", "4", "5"} \cap Line
         /\ Trust!TrustStrings[o + 1] = "5" <=> o = Trust!Ultimate
         /\ <<"value", Trust!TrustStrings[o + 1]>> \in Trust!Values(o)
         /\ \A v \in Trust!Values(o) : v = <<"value", Trust!TrustStrings[o + 1]>>
                 \/ (o = Trust!Ultimate /\ v = <<"ultimate", "Y">>)
<1>1. o \in {0, 1, 2, 3, 4, 5}
  BY DEF Trust!OwnerTrust
<1>2. /\ Trust!TrustStrings[o + 1] \in {"1", "2", "3", "4", "5"}
      /\ Trust!TrustStrings[o + 1] = "5" <=> o = Trust!Ultimate
      /\ <<Trust!TrustStrings[o + 1], o>> \in Trust!Menu
  BY <1>1 DEF Trust!TrustStrings, Trust!Ultimate, Trust!Menu
<1>3. \A m \in Trust!Menu : m[2] = o => <<"value", m[1]>> \in Trust!Values(o)
  BY DEF Trust!Values
<1>4. \A v \in Trust!Values(o) :
        \/ \E m \in Trust!Menu : m[2] = o /\ v = <<"value", m[1]>>
        \/ o = Trust!Ultimate /\ v = <<"ultimate", "Y">>
  BY DEF Trust!Values
<1>5. \A m \in Trust!Menu : m[2] = o => m[1] = Trust!TrustStrings[o + 1]
  BY <1>1 DEF Trust!TrustStrings, Trust!Ultimate, Trust!Menu
<1>6. QED
  BY <1>2, <1>3, <1>4, <1>5, DialogueAssumption

LEMMA LinesFit ==
  ASSUME Known, NEW s \in DOMAIN Texts
  PROVE  TextFacts(s)
<1> USE DialogueAssumption DEF TextFacts, Texts, Place, Asks, Given, Middle, Leaving,
        Earlier, Values
<1>1. CASE who = "adduid"
  BY <1>1 DEF Add!Lines, Add!Asks, Add!Values
<1>2. CASE who = "trust"
  <2>1. <<"value", Trust!TrustStrings[ownertrust + 1]>> \in Trust!Values(ownertrust)
    BY TrustGiven DEF Known
  <2>2. Trust!TrustStrings[ownertrust + 1] \in Line
    BY TrustGiven DEF Known
  <2>3. ownertrust = Trust!Ultimate => <<"ultimate", "Y">> \in Trust!Values(ownertrust)
    BY DEF Trust!Values
  <2>4. QED
    BY <1>2, <2>1, <2>2, <2>3 DEF Trust!Lines, Trust!Asks
<1>3. CASE who = "expire"
  BY <1>3 DEF Expire!Lines, Expire!Asks, Expire!Values
<1>4. QED
  BY <1>1, <1>2, <1>3 DEF Known

LEMMA TableFits ==
  ASSUME Known, NEW r \in Rules
  PROVE  RuleFacts(r)
<1> USE DEF RuleFacts, Rules, Texts, Place, Asks, Middle, Leaving, Earlier, From,
        MainPrompt, SaveOkay, GetLine, GetBool, Prompting
<1>1. CASE who = "adduid"
  BY <1>1 DEF Add!Table, Add!Lines, Add!Asks, Add!From, Add!MainPrompt, Add!SaveOkay, Add!GetLine, Add!GetBool,
              Add!KeygenName, Add!KeygenEmail, Add!KeygenComment
<1>2. CASE who = "trust"
  BY <1>2 DEF Trust!Table, Trust!Lines, Trust!Asks, Trust!From, Trust!MainPrompt, Trust!SaveOkay, Trust!GetLine, Trust!GetBool,
              Trust!TrustValue, Trust!SetUltimate
<1>3. CASE who = "expire"
  BY <1>3 DEF Expire!Table, Expire!Lines, Expire!Asks, Expire!From, Expire!MainPrompt, Expire!SaveOkay, Expire!GetLine, Expire!GetBool, Expire!KeygenValid
<1>4. QED
  BY <1>1, <1>2, <1>3 DEF Known

\* gpg knows what to do with each line.
LEMMA LinesKnown ==
  ASSUME Known, NEW s \in DOMAIN Texts
  PROVE  \E q \in Script : q.at = Place[s] /\ q.line = Texts[s]
<1> DEFINE Takes(q) == q \in Script /\ q.at = Place[s] /\ q.line = Texts[s]
<1>1. CASE s = "QUIT"
  <2>1. Takes(Row("prompt", "quit", "exited", "quit"))
    BY <1>1 DEF Known, Script, Texts, Place, Row, Add!Lines, Add!Script, Add!QuitRows, Add!Row,
       Trust!Lines, Trust!Script, Trust!QuitRows, Trust!Row,
       Expire!Lines, Expire!Script, Expire!QuitRows, Expire!Row
  <2>2. QED
    BY <2>1
<1>2. CASE s = "SAVE"
  <2>1. Takes(Row("save", "Y", "exited", "save"))
    BY <1>2 DEF Known, Script, Texts, Place, Row, Add!Lines, Add!Script, Add!QuitRows, Add!Row,
       Trust!Lines, Trust!Script, Trust!QuitRows, Trust!Row,
       Expire!Lines, Expire!Script, Expire!QuitRows, Expire!Row
  <2>2. QED
    BY <2>1
<1>3. CASE who = "adduid" /\ s \in {"COMMAND", "NAME", "EMAIL", "COMMENT"}
  <2>1. {"<name>", "<email>", "<comment>"} \subseteq Line
    BY DialogueAssumption
  <2>2. /\ s = "COMMAND" => Takes(Row("prompt", "adduid", "name", "none"))
        /\ s = "NAME" => Takes(Row("name", "<name>", "email", "none"))
        /\ s = "EMAIL" => Takes(Row("email", "<email>", "comment", "none"))
        /\ s = "COMMENT" => Takes(Row("comment", "<comment>", "prompt", "none"))
    BY <1>3, <2>1 DEF Script, Texts, Place, Row, Add!Lines, Add!Script, Add!Row
  <2>3. QED
    BY <1>3, <2>2
<1>4. CASE who = "trust" /\ s \in {"COMMAND", "VALUE", "REALLY_ULTIMATE"}
  <2>1. /\ s = "COMMAND" => Takes(Row("prompt", "trust", "value", "none"))
        /\ s = "REALLY_ULTIMATE" => Takes(Row("ultimate", "Y", "prompt", "modify"))
    BY <1>4 DEF Known, Script, Texts, Place, Row, Trust!Lines, Trust!Script, Trust!Row
  <2>2. CASE s = "VALUE"
    <3>1. Place[s] = "value" /\ Texts[s] = Trust!TrustStrings[ownertrust + 1]
      BY <1>4, <2>2 DEF Place, Texts, Trust!Lines
    <3>2. Texts[s] \in {"1", "2", "3", "4", "5"}
      BY <3>1, TrustGiven DEF Known
    <3>3. CASE Texts[s] = "5"
      <4>1. Takes(Row("value", "5", "ultimate", "none"))
        BY <1>4, <3>1, <3>3 DEF Script, Row, Trust!Script, Trust!Row
      <4>2. QED
        BY <4>1
    <3>4. CASE Texts[s] \in {"1", "2", "3", "4"}
      <4>1. Takes(Row("value", Texts[s], "prompt", "modify"))
        BY <1>4, <3>1, <3>4 DEF Script, Row, Trust!Script, Trust!Row
      <4>2. QED
        BY <4>1
    <3>5. QED
      BY <3>2, <3>3, <3>4
  <2>3. QED
    BY <1>4, <2>1, <2>2
<1>5. CASE who = "expire" /\ s \in {"COMMAND", "DATE"}
  <2>1. "<date>" \in Line
    BY DialogueAssumption
  <2>2. /\ s = "COMMAND" => Takes(Row("prompt", "expire", "valid", "none"))
        /\ s = "DATE" => Takes(Row("valid", "<date>", "prompt", "none"))
    BY <1>5, <2>1 DEF Script, Texts, Place, Row, Expire!Lines, Expire!Script, Expire!Row
  <2>3. QED
    BY <1>5, <2>2
<1>6. QED
  BY <1>1, <1>2, <1>3, <1>4, <1>5 DEF Known, Texts, Add!Lines, Trust!Lines, Expire!Lines

LEMMA ScriptFits ==
  ASSUME Known, NEW s \in DOMAIN Texts, NEW r \in Rows(Script, Place[s], Texts[s]),
         Place[s] = "ultimate" => ownertrust = Trust!Ultimate
  PROVE  ScriptFacts(s, r)
<1>1. r \in Script /\ r.at = Place[s] /\ r.line = Texts[s]
  BY LinesKnown DEF Rows
<1>2. CASE who = "adduid"
  <2>1. s \in {"COMMAND", "NAME", "EMAIL", "COMMENT", "QUIT", "SAVE"}
    BY <1>2 DEF Texts, Add!Lines
  <2>2. {"<name>", "<email>", "<comment>"} \subseteq Line
    BY DialogueAssumption
  <2>3. CASE s = "COMMAND"
    <3>1. Place[s] = "prompt" /\ Texts[s] = "adduid"
      BY <1>2, <2>3 DEF Place, Texts, Add!Lines
    <3>2. r = Row("prompt", "adduid", "name", "none")
      BY <1>1, <1>2, <3>1 DEF Script, Add!Script, Add!QuitRows, Add!Row, Row
    <3>3. QED
      BY <1>2, <2>3, <3>1, <3>2 DEF ScriptFacts, Asks, Add!Asks, Leaving, Row
  <2>4. CASE s \in Leaving
    <3>1. QED
      BY <1>1, <1>2, <2>4 DEF Add!Lines, Add!Script, Add!QuitRows, Add!Row, Add!Asks,
         ScriptFacts, Script, Texts, Place, Asks, Leaving, Row
  <2>5. CASE s \in {"NAME", "EMAIL", "COMMENT"}
    <3>1. QED
      BY <1>1, <1>2, <2>2, <2>5 DEF Add!Lines, Add!Script, Add!QuitRows, Add!Row, Add!Asks, Add!Values,
         ScriptFacts, Script, Texts, Place, Asks, Middle, Leaving, Earlier, Before, Given, Row, Values
  <2>6. QED
    BY <2>1, <2>3, <2>4, <2>5 DEF Leaving
<1>3. CASE who = "trust"
  <2>1. s \in {"COMMAND", "VALUE", "REALLY_ULTIMATE", "QUIT", "SAVE"}
    BY <1>3 DEF Texts, Trust!Lines
  <2>2. CASE s = "COMMAND"
    <3>1. Place[s] = "prompt" /\ Texts[s] = "trust"
      BY <1>3, <2>2 DEF Place, Texts, Trust!Lines
    <3>2. r = Row("prompt", "trust", "value", "none")
      BY <1>1, <1>3, <3>1 DEF Script, Trust!Script, Trust!QuitRows, Trust!Row, Row
    <3>3. QED
      BY <1>3, <2>2, <3>1, <3>2 DEF ScriptFacts, Asks, Trust!Asks, Leaving, Row
  <2>3. CASE s \in Leaving
    <3>1. QED
      BY <1>1, <1>3, <2>3 DEF Trust!Lines, Trust!Script, Trust!QuitRows, Trust!Row, Trust!Asks,
         ScriptFacts, Script, Texts, Place, Asks, Leaving, Row
  <2>4. CASE s \in {"VALUE", "REALLY_ULTIMATE"}
    <3>1. /\ Texts["VALUE"] = Trust!TrustStrings[ownertrust + 1]
          /\ Texts["REALLY_ULTIMATE"] = "Y"
          /\ Place["VALUE"] = "value"
          /\ Place["REALLY_ULTIMATE"] = "ultimate"
          /\ Earlier["VALUE"] = {"COMMAND"}
          /\ Earlier["REALLY_ULTIMATE"] = {"COMMAND", "VALUE"}
          /\ s \in Middle /\ s \notin Leaving
      BY <1>3, <2>4 DEF Texts, Trust!Lines, Place, Earlier, Middle, Leaving
    <3>2. CASE s = "VALUE" /\ ownertrust = Trust!Ultimate
      <4>1. Texts[s] = "5"
        BY <3>1, <3>2, TrustGiven DEF Known
      <4>2. r = Row("value", "5", "ultimate", "none")
        BY <1>1, <1>3, <3>1, <3>2, <4>1 DEF Script, Trust!Script, Trust!QuitRows, Trust!Row, Row
      <4>3. QED
        BY <1>3, <3>1, <3>2, <4>2 DEF ScriptFacts, Asks, Trust!Asks, Row
    <3>3. CASE s = "VALUE" /\ ownertrust # Trust!Ultimate
      <4>1. Texts[s] \in {"1", "2", "3", "4"}
        BY <3>1, <3>3, TrustGiven DEF Known
      <4>2. r = Row("value", Texts[s], "prompt", "modify")
        BY <1>1, <1>3, <3>1, <3>3, <4>1 DEF Script, Trust!Script, Trust!QuitRows, Trust!Row, Row
      <4>3. Values \subseteq {Given(s)}
        BY <1>3, <3>1, <3>3, TrustGiven DEF Known, Values, Given
      <4>4. QED
        BY <1>3, <3>1, <3>3, <4>2, <4>3 DEF ScriptFacts, Asks, Trust!Asks, Row
    <3>4. CASE s = "REALLY_ULTIMATE"
      <4>1. r = Row("ultimate", "Y", "prompt", "modify")
        BY <1>1, <1>3, <3>1, <3>4 DEF Script, Trust!Script, Trust!QuitRows, Trust!Row, Row
      <4>2. Given("VALUE") \in Before(s)
        BY <3>1, <3>4 DEF Before
      <4>3. Values \subseteq Before(s) \cup {Given(s)}
        BY <1>3, <3>1, <3>4, <4>2, TrustGiven DEF Known, Values, Given
      <4>4. QED
        BY <1>3, <3>1, <3>4, <4>1, <4>3 DEF ScriptFacts, Asks, Trust!Asks, Row
    <3>5. QED
      BY <2>4, <3>2, <3>3, <3>4
  <2>5. QED
    BY <2>1, <2>2, <2>3, <2>4 DEF Leaving
<1>4. CASE who = "expire"
  <2>1. s \in {"COMMAND", "DATE", "QUIT", "SAVE"}
    BY <1>4 DEF Texts, Expire!Lines
  <2>2. "<date>" \in Line
    BY DialogueAssumption
  <2>3. CASE s = "COMMAND"
    <3>1. Place[s] = "prompt" /\ Texts[s] = "expire"
      BY <1>4, <2>3 DEF Place, Texts, Expire!Lines
    <3>2. r \in {Row("prompt", "expire", "valid", "none"), Row("prompt", "expire", "subkeys", "none")}
      BY <1>1, <1>4, <3>1 DEF Script, Expire!Script, Expire!QuitRows, Expire!Row, Row
    <3>3. QED
      BY <1>4, <2>3, <3>1, <3>2 DEF ScriptFacts, Asks, Expire!Asks, Leaving, Row
  <2>4. CASE s \in Leaving
    BY <1>1, <1>4, <2>4 DEF Expire!Lines, Expire!Script, Expire!QuitRows, Expire!Row, Expire!Asks,
         ScriptFacts, Script, Texts, Place, Asks, Leaving, Row
  <2>5. CASE s = "DATE"
    BY <1>1, <1>4, <2>2, <2>5 DEF Expire!Lines, Expire!Script, Expire!QuitRows, Expire!Row, Expire!Asks,
       Expire!Values, ScriptFacts, Script, Texts, Place, Asks, Middle, Leaving, Earlier, Before, Given, Row, Values
  <2>6. QED
    BY <2>1, <2>3, <2>4, <2>5 DEF Leaving
<1>5. QED
  BY <1>2, <1>3, <1>4 DEF Known

-----------------------------------------------------------------------------
\* What nextState() answers: it stays where it is on a line that asks nothing,
\* follows a row of the table, or names an error.
Stays(i)   == ~Prompting(i) /\ NextState(i) = To(state)
Follows(i) == \E r \in Rules : r.from = state /\ r.on = i /\ NextState(i) = To(r.to)
Refuses(i) == \E e \in Error : /\ NextState(i) = Refuse(e)
                               /\ Fails(e) \/ (state = "ERROR" /\ e = error)

LEMMA NextStateAnswers ==
  ASSUME Known, error \in Error, NEW i
  PROVE  Stays(i) \/ Follows(i) \/ Refuses(i)
<1> DEFINE looked(o) == Lookup(Rules, state, i, Refuse(o))
<1>1. PICK o \in Error : /\ NextState(i) = looked(o)
                         /\ Fails(o) \/ (state = "ERROR" /\ o = error)
  <2>1. /\ {"GENERAL", "INV_NAME", "INV_USER_ID", "INV_TIME"} \subseteq Error
        /\ \A e \in {"GENERAL", "INV_NAME", "INV_USER_ID", "INV_TIME"} : Fails(e)
    BY DialogueAssumption DEF Fails, NoError, Canceled
  <2>2. CASE who = "adduid"
    <3>1. NextState(i) = looked(Add!Rejection(state, error, i))
      BY <2>2 DEF NextState, Rules, Add!NextState, Lookup, Add!Lookup, Target, Add!Target, To, Add!To,
         Refuse, Add!Refuse, NeedsNoResponse, Add!NeedsNoResponse, Add!NoError, NoError
    <3>2. \/ Add!Rejection(state, error, i) \in {"GENERAL", "INV_NAME", "INV_USER_ID", "INV_TIME"}
          \/ state = "ERROR" /\ Add!Rejection(state, error, i) = error
      BY DEF Add!Rejection
    <3>3. QED
      BY <2>1, <3>1, <3>2
  <2>3. CASE who = "trust"
    <3>1. NextState(i) = looked(IF state = "ERROR" THEN error ELSE "GENERAL")
      BY <2>3 DEF NextState, Rules, Trust!NextState, Lookup, Trust!Lookup, Target, Trust!Target, To, Trust!To,
         Refuse, Trust!Refuse, NeedsNoResponse, Trust!NeedsNoResponse, Trust!NoError, NoError
    <3>2. QED
      BY <2>1, <3>1
  <2>4. CASE who = "expire"
    <3>1. NextState(i) = looked(Expire!Rejection(state, error, i))
      BY <2>4 DEF NextState, Rules, Expire!NextState, Lookup, Expire!Lookup, Target, Expire!Target, To, Expire!To,
         Refuse, Expire!Refuse, NeedsNoResponse, Expire!NeedsNoResponse, Expire!NoError, NoError
    <3>2. \/ Expire!Rejection(state, error, i) \in {"GENERAL", "INV_NAME", "INV_USER_ID", "INV_TIME"}
          \/ state = "ERROR" /\ Expire!Rejection(state, error, i) = error
      BY DEF Expire!Rejection
    <3>3. QED
      BY <2>1, <3>1, <3>2
  <2>5. QED
    BY <2>2, <2>3, <2>4 DEF Known
<1>2. Prompting(i) => ~NeedsNoResponse(i.status)
  BY DEF Prompting, NeedsNoResponse
<1>3. CASE NeedsNoResponse(i.status)
  BY <1>1, <1>2, <1>3 DEF Lookup, Stays
<1>4. CASE ~NeedsNoResponse(i.status) /\ Target(Rules, state, i) # {}
  <2>1. PICK t \in Target(Rules, state, i) : NextState(i) = To(t)
    BY <1>1, <1>4 DEF Lookup
  <2>2. PICK r \in Rules : r.from = state /\ r.on = i /\ t = r.to
    BY <2>1 DEF Target
  <2>3. QED
    BY <2>1, <2>2 DEF Follows
<1>5. CASE ~NeedsNoResponse(i.status) /\ Target(Rules, state, i) = {}
  BY <1>1, <1>5 DEF Lookup, Refuses
<1>6. QED
  BY <1>3, <1>4, <1>5

\* What action() answers.
LEMMA ActionAnswers ==
  ASSUME Known, NEW s
  PROVE  Action(s) = Answered(Texts, s)
BY DEF Known, Action, Texts, Answered, NoError, NoLine, Add!Action, Add!Answered, Add!NoError, Add!NoLine,
   Trust!Action, Trust!Answered, Trust!NoError, Trust!NoLine,
   Expire!Action, Expire!Answered, Expire!NoError, Expire!NoLine

-----------------------------------------------------------------------------
\* What becomes of a status line: the call fails, it changes nothing, or gpg
\* waits at a prompt that has a row, with the line of the new state written.
Aborts(i) ==
  /\ running' = FALSE
  /\ error' \in Error \ {NoError, Canceled}
  /\ state' \in State
  /\ reply' \in {NoLine, Partial}
  /\ prompt' \in Input \cup {NoPrompt}

Ignores(i) ==
  /\ error = NoError
  /\ prompt' = NoPrompt
  /\ reply' = NoLine
  /\ UNCHANGED <<state, error, running>>

Prompts(i) ==
  /\ error = NoError
  /\ error' = NoError
  /\ running' = TRUE
  /\ prompt' = i
  /\ reply' = Texts[state']
  /\ \E r \in Rules : r.from = state /\ r.on = i /\ r.to = state'

\* The states that the interactor can be in or name.
LEMMA StatesKnown ==
  ASSUME Known
  PROVE  /\ DOMAIN Texts \cup {"START", "ERROR"} \subseteq State
         /\ {"COMMAND", "QUIT", "SAVE"} \subseteq DOMAIN Texts
BY DialogueAssumption DEF Known, Texts, Add!Lines, Trust!Lines, Expire!Lines, Add!States,
   Trust!States, Expire!States

\* The callback, put together with the answers of the interactor.
LEMMA HearsOutcome ==
  ASSUME Known, SessionTypeOK, error # Canceled,
         error = NoError => state \in DOMAIN Texts \cup {"START"},
         NEW i \in Input, Hears(i)
  PROVE  /\ running /\ prompt = NoPrompt /\ at \in Position
         /\ UNCHANGED <<gpg, uses, commands>>
         /\ Aborts(i) \/ Ignores(i) \/ Prompts(i)
<1> DEFINE next == NextState(i)
           act  == Action(next.state)
<1>1. /\ Callback(i, next, act)
      /\ running /\ prompt = NoPrompt
      /\ prompt' = IF Prompting(i) THEN i ELSE NoPrompt
      /\ running' = (error' = NoError)
      /\ at \in Position
      /\ UNCHANGED <<gpg, uses, commands>>
  BY DEF Hears, Tell, Call
<1>2. prompt' \in Input \cup {NoPrompt}
  BY <1>1
<1>3. act = Answered(Texts, next.state) /\ ~Fails(act.err)
  <2>1. act = Answered(Texts, next.state)
    BY ActionAnswers
  <2>2. QED
    BY <2>1 DEF Answered, Fails
<1>4. /\ state \in State /\ error \in Error
      /\ StatusToError(i.status) \in Error
  BY InteractorAssumption DEF SessionTypeOK, TypeOK, StatusToError, StatusErrors
<1>5. /\ next.state \in State
      /\ next.err \in Error
      /\ next.err # NoError => Refuses(i)
  <2>1. CASE Stays(i)
    BY <1>4, <2>1, InteractorAssumption DEF Stays, To
  <2>2. CASE Follows(i)
    <3>1. PICK r \in Rules : next = To(r.to)
      BY <2>2 DEF Follows
    <3>2. r.to \in DOMAIN Texts
      BY TableFits DEF RuleFacts
    <3>3. QED
      BY <3>1, <3>2, StatesKnown, InteractorAssumption DEF To
  <2>3. CASE Refuses(i)
    BY <2>3, StatesKnown DEF Refuses, Refuse
  <2>4. QED
    BY <1>4, <2>1, <2>2, <2>3, NextStateAnswers
<1>6. CASE error # NoError
  <2>1. ~ActionCalled(i, next)
    BY <1>6 DEF ActionCalled
  <2>2. CASE Fails(StatusToError(i.status))
    BY <1>1, <1>2, <1>4, <2>2, InteractorAssumption DEF Callback, Record, Aborts, Fails, ActionCalled
  <2>3. CASE ~Fails(StatusToError(i.status)) /\ Fails(next.err)
    BY <1>1, <1>2, <1>5, <2>3, InteractorAssumption DEF Callback, Record, Aborts, Fails, ActionCalled
  <2>4. CASE ~Fails(StatusToError(i.status)) /\ ~Fails(next.err)
    BY <1>1, <1>2, <1>4, <1>5, <1>6, <2>1, <2>4 DEF Callback, Accept, Aborts
  <2>5. QED
    BY <1>1, <2>2, <2>3, <2>4
<1>7. CASE error = NoError /\ (Fails(StatusToError(i.status)) \/ Refuses(i))
  <2>1. Refuses(i) => Fails(next.err)
    <3>1. state # "ERROR"
      BY <1>7, LinesFit DEF TextFacts
    <3>2. QED
      BY <3>1 DEF Refuses, Refuse
  <2>2. \/ error' = StatusToError(i.status)
        \/ error' = next.err
    BY <1>1, <1>7, <2>1 DEF Callback, Record, ActionCalled
  <2>3. Fails(error') /\ state' = ErrorState /\ reply' = NoLine
    BY <1>1, <1>7, <2>1 DEF Callback, Record, ActionCalled
  <2>4. QED
    BY <1>1, <1>2, <1>4, <1>5, <2>2, <2>3, InteractorAssumption DEF Aborts, Fails
<1>8. CASE error = NoError /\ ~Fails(StatusToError(i.status)) /\ Stays(i)
  <2>1. next.state = state /\ ~Fails(next.err) /\ ~Prompting(i)
    BY <1>8 DEF Stays, To, Fails
  <2>2. state' = state /\ error' = error /\ reply' = NoLine
    BY <1>1, <1>8, <2>1 DEF Callback, Accept, ActionCalled
  <2>3. running' = running
    BY <1>1, <1>8, <2>2 DEF SessionTypeOK, TypeOK
  <2>4. QED
    BY <1>1, <1>8, <2>1, <2>2, <2>3 DEF Ignores
<1>9. CASE error = NoError /\ ~Fails(StatusToError(i.status)) /\ Follows(i)
  <2>1. PICK r \in Rules : r.from = state /\ r.on = i /\ next = To(r.to)
    BY <1>9 DEF Follows
  <2>2. /\ next.state = r.to /\ ~Fails(next.err)
        /\ r.to # state /\ r.to \in DOMAIN Texts
        /\ Prompting(i)
    BY <2>1, TableFits DEF RuleFacts, To, Fails
  <2>3. ActionCalled(i, next)
    BY <1>9, <2>2 DEF ActionCalled
  <2>4. act.line = Texts[r.to] /\ act.line \in Line /\ act.line # NoLine
    BY <1>3, <2>2, LinesFit, InteractorAssumption DEF Answered, TextFacts
  <2>5. PICK w \in WriteOutcomes(i, act.line) :
          /\ reply' = w.reply
          /\ IF Fails(w.err) THEN Record(w.err) ELSE Accept(next.state)
    BY <1>1, <1>3, <2>3, <2>4 DEF Callback, ActionCalled
  <2>6. \/ w.err = NoError /\ w.reply = act.line
        \/ w.err \in Error /\ Fails(w.err) /\ w.reply \in {NoLine, Partial}
    BY <2>2 DEF WriteOutcomes
  <2>7. CASE w.err = NoError /\ w.reply = act.line
    BY <1>1, <1>9, <2>1, <2>2, <2>4, <2>5, <2>7 DEF Accept, Prompts, Fails
  <2>8. CASE w.err \in Error /\ Fails(w.err) /\ w.reply \in {NoLine, Partial}
    BY <1>1, <1>2, <2>5, <2>8, InteractorAssumption DEF Record, Aborts, Fails
  <2>9. QED
    BY <1>1, <2>6, <2>7, <2>8
<1>10. QED
  BY <1>1, <1>4, <1>6, <1>7, <1>8, <1>9, NextStateAnswers

-----------------------------------------------------------------------------
\* Which interactor it is, and its trust, stay.
Kept == UNCHANGED <<who, ownertrust>>

\* A position that gpg asks at is one of the script's.
LEMMA PlacesKnown ==
  ASSUME Known
  PROVE  /\ DOMAIN Asks \subseteq Position /\ "exited" \notin DOMAIN Asks
         /\ {"prompt", "save"} \subseteq DOMAIN Asks
         /\ \A p \in DOMAIN Asks : Asks[p] \in Input
<1>1. CASE who = "adduid"
  BY <1>1, DialogueAssumption DEF Asks, Add!Asks
<1>2. CASE who = "trust"
  BY <1>2, DialogueAssumption DEF Asks, Trust!Asks
<1>3. CASE who = "expire"
  BY <1>3, DialogueAssumption DEF Asks, Expire!Asks
<1>4. QED
  BY <1>1, <1>2, <1>3 DEF Known

\* What is constant in a step.
LEMMA ConstantsKept ==
  ASSUME Kept
  PROVE  /\ Known' = Known /\ Rules' = Rules /\ Texts' = Texts /\ Asks' = Asks
         /\ Script' = Script /\ Values' = Values /\ Middle' = Middle
         /\ \A s : (Given(s))' = Given(s) /\ (Before(s))' = Before(s)
BY DEF Kept, Known, Rules, Texts, Asks, Script, Values, Middle, Given, Before

\* A prompt finds the dialogue where the row of the table expects it.
LEMMA PromptInStep ==
  ASSUME DInv, running, prompt = NoPrompt, error = NoError,
         at \in DOMAIN Asks, NEW r \in Rules, r.from = state, r.on = Asks[at]
  PROVE  /\ at = Place[r.to]
         /\ r.to \in Middle => told = Before(r.to)
         /\ r.to \in Leaving => at \in {"prompt", "save"}
<1>1. Known
  BY DEF DInv, Known
<1>2. RuleFacts(r) /\ r.to \in DOMAIN Texts
  BY <1>1, TableFits DEF RuleFacts
<1>3. at = Place[r.to]
  BY <1>2 DEF RuleFacts
<1>4. TextFacts(r.to)
  BY <1>1, <1>2, LinesFit
<1>5. r.to \in Middle <=> r.to \notin Leaving
  BY <1>2 DEF Middle, Leaving
<1>6. r.to \in Leaving => at \in {"prompt", "save"}
  BY <1>3 DEF Place, Leaving
<1>7. CASE Begun
  <2>1. r.to \in Middle => r.to = "COMMAND"
    BY <1>3, <1>4, <1>7 DEF Begun, TextFacts
  <2>2. Before("COMMAND") = {}
    BY DEF Before, Earlier
  <2>3. QED
    BY <1>3, <1>6, <1>7, <2>1, <2>2 DEF Begun
<1>8. CASE Giving
  <2>1. r.to = "COMMAND" => state \notin Middle
    <3>1. TextFacts("START") \/ "START" \notin DOMAIN Texts
      BY <1>1, LinesFit
    <3>2. QED
      BY <1>2, <3>1 DEF RuleFacts, TextFacts, Middle
  <2>2. r.to \in Middle => Earlier[r.to] = Earlier[state] \cup {state}
    BY <1>2, <1>8, <2>1 DEF RuleFacts, Giving
  <2>3. r.to \in Middle => Before(r.to) = Before(state) \cup {Given(state)}
    BY <2>2 DEF Before
  <2>4. QED
    BY <1>3, <1>6, <1>8, <2>3 DEF Giving
<1>9. CASE Ending
  <2>1. state \notin Middle /\ state # "START"
    BY <1>9 DEF Ending, Middle, Leaving
  <2>2. r.to \notin Middle
    BY <1>2, <2>1 DEF RuleFacts
  <2>3. QED
    BY <1>3, <1>6, <2>2
<1>10. QED
  BY <1>7, <1>8, <1>9 DEF DInv

LEMMA HearsPreserves ==
  ASSUME DInv, NEW i \in Input, Hears(i), Kept,
         Prompting(i) => at \in DOMAIN Asks /\ i = Asks[at]
  PROVE  DInv'
<1>1. Known /\ SessionTypeOK
  BY DEF DInv, Known
<1>2. /\ running /\ prompt = NoPrompt /\ at \in Position
      /\ UNCHANGED <<at, modified, saved, told, uses, commands>>
      /\ Aborts(i) \/ Ignores(i) \/ Prompts(i)
  BY <1>1, HearsOutcome DEF DInv, gpg
<1>3. /\ Known' = Known /\ Rules' = Rules /\ Texts' = Texts /\ Asks' = Asks
      /\ Values' = Values /\ Middle' = Middle
      /\ \A s : (Given(s))' = Given(s) /\ (Before(s))' = Before(s)
  BY ConstantsKept
<1>4. /\ (who \in {"adduid", "trust", "expire"} /\ ownertrust \in Trust!OwnerTrust)'
      /\ InStep'
      /\ RightAnswer'
      /\ (modified \/ saved => Values \subseteq told)'
      /\ CommandAtMostOnce'
  BY <1>2, <1>3 DEF DInv, Kept, InStep, RightAnswer, CommandAtMostOnce
<1>5. ASSUME state' \in State, error' \in Error, running' \in BOOLEAN,
             prompt' \in Input \cup {NoPrompt}, reply' \in Line \cup {NoLine, Partial}
      PROVE  SessionTypeOK'
  BY <1>1, <1>2, <1>5 DEF SessionTypeOK, TypeOK
<1>6. CASE Aborts(i)
  <2>1. SessionTypeOK'
    BY <1>5, <1>6 DEF Aborts
  <2>2. reply' \notin Line
    BY <1>6, InteractorAssumption DEF Aborts
  <2>3. ~CommandToCome' /\ (error' # NoError /\ ~running')
    BY <1>6 DEF Aborts, CommandToCome
  <2>4. QED
    BY <1>4, <1>6, <2>1, <2>2, <2>3 DEF DInv, Aborts
<1>7. CASE Ignores(i)
  <2>1. SessionTypeOK'
    BY <1>1, <1>5, <1>7 DEF Ignores, SessionTypeOK, TypeOK
  <2>2. reply' \notin Line
    BY <1>7, InteractorAssumption DEF Ignores
  <2>3. /\ (error # Canceled)'
        /\ (error = NoError => state \in DOMAIN Texts \cup {"START"})'
        /\ (CommandToCome => commands = 0)'
    BY <1>2, <1>3, <1>7 DEF DInv, Ignores, CommandToCome
  <2>4. (Begun \/ Giving \/ Ending)'
    BY <1>2, <1>3, <1>7 DEF DInv, Ignores, Begun, Giving, Ending
  <2>5. prompt' = NoPrompt
    BY <1>7 DEF Ignores
  <2>6. QED
    BY <1>4, <2>1, <2>2, <2>3, <2>4, <2>5 DEF DInv
<1>8. CASE Prompts(i)
  <2>1. PICK r \in Rules : r.from = state /\ r.on = i /\ r.to = state'
    BY <1>8 DEF Prompts
  <2>2. RuleFacts(r) /\ r.to \in DOMAIN Texts
    BY <1>1, TableFits DEF RuleFacts
  <2>3. /\ at \in DOMAIN Asks /\ i = Asks[at]
        /\ i # NoPrompt
    BY <2>1, <2>2 DEF RuleFacts, Prompting, NoPrompt
  <2>4. /\ at = Place[r.to]
        /\ r.to \in Middle => told = Before(r.to)
        /\ r.to \in Leaving => at \in {"prompt", "save"}
    BY <1>2, <1>8, <2>1, <2>3, PromptInStep DEF Prompts
  <2>5. /\ reply' = Texts[r.to] /\ reply' \in Line
        /\ state' = r.to /\ state' \in DOMAIN Texts /\ state' # "START"
    BY <1>1, <1>3, <1>8, <2>1, <2>2, LinesFit DEF Prompts, TextFacts
  <2>6. error' = NoError /\ running' /\ prompt' = i /\ prompt' # NoPrompt /\ NoError # Canceled
    BY <1>8, <2>3 DEF Prompts, NoError, Canceled
  <2>7. SessionTypeOK'
    BY <1>5, <2>5, <2>6, <1>1, StatesKnown, InteractorAssumption
  <2>8. Waits'
    BY <1>2, <1>3, <2>4, <2>5, <2>6 DEF Waits
  <2>9. (CommandToCome => commands = 0)'
    <3>1. state' = "COMMAND" => state = "START"
      BY <2>1, <2>2 DEF RuleFacts
    <3>2. CommandToCome' => commands = 0
      BY <1>8, <2>5, <3>1 DEF CommandToCome, DInv, Prompts
    <3>3. QED
      BY <1>2, <3>2
  <2>10. (Begun \/ Giving \/ Ending)'
    <3>1. state' \in Middle \/ state' \in Leaving
      BY <2>5 DEF Middle, Leaving
    <3>2. state' \in Middle => Giving'
      BY <1>2, <1>3, <2>4, <2>5, <2>6 DEF Giving
    <3>3. state' \in Leaving => Ending'
      BY <1>2, <2>4, <2>5 DEF Ending
    <3>4. QED
      BY <3>1, <3>2, <3>3
  <2>11. QED
    BY <1>3, <1>4, <2>5, <2>6, <2>7, <2>8, <2>9, <2>10 DEF DInv
<1>9. QED
  BY <1>2, <1>6, <1>7, <1>8

-----------------------------------------------------------------------------
LEMMA ReadPreserves ==
  ASSUME DInv, Read(Script), Kept
  PROVE  DInv'
<1>1. Known /\ SessionTypeOK
  BY DEF DInv, Known
<1>2. /\ running /\ prompt # NoPrompt /\ reply \in Line
      /\ prompt' = NoPrompt /\ reply' = NoLine
      /\ UNCHANGED <<state, error, running, uses>>
      /\ at \in Position
  BY DEF Read, Consume
<1>3. /\ error = NoError
      /\ state \in DOMAIN Texts
      /\ at = Place[state]
      /\ reply = Texts[state]
      /\ <<at, reply>> = Given(state)
  BY <1>2 DEF DInv, Waits, Given
<1>4. PICK r \in Rows(Script, at, reply) :
        /\ Possible(r)
        /\ at' = r.to
        /\ modified' = (modified \/ r.does = "modify")
        /\ saved' = (saved \/ r.does = "save")
        /\ told' = told \cup {Given(state)}
  BY <1>3 DEF Read
<1>5. ScriptFacts(state, r) /\ TextFacts(state)
  BY <1>1, <1>3, <1>4, ScriptFits, LinesFit DEF DInv, InStep
<1>6. /\ Known' = Known /\ Rules' = Rules /\ Texts' = Texts /\ Asks' = Asks
      /\ Values' = Values /\ Middle' = Middle
      /\ \A s : (Given(s))' = Given(s) /\ (Before(s))' = Before(s)
  BY ConstantsKept
<1>7. Giving \/ Ending
  BY <1>2, <1>3 DEF DInv, Begun
<1>8. at' \in Position \cup {"exited"}
  BY <1>1, <1>4, <1>5, PlacesKnown DEF ScriptFacts
<1>9. commands' = IF state = "COMMAND" THEN 1 ELSE commands
  <2>1. reply \in Command /\ at = "prompt" <=> state = "COMMAND"
    BY <1>1, <1>3, <1>5, DialogueAssumption DEF TextFacts, Middle, Leaving, Given, Known
  <2>2. state = "COMMAND" => commands = 0
    BY <1>2, <1>3 DEF DInv, CommandToCome
  <2>3. QED
    BY <2>1, <2>2 DEF Read
<1>10. SessionTypeOK'
  BY <1>1, <1>2, <1>3, <1>4, <1>8, <1>9
  DEF SessionTypeOK, TypeOK
<1>11. InStep'
  BY <1>4, <1>5, <1>6 DEF ScriptFacts, InStep, Possible, Kept
<1>12. RightAnswer'
  <2>1. Given(state) \in Values \cup ({"prompt"} \X (Command \cup {"quit"})) \cup {<<"save", "Y">>}
    <3>1. CASE state \in Leaving
      BY <1>5, <3>1 DEF TextFacts
    <3>2. CASE state = "COMMAND"
      BY <1>5, <3>2, <1>1, DialogueAssumption DEF TextFacts, Known
    <3>3. CASE state \in Middle \ {"COMMAND"}
      BY <1>3, <1>5, <3>3 DEF TextFacts, DInv, InStep
    <3>4. QED
      BY <1>3, <3>1, <3>2, <3>3 DEF Middle, Leaving
  <2>2. QED
    BY <1>4, <1>6, <2>1 DEF DInv, RightAnswer
<1>13. (modified \/ saved => Values \subseteq told)'
  <2>1. CASE modified \/ saved
    BY <1>4, <1>6, <2>1 DEF DInv
  <2>2. CASE r.does = "modify"
    <3>1. Giving
      BY <1>5, <1>7, <2>2 DEF ScriptFacts, Ending, Middle, Leaving
    <3>2. told' = Before(state) \cup {Given(state)}
      BY <1>2, <1>4, <3>1 DEF Giving
    <3>3. QED
      BY <1>5, <1>6, <2>2, <3>2 DEF ScriptFacts
  <2>3. CASE r.does = "save"
    <3>1. modified
      BY <1>3, <1>5, <2>3 DEF ScriptFacts, DInv, InStep
    <3>2. QED
      BY <2>1, <3>1
  <2>4. QED
    BY <1>4, <2>1, <2>2, <2>3
<1>14. CommandAtMostOnce' /\ (CommandToCome => commands = 0)'
  BY <1>2, <1>3, <1>5, <1>9 DEF DInv, CommandAtMostOnce, CommandToCome, TextFacts
<1>15. (Begun \/ Giving \/ Ending)'
  <2>1. CASE Giving
    BY <1>2, <1>4, <1>6, <2>1 DEF Giving
  <2>2. CASE Ending
    BY <1>2, <1>4, <1>5, <2>2 DEF Ending, ScriptFacts
  <2>3. QED
    BY <1>7, <2>1, <2>2
<1>16. reply' \notin Line
  BY <1>2, InteractorAssumption
<1>17. QED
  BY <1>2, <1>6, <1>10, <1>11, <1>12, <1>13, <1>14, <1>15, <1>16 DEF DInv, Kept

LEMMA EndPreserves ==
  ASSUME DInv, Kept, Exit \/ Killed \/ EditAgain
  PROVE  DInv'
<1>1. Known /\ SessionTypeOK
  BY DEF DInv, Known
<1>2. /\ Known' = Known /\ Texts' = Texts /\ Asks' = Asks /\ Values' = Values
  BY ConstantsKept
<1>3. /\ prompt' = NoPrompt /\ reply' = NoLine /\ reply' \notin Line
      /\ UNCHANGED <<state, error, commands>>
  BY InteractorAssumption DEF Exit, Killed, EditAgain, Finish, Reuse, own
<1>4. (CommandToCome => commands = 0)'
  BY <1>3 DEF DInv, CommandToCome
<1>5. CASE Exit \/ Killed
  <2>1. /\ running' = FALSE
        /\ UNCHANGED <<modified, saved, told, uses>>
        /\ at' \in {at, "exited"}
    BY <1>5 DEF Exit, Killed, Finish, gpg
  <2>2. SessionTypeOK'
    BY <1>1, <1>3, <2>1 DEF SessionTypeOK, TypeOK
  <2>3. QED
    BY <1>2, <1>3, <1>4, <2>1, <2>2 DEF DInv, Kept, InStep, RightAnswer, CommandAtMostOnce
<1>6. CASE EditAgain
  <2>1. /\ running' = TRUE
        /\ at' = "prompt" /\ modified' = FALSE /\ saved' = FALSE /\ told' = {}
        /\ uses' = uses + 1 /\ uses < MaxUses
    BY <1>6 DEF EditAgain, Reuse
  <2>2. "prompt" \in DOMAIN Asks /\ "prompt" \in Position
    BY <1>1, PlacesKnown
  <2>3. uses' \in 1 .. MaxUses
    BY <1>1, <2>1, SessionAssumption DEF SessionTypeOK
  <2>4. TypeOK'
    BY <1>1, <1>3, <2>1 DEF SessionTypeOK, TypeOK
  <2>5. SessionTypeOK'
    BY <1>1, <1>3, <2>1, <2>2, <2>3, <2>4 DEF SessionTypeOK
  <2>6. Begun'
    BY <1>3, <2>1 DEF Begun
  <2>7. QED
    BY <1>2, <1>3, <1>4, <2>1, <2>2, <2>5, <2>6
    DEF DInv, Kept, InStep, RightAnswer, CommandAtMostOnce
<1>7. QED
  BY <1>5, <1>6

LEMMA DialogueInitHolds == DialogueInit => DInv
<1> SUFFICES ASSUME DialogueInit PROVE DInv
  OBVIOUS
<1>1. Known
  BY DEF DialogueInit, Known
<1>2. /\ state = "START" /\ error = NoError /\ running = TRUE /\ prompt = NoPrompt
      /\ reply = NoLine /\ reply \notin Line /\ at = "prompt" /\ modified = FALSE
      /\ saved = FALSE /\ told = {} /\ uses = 1 /\ commands = 0
  BY InteractorAssumption, DialogueAssumption DEF DialogueInit, SessionInit, Init
<1>3. SessionTypeOK
  <2>1. "prompt" \in Position /\ 1 \in 1 .. MaxUses
    BY <1>1, PlacesKnown, SessionAssumption
  <2>2. TypeOK
    BY <1>1, <1>2, StatesKnown, InteractorAssumption DEF TypeOK
  <2>3. at \in Position \cup {"exited"} /\ uses \in 1 .. MaxUses /\ commands \in 0 .. 2
    BY <1>2, <2>1
  <2>4. modified \in BOOLEAN /\ saved \in BOOLEAN
    BY <1>2
  <2>5. told \subseteq Position \X Line
    BY <1>2
  <2>6. QED
    BY <2>2, <2>3, <2>4, <2>5 DEF SessionTypeOK
<1>4. Begun
  BY <1>2 DEF Begun
<1>5. InStep
  BY <1>1, <1>2, PlacesKnown DEF InStep
<1>6. QED
  BY <1>1, <1>2, <1>3, <1>4, <1>5
  DEF DInv, Known, RightAnswer, CommandAtMostOnce, NoError, Canceled

LEMMA DialogueNextPreserves == DInv /\ [DialogueNext]_dvars => DInv'
<1> SUFFICES ASSUME DInv, [DialogueNext]_dvars PROVE DInv'
  OBVIOUS
<1>1. Known
  BY DEF DInv, Known
<1>2. CASE Ask
  <2>1. at \in DOMAIN Asks
    BY <1>2, DialogueAssumption DEF Ask, DInv, InStep
  <2>2. QED
    BY <1>1, <1>2, <2>1, PlacesKnown, HearsPreserves DEF Ask, Kept
<1>3. CASE Notice
  <2>1. PICK i \in Notices : Hears(i)
    BY <1>3 DEF Notice
  <2>2. i \in Input /\ ~Prompting(i)
    BY DialogueAssumption
  <2>3. QED
    BY <1>3, <2>1, <2>2, HearsPreserves DEF Notice, Kept
<1>4. CASE Answer
  BY <1>4, ReadPreserves DEF Answer, Kept
<1>5. CASE Leave \/ Kill \/ Again
  BY <1>5, EndPreserves DEF Leave, Kill, Again, Kept
<1>6. CASE UNCHANGED dvars
  BY <1>6 DEF dvars, svars, vars, gpg, DInv, SessionTypeOK, TypeOK, InStep, RightAnswer,
     CommandAtMostOnce, CommandToCome, Waits, Begun, Giving, Ending, Texts, Asks, Values,
     Middle, Given, Before
<1>7. QED
  BY <1>2, <1>3, <1>4, <1>5, <1>6 DEF DialogueNext

LEMMA DialogueInductive == DialogueSpec => []DInv
BY DialogueInitHolds, DialogueNextPreserves, PTL DEF DialogueSpec

-----------------------------------------------------------------------------
\* gpg changes what the application asked it to change, through answers to the
\* right prompts, completely or not at all, and once: the promise of
\* GpgAddUserIDEditInteractor, GpgSetOwnerTrustEditInteractor and
\* GpgSetExpiryTimeEditInteractor, whatever fails and however often they are
\* used again.
THEOREM AskedIsDone == DialogueSpec => []DoesWhatIsAsked
<1>1. DInv => DoesWhatIsAsked
  BY DEF DInv, DoesWhatIsAsked, SavedIsAsked
<1>2. QED
  BY <1>1, DialogueInductive, PTL

\* A value that gpg asks for again is not offered again: the callback ends the
\* operation with an error, in every state of the three interactors.
THEOREM NoSecondOffer == DialogueSpec => RefusedValueAborts
<1>1. ASSUME DInv, [DialogueNext]_dvars, prompt = NoPrompt, prompt' # NoPrompt,
             at \notin {"prompt", "save"}, \E l \in Line : <<at, l>> \in told
      PROVE  error' # NoError
  <2>1. Known /\ SessionTypeOK
    BY <1>1 DEF DInv, Known
  <2>2. PICK i \in Input : Hears(i) /\ (i \in Notices \/ (at \in DOMAIN Asks /\ i = Asks[at]))
    <3>1. Ask \/ Notice
      BY <1>1 DEF DialogueNext, Answer, Read, Consume, Leave, Exit, Finish, Kill, Killed, Again,
         EditAgain, Reuse, dvars, svars, vars
    <3>2. CASE Ask
      <4>1. at \in DOMAIN Asks
        BY <1>1, <3>2, DialogueAssumption DEF Ask, DInv, InStep
      <4>2. QED
        BY <2>1, <3>2, <4>1, PlacesKnown DEF Ask
    <3>3. CASE Notice
      BY <3>3, DialogueAssumption DEF Notice
    <3>4. QED
      BY <3>1, <3>2, <3>3
  <2>3. /\ running /\ prompt = NoPrompt
        /\ Aborts(i) \/ Ignores(i) \/ Prompts(i)
    BY <1>1, <2>1, <2>2, HearsOutcome DEF DInv
  <2>4. SUFFICES ASSUME Prompts(i) PROVE FALSE
    BY <1>1, <2>3 DEF Aborts, Ignores
  <2>5. PICK r \in Rules : r.from = state /\ r.on = i
    BY <2>4 DEF Prompts
  <2>6. RuleFacts(r) /\ r.to \in DOMAIN Texts
    BY <2>1, TableFits DEF RuleFacts
  <2>7. at \in DOMAIN Asks /\ i = Asks[at]
    BY <2>2, <2>5, <2>6, DialogueAssumption DEF RuleFacts
  <2>8. /\ at = Place[r.to]
        /\ r.to \in Middle => told = Before(r.to)
        /\ r.to \in Leaving => at \in {"prompt", "save"}
    BY <1>1, <2>3, <2>4, <2>5, <2>7, PromptInStep DEF Prompts
  <2>9. r.to \in Middle /\ TextFacts(r.to)
    BY <1>1, <2>1, <2>6, <2>8, LinesFit DEF Middle, Leaving
  <2>10. r.to # "COMMAND"
    BY <1>1, <2>8 DEF Place
  <2>11. PICK t \in Earlier[r.to] : Place[t] = at
    BY <1>1, <2>8, <2>9 DEF Before, Given
  <2>12. QED
    BY <2>8, <2>9, <2>10, <2>11 DEF TextFacts
<1>2. DInv /\ [DialogueNext]_dvars =>
        [prompt = NoPrompt /\ prompt' # NoPrompt /\ at \notin {"prompt", "save"}
           /\ (\E l \in Line : <<at, l>> \in told) => error' # NoError]_dvars
  BY <1>1
<1>3. QED
  BY <1>2, DialogueInductive, PTL DEF DialogueSpec, RefusedValueAborts

\* The three interactors are clients of the callback like any other, so what
\* holds for every interactor (EditInteractorProofs) holds for them: whole
\* answers, no cancellation for an error, and errors that stick.
THEOREM DialoguesInteract == DialogueSpec => Spec
<1>1. DialogueInit => Init
  BY DEF DialogueInit, SessionInit
<1>2. ASSUME DInv, NEW i \in Input, Hears(i)
      PROVE  Next
  <2>1. Known /\ SessionTypeOK
    BY <1>2 DEF DInv, Known
  <2>2. /\ state \in State /\ error \in Error /\ NoError \in Error
    BY <2>1, InteractorAssumption DEF SessionTypeOK, TypeOK
  <2>3. NextState(i) \in Transition
    <3>1. CASE Stays(i)
      BY <2>2, <3>1 DEF Stays, To, Transition
    <3>2. CASE Follows(i)
      <4>1. PICK r \in Rules : NextState(i) = To(r.to)
        BY <3>2 DEF Follows
      <4>2. r.to \in State
        BY <2>1, TableFits, StatesKnown DEF RuleFacts
      <4>3. QED
        BY <2>2, <4>1, <4>2 DEF To, Transition
    <3>3. CASE Refuses(i)
      BY <2>1, <3>3, StatesKnown DEF Refuses, Refuse, Transition
    <3>4. QED
      BY <2>1, <2>2, <3>1, <3>2, <3>3, NextStateAnswers
  <2>4. ASSUME NEW s
        PROVE  Action(s) \in Result
    <3>1. s \in DOMAIN Texts => Texts[s] \in Line
      BY <2>1, LinesFit DEF TextFacts
    <3>2. QED
      BY <2>1, <2>2, <3>1, ActionAnswers DEF Answered, Result
  <2>5. Call(i, NextState(i), Action(NextState(i).state))
    BY <1>2 DEF Hears, Tell
  <2>6. QED
    BY <2>3, <2>4, <2>5 DEF Next
<1>3. DInv /\ [DialogueNext]_dvars => [Next]_vars
  <2> SUFFICES ASSUME DInv, [DialogueNext]_dvars PROVE [Next]_vars
    OBVIOUS
  <2>1. CASE Ask
    <3>1. Known /\ at \in DOMAIN Asks
      BY <2>1, DialogueAssumption DEF Ask, DInv, InStep, Known
    <3>2. QED
      BY <1>2, <2>1, <3>1, PlacesKnown DEF Ask
  <2>2. CASE Notice
    BY <1>2, <2>2, DialogueAssumption DEF Notice
  <2>3. CASE Answer \/ Leave \/ Kill \/ Again
    BY <2>3 DEF Answer, Read, Leave, Exit, Kill, Killed, Again, EditAgain, Next
  <2>4. CASE UNCHANGED dvars
    BY <2>4 DEF dvars, svars
  <2>5. QED
    BY <2>1, <2>2, <2>3, <2>4 DEF DialogueNext
<1>4. QED
  BY <1>1, <1>3, DialogueInductive, PTL DEF DialogueSpec, Spec
=============================================================================
