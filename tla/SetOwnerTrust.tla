---------------------------- MODULE SetOwnerTrust ----------------------------
(***************************************************************************)
(* GpgSetOwnerTrustEditInteractor and gpg's "trust" command, for the value *)
(* m_ownertrust, a Key::OwnerTrust.                                        *)
(***************************************************************************)
EXTENDS EditProtocol, Sequences

States == {"START", "COMMAND", "VALUE", "REALLY_ULTIMATE", "QUIT", "SAVE",
          "ERROR"}

OwnerTrust == 0 .. 5    \* Unknown, Undefined, Never, Marginal, Full, Ultimate
Ultimate   == 5

TrustValue  == GetLine("edit_ownertrust.value")
SetUltimate == GetBool("edit_ownertrust.set_ultimate.okay")

Table ==
  { From("START",           MainPrompt,  "COMMAND"),
    From("COMMAND",         TrustValue,  "VALUE"),
    From("VALUE",           MainPrompt,  "QUIT"),
    From("VALUE",           SetUltimate, "REALLY_ULTIMATE"),
    From("REALLY_ULTIMATE", MainPrompt,  "QUIT"),
    From("QUIT",            SaveOkay,    "SAVE"),
    From("ERROR",           MainPrompt,  "QUIT") }

\* nextState(), in state s and with the lastError() "last".
NextState(s, last, i) ==
  Lookup(Table, s, i, Refuse(IF s = "ERROR" THEN last ELSE "GENERAL"))

\* Mutant: the list of answers begins with "undefined".
MutTrustStrings == <<"1", "2", "3", "4", "5", "5">>

\* "unknown" and "undefined" are one and the same answer.
TrustStrings == <<"1", "1", "2", "3", "4", "5">>

\* action(), in state s.
Lines(ownertrust) ==
  [COMMAND |-> "trust", VALUE |-> TrustStrings[ownertrust + 1],
   REALLY_ULTIMATE |-> "Y", QUIT |-> "quit", SAVE |-> "Y"]

Action(ownertrust, s) == Answered(Lines(ownertrust), s)

-----------------------------------------------------------------------------
\* gpg's side: ultimate trust has to be confirmed.
Asks == [prompt |-> MainPrompt, save |-> SaveOkay, value |-> TrustValue,
         ultimate |-> SetUltimate]

Script == QuitRows \cup
  { Row("prompt",   "trust", "value",    "none"),
    Row("value",    "5",     "ultimate", "none"),
    Row("ultimate", "Y",     "prompt",   "modify") }
  \cup {Row("value", v, "prompt", "modify") : v \in {"1", "2", "3", "4"}}

\* What the entries of gpg's menu mean, as values of Key::OwnerTrust.
Menu == {<<"1", 0>>, <<"1", 1>>, <<"2", 2>>, <<"3", 3>>, <<"4", 4>>, <<"5", Ultimate>>}

\* The lines for the questions: the entry that means the trust that the
\* application asked for, with a confirmation for ultimate trust only.
Values(ownertrust) ==
  {<<"value", m[1]>> : m \in {n \in Menu : n[2] = ownertrust}}
    \cup (IF ownertrust = Ultimate THEN {<<"ultimate", "Y">>} ELSE {})
=============================================================================
