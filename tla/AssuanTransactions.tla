------------------------- MODULE AssuanTransactions -------------------------
(***************************************************************************)
(* DefaultAssuanTransaction, ScdGetInfoAssuanTransaction and               *)
(* GpgAgentGetInfoAssuanTransaction: what they collect while a server      *)
(* answers through the callbacks of Context, and what their getters make   *)
(* of it.  Bytes are numbers, as percent_unescape() computes with them.    *)
(***************************************************************************)
EXTENDS Integers, Sequences, SequencesExt

CONSTANTS
  Version,   \* the server's answer to "version"
  Reader,    \* its names for card readers, never empty
  Plain,     \* arguments of status lines as the server means them
  Tag,       \* keywords of status lines
  MaxLines,  \* most status lines in the life of a transaction (bound)
  MaxUses    \* most operations with one transaction (bound)

Newline == 10  Space == 32  Percent == 37  Plus == 43
Octet == 0 .. 255

ASSUME AssuanAssumption ==
  /\ Version \in Seq(Octet) /\ Reader \subseteq Seq(Octet \ {Newline}) \ {<<>>}
  /\ Plain \subseteq Seq(Octet)
  /\ MaxLines \in Nat /\ MaxUses \in Nat \ {0}

\* enum InfoItem of the two classes, and the tokens at the same positions.
ScdItems   == <<"Version", "Pid", "SocketName", "Status", "ReaderList", "DenyAdmin",
                "ApplicationList">>
ScdTokens  == <<"version", "pid", "socket_name", "status", "reader_list", "deny_admin",
                "app_list">>
AgentItems == <<"Version", "Pid", "SocketName", "SshSocketName", "ScdRunning">>
\* Mutant: the tokens are not in the order of the enumerators.
MutAgentTokens == <<"pid", "version", "socket_name", "ssh_socket_name", "scd_running">>
AgentTokens    == <<"version", "pid", "socket_name", "ssh_socket_name", "scd_running">>

VARIABLES
  class,    \* "default", "scd" or "agent"; never assigned
  item,     \* m_item, the position in the enumeration; never assigned
  mData,    \* m_data
  mStatus,  \* m_status, of the default transaction
  todo,     \* what the server has yet to send as data in this operation
  answers,  \* what it has sent in all operations of this transaction
  lines,    \* the status lines it has sent, as it meant them
  running,  \* an operation is in progress
  broken,   \* an operation ended before the server had sent everything
  uses      \* operations so far

given == <<class, item>>
assuanVars == <<given, mData, mStatus, todo, answers, lines, running, broken, uses>>

-----------------------------------------------------------------------------
(* percent_unescape() *)

\* xtoi_1(): hexadecimal digits, and what the arithmetic makes of other bytes.
HexDigit(ch) ==
  LET r == IF ch <= 57 THEN ch - 48 ELSE IF ch <= 70 THEN ch - 65 + 10 ELSE ch - 97 + 10
  IN IF r \in 0 .. 15 THEN r ELSE 0

\* Mutant: one byte must follow, not two.
MutUnescape(s) ==
  LET from[i \in 1 .. Len(s) + 3] ==
        IF i > Len(s) THEN <<>>
        ELSE IF s[i] = Percent /\ Len(s) - i >= 3
             THEN <<HexDigit(s[i + 1]) * 16 + HexDigit(s[i + 2])>> \o from[i + 3]
        ELSE <<IF s[i] = Plus THEN Space ELSE s[i]>> \o from[i + 1]
  IN from[1]

\* percent_unescape(s, true)
Unescape(s) ==
  LET from[i \in 1 .. Len(s) + 3] ==
        IF i > Len(s) THEN <<>>
        ELSE IF s[i] = Percent /\ Len(s) - i >= 2
             THEN <<HexDigit(s[i + 1]) * 16 + HexDigit(s[i + 2])>> \o from[i + 3]
        ELSE <<IF s[i] = Plus THEN Space ELSE s[i]>> \o from[i + 1]
  IN from[1]

\* What a char pointer says of a text: it ends before the first zero byte.
CString(s) ==
  SubSeq(s, 1, CHOOSE n \in 0 .. Len(s) :
                 /\ \A k \in 1 .. n : s[k] # 0
                 /\ n < Len(s) => s[n + 1] = 0)

\* The server's side: spaces become "+", other special bytes "%XX", with small
\* or capital digits.
Hex(n, ten) == IF n < 10 THEN 48 + n ELSE ten + n - 10
Escape(s, ten) ==
  FlattenSeq([i \in 1 .. Len(s) |->
    IF s[i] = Space THEN <<Plus>>
    ELSE IF s[i] \in {Percent, Plus} \/ s[i] < Space
         THEN <<Percent, Hex(s[i] \div 16, ten), Hex(s[i] % 16, ten)>>
    ELSE <<s[i]>>])

-----------------------------------------------------------------------------
(* The operation *)

Token ==
  CASE class = "scd"   -> ScdTokens[item]
    [] class = "agent" -> AgentTokens[item]
    [] OTHER           -> "version"

\* What the server says to GETINFO.
Replies(token) ==
  CASE token = "version"     -> {Version}
    [] token = "reader_list" -> {r \o <<Newline>> \o s \o <<Newline>> : r, s \in Reader} \cup {<<>>}
    [] OTHER                 -> {<<>>}

\* assuanTransact() or its asynchronous form with a transaction that is new or
\* was taken back with takeLastAssuanTransaction().
Transact ==
  /\ ~running /\ uses < MaxUses
  /\ todo' \in Replies(Token)
  /\ running' = TRUE
  /\ uses' = uses + 1
  /\ UNCHANGED <<given, mData, mStatus, answers, lines, broken>>

\* data(): the pieces are put together.
Received(data) == mData \o data

\* The server sends a piece of its data.
SendData ==
  /\ running
  /\ \E n \in 1 .. Len(todo) :
       /\ mData' = Received(SubSeq(todo, 1, n))
       /\ answers' = answers \o SubSeq(todo, 1, n)
       /\ todo' = SubSeq(todo, n + 1, Len(todo))
  /\ UNCHANGED <<given, mStatus, lines, running, broken, uses>>

\* Mutant: the text after a zero byte stays.
MutArgs(sent) == Unescape(sent)

\* The arguments that status() is given: unescaped in any case, and by c_str().
Args(sent) == CString(Unescape(sent))

\* The server sends a status line, escaped or as it is.  The two other classes
\* ignore it.
SendStatus ==
  /\ running /\ Len(lines) < MaxLines
  /\ \E tag \in Tag, s \in Plain, how \in {"small", "capital", "raw"} :
       LET sent == CASE how = "small" -> Escape(s, 97)
                     [] how = "capital" -> Escape(s, 65)
                     [] how = "raw" -> CString(s)
       IN /\ lines' = Append(lines, [tag |-> tag, args |-> s, raw |-> how = "raw"])
          /\ mStatus' = IF class = "default"
                        THEN Append(mStatus, [tag |-> tag, args |-> Args(sent)])
                        ELSE mStatus
  /\ UNCHANGED <<given, mData, todo, answers, running, broken, uses>>

\* The server inquires: all three answer with Data::null and no error.
Inquire == running /\ UNCHANGED assuanVars

\* The operation ends, complete or with an error before everything was sent.
Finish ==
  /\ running
  /\ running' = FALSE
  /\ broken' = (broken \/ todo # <<>>)
  /\ todo' = <<>>
  /\ UNCHANGED <<given, mData, mStatus, answers, lines, uses>>

-----------------------------------------------------------------------------
(* What the transaction tells the application *)

\* version(), socketName(), readerList() ... have nothing for another item.
Items == CASE class = "scd" -> ScdItems [] class = "agent" -> AgentItems [] OTHER -> <<>>
Answer(it) == IF item \in DOMAIN Items /\ Items[item] = it THEN mData ELSE <<>>

\* split() at newlines with token_compress_on: neighbouring ones count as one,
\* and at the ends of the text they leave an empty token.
Split(s) ==
  LET upTo[n \in 0 .. Len(s)] ==
        IF n = 0 THEN << <<>> >>
        ELSE IF s[n] # Newline
             THEN Append(Front(upTo[n - 1]), Append(Last(upTo[n - 1]), s[n]))
        ELSE IF n > 1 /\ s[n - 1] = Newline THEN upTo[n - 1]
        ELSE Append(upTo[n - 1], <<>>)
  IN upTo[Len(s)]

ReaderList == Split(Answer("ReaderList"))

\* The entries of a list of status lines that have this keyword, in order.
Tagged(list, tag) ==
  LET upTo[n \in 0 .. Len(list)] ==
        IF n = 0 THEN <<>>
        ELSE IF list[n].tag = tag THEN Append(upTo[n - 1], list[n])
        ELSE upTo[n - 1]
  IN upTo[Len(list)]

\* statusLine() and firstStatusLine()
StatusLine(tag) == LET hits == Tagged(mStatus, tag) IN [k \in DOMAIN hits |-> hits[k].args]
FirstStatusLine(tag) == IF StatusLine(tag) = <<>> THEN <<>> ELSE StatusLine(tag)[1]

AssuanInit ==
  /\ \/ class = "default" /\ item = 0
     \/ class = "scd" /\ item \in DOMAIN ScdItems
     \/ class = "agent" /\ item \in DOMAIN AgentItems
  /\ mData = <<>> /\ mStatus = <<>> /\ todo = <<>> /\ answers = <<>> /\ lines = <<>>
  /\ running = FALSE /\ broken = FALSE /\ uses = 0

AssuanNext == Transact \/ SendData \/ SendStatus \/ Inquire \/ Finish

AssuanSpec == AssuanInit /\ [][AssuanNext]_assuanVars

-----------------------------------------------------------------------------
AssuanTypeOK ==
  /\ class \in {"default", "scd", "agent"} /\ item \in Nat
  /\ mData \in Seq(Octet) /\ todo \in Seq(Octet) /\ answers \in Seq(Octet)
  /\ mStatus \in Seq([tag : Tag, args : Seq(Octet)])
  /\ running \in BOOLEAN /\ broken \in BOOLEAN /\ uses \in 0 .. MaxUses

\* The status lines that a transaction reports under a tag are those of the
\* server with that tag, in order, and read as the server meant them up to the
\* first zero byte, which a server can only send escaped, though Context
\* unescapes all of them: what a server did not escape comes out right unless it
\* contains "+" or "%".
StatusAsMeant ==
  /\ AssuanTypeOK
  /\ class = "default" =>
       \A tag \in Tag :
         LET sent == Tagged(lines, tag)
             got  == StatusLine(tag)
         IN /\ Len(got) = Len(sent)
            /\ \A k \in DOMAIN sent :
                 \/ got[k] = CString(sent[k].args)
                 \/ sent[k].raw /\ \E b \in {Plus, Percent} : Contains(sent[k].args, b)

\* What the enumerators ask for, by their names.
Asks(it) ==
  CASE it = "Version" -> "version" [] it = "ReaderList" -> "reader_list" [] OTHER -> "other"

\* The getter of an item answers with what the server said to that question,
\* in however many pieces that came; with a part of it only while the
\* operation is running or when it broke off.  Of a reader list whose end is
\* in, the tokens are the readers, complete and in the server's order, and on
\* top one empty token, the last, for an empty list too.  A transaction that
\* is used again answers with both answers in a row, and after an operation
\* that broke off its last reader and its next first one are joined.
AnswerIsReply ==
  /\ uses = 1 /\ item \in DOMAIN Items =>
       \E r \in Replies(Asks(Items[item])) : IsPrefix(Answer(Items[item]), r)
  /\ ~broken /\ Answer("ReaderList") # <<>> /\ Last(mData) = Newline =>
       LET names == Front(ReaderList)
       IN /\ Last(ReaderList) = <<>>
          /\ \A k \in DOMAIN names : names[k] \in Reader
          /\ FlattenSeq([k \in DOMAIN names |-> Append(names[k], Newline)]) = answers
=============================================================================
