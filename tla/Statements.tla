----------------------------- MODULE Statements -----------------------------
(***************************************************************************)
(* split_statements (src/helios/db/sql_files.py): a SQL script is cut into *)
(* statements at the semicolons that are not inside a literal, a dollar-   *)
(* quoted block or a comment.  A text is a sequence of characters.  It is  *)
(* written here token by token, so that where its statements end is known, *)
(* and then split character by character, a turn of the loop at a time.    *)
(***************************************************************************)
EXTENDS Integers, SequencesExt

CONSTANTS
  Char,       \* characters
  Letters,    \* what a dollar quote may be marked with: letters, digits and "_"
  Word,       \* tokens of one character of code, a lone "-" or "$" among them
  Literal,    \* literals, with quotes in pairs between their quotes
  Block,      \* dollar-quoted blocks, with their marks
  Comment,    \* line comments, with the end of their line if it ends
  MaxTokens   \* bound on the tokens of a script

\* Characters are written as themselves, but for blanks and semicolons.
White == {"blank", "\n"}

AtToken(text, at, token) ==
  at + Len(token) - 1 <= Len(text) /\ SubSeq(text, at, at + Len(token) - 1) = token

\* Where the pairs of quotes in a literal may begin.
Pairs(token) ==
  {pairs \in SUBSET (2 .. Len(token) - 2) :
     /\ \A i \in pairs : i + 1 \notin pairs
     /\ \A i \in 2 .. Len(token) - 1 :
          token[i] = "'" <=> (i \in pairs \/ i - 1 \in pairs)}

\* A block begins and ends with a mark of n characters and has none between.
Marked(token, n) ==
  LET mark == SubSeq(token, 1, n)
  IN  /\ 2 <= n /\ 2 * n <= Len(token)
      /\ mark[1] = "$" /\ mark[n] = "$"
      /\ \A i \in 2 .. n - 1 : mark[i] \in Letters
      /\ AtToken(token, Len(token) - n + 1, mark)
      /\ \A i \in n + 1 .. Len(token) - n : ~AtToken(token, i, mark)

ASSUME StatementsAssumption ==
  /\ White \cup {"'", "$", "semicolon", "-"} \cup Letters \subseteq Char
  /\ Letters \cap (White \cup {"'", "$", "semicolon", "-"}) = {}
  /\ Word \cup Literal \cup Block \cup Comment \subseteq Seq(Char)
  /\ \A token \in Word :
       Len(token) = 1 /\ token[1] \notin White \cup {"'", "semicolon"}
  /\ \A token \in Literal :
       /\ Len(token) >= 2 /\ token[1] = "'" /\ token[Len(token)] = "'"
       /\ Pairs(token) # {}
  /\ \A token \in Block : \E n \in 1 .. Len(token) : Marked(token, n)
  /\ \A token \in Comment :
       /\ Len(token) >= 2 /\ token[1] = "-" /\ token[2] = "-"
       /\ \A i \in 1 .. Len(token) : token[i] = "\n" => i = Len(token)

Code == Word \cup Literal \cup Block

Blank == {<<c>> : c \in White}

Separator == <<"semicolon">>

VARIABLES
  written,     \* the characters of the script, as places in their tokens
  opened,      \* where the statement begins that is being written
  statements,  \* where the statements with code begin and end
  splitter     \* split_statements: its locals

scriptVars == <<written, opened, statements, splitter>>

-----------------------------------------------------------------------------
(* Scripts.                                                                *)

Text == [p \in DOMAIN written |-> written[p].token[written[p].offset]]

Tokens == Cardinality({p \in DOMAIN written : written[p].offset = 1})

Places(token) == [i \in 1 .. Len(token) |-> [token |-> token, offset |-> i]]

ScriptInit ==
  /\ written = <<>>
  /\ opened = 1
  /\ statements = <<>>
  /\ splitter = [mode |-> "idle", at |-> 1, tag |-> <<>>, from |-> 1, found |-> <<>>]

\* What can be written after a line comment without an end is part of it.
Unended(token) == token \in Comment /\ token[Len(token)] # "\n"

\* SQL reads two signs side by side as the mark of a comment, and letters between
\* two dollars as the mark of a block: neither is written as lone signs.
MayFollow(token) ==
  /\ written # <<>> =>
       LET last == written[Len(written)].token
       IN  ~Unended(last) /\ ~(last = <<"-">> /\ token[1] = "-")
  /\ token[1] = "$" =>
       \A p \in DOMAIN written :
         written[p].token = <<"$">> =>
           \E q \in p + 1 .. Len(written) : Text[q] \notin Letters

Write(token) ==
  /\ splitter.mode = "idle"
  /\ Tokens < MaxTokens
  /\ MayFollow(token)
  /\ written' = written \o Places(token)
  /\ UNCHANGED <<opened, statements, splitter>>

\* The statement that is being written is over.
Ended ==
  statements' = IF \E p \in opened .. Len(written) : written[p].token \in Code
                THEN Append(statements, [from |-> opened, to |-> Len(written)])
                ELSE statements

EndStatement ==
  /\ splitter.mode = "idle"
  /\ Tokens < MaxTokens
  /\ MayFollow(Separator)
  /\ Ended
  /\ written' = written \o Places(Separator)
  /\ opened' = Len(written) + 2
  /\ UNCHANGED splitter

\* The script is handed to split_statements; nothing ends its last statement.
Split ==
  /\ splitter.mode = "idle"
  /\ Ended
  /\ splitter' = [splitter EXCEPT !.mode = "plain"]
  /\ UNCHANGED <<written, opened>>

-----------------------------------------------------------------------------
(* The splitter.                                                           *)

\* str.strip
Strip(text) ==
  LET ink == {i \in DOMAIN text : text[i] \notin White}
  IN  IF ink = {} THEN <<>> ELSE SubSeq(text, Min(ink), Max(ink))

LineStarts(text) ==
  {i \in DOMAIN text : i = 1 \/ text[i - 1] = "\n"}

\* From the first character of a line that is not white.
LineInk(text, start) ==
  {i \in DOMAIN text :
     /\ i >= start
     /\ \A j \in start .. i : text[j] # "\n"
     /\ text[i] \notin White}

\* Some line is neither blank nor a comment.
Meaningful(text) ==
  \E start \in LineStarts(text) :
    LET ink == LineInk(text, start)
    IN  ink # {} /\ ~AtToken(text, Min(ink), <<"-", "-">>)

OneDash(at) == Text[at] = "-"

OpensComment(at) == AtToken(Text, at, <<"-", "-">>)

\* The dollar quote that opens here, if one does: letters between two dollars.
Tag(at) ==
  LET ends == {j \in DOMAIN Text : j > at /\ Text[j] = "$"}
      tag  == SubSeq(Text, at, Min(ends))
  IN  IF Text[at] # "$" \/ ends = {} THEN <<>>
      ELSE IF \A i \in 2 .. Len(tag) - 1 : tag[i] \in Letters THEN tag
      ELSE <<>>

\* The characters that are in the buffer: what was passed since it was empty.
Buffer == SubSeq(Text, splitter.from, splitter.at - 1)

InMode(mode) == splitter.mode = mode /\ splitter.at <= Len(Text)

\* The loop takes n characters into the buffer.
Pass(n, mode) == splitter' = [splitter EXCEPT !.at = @ + n, !.mode = mode]

InComment ==
  /\ InMode("comment")
  /\ Pass(1, IF Text[splitter.at] = "\n" THEN "plain" ELSE "comment")

InDollar ==
  /\ InMode("dollar")
  /\ IF AtToken(Text, splitter.at, splitter.tag)
       THEN Pass(Len(splitter.tag), "plain")
       ELSE Pass(1, "dollar")

InQuote ==
  /\ InMode("quote")
  /\ IF Text[splitter.at] # "'" THEN Pass(1, "quote")
     ELSE IF AtToken(Text, splitter.at, <<"'", "'">>) THEN Pass(2, "quote")
     ELSE Pass(1, "plain")

\* What ends here is found to be a statement, unless it is nothing but blanks and
\* comments.  The code drops those with comments in the end, from all it found.
Found ==
  LET statement == Strip(Buffer)
  IN  IF statement # <<>> /\ Meaningful(statement)
        THEN Append(splitter.found, statement)
        ELSE splitter.found

InPlain ==
  /\ InMode("plain")
  /\ LET at  == splitter.at
         tag == Tag(at)
     IN  CASE OpensComment(at) -> Pass(1, "comment")
           [] Text[at] = "'" -> Pass(1, "quote")
           [] tag # <<>> -> splitter' = [splitter EXCEPT !.at = at + Len(tag),
                                                         !.mode = "dollar",
                                                         !.tag = tag]
           [] Text[at] = "semicolon" -> splitter' = [splitter EXCEPT !.at = at + 1,
                                                             !.from = at + 1,
                                                             !.found = Found]
           [] OTHER -> Pass(1, "plain")

\* The loop is over; what is left in the buffer is the last statement.
Finish ==
  /\ splitter.mode \notin {"idle", "done"} /\ splitter.at > Len(Text)
  /\ splitter' = [splitter EXCEPT !.mode = "done", !.found = Found]

Turn ==
  /\ InComment \/ InDollar \/ InQuote \/ InPlain \/ Finish
  /\ UNCHANGED <<written, opened, statements>>

ScriptNext ==
  \/ \E token \in Code \cup Comment \cup Blank : Write(token)
  \/ EndStatement
  \/ Split
  \/ Turn

-----------------------------------------------------------------------------
(* Property.                                                               *)

\* Every statement of a script that has code comes out as it was written, in
\* order, and nothing else comes out: no literal, block or comment is cut, and
\* none swallows what follows (sql_files.py:72-164).
SplitsAsWritten ==
  splitter.mode = "done" =>
    splitter.found = [i \in DOMAIN statements |->
                        Strip(SubSeq(Text, statements[i].from, statements[i].to))]
=============================================================================
