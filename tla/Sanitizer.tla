----------------------------- MODULE Sanitizer -----------------------------
(***************************************************************************)
(* The SQL sanitizer (internal/reporter/sql_sanitizer.go): a finite state   *)
(* machine that replaces literals, one step per rune.  Runes are strings of *)
(* length one, or names; a letter of one byte, one of two bytes, a digit,   *)
(* an operator or a space stands for all of its kind.                       *)
(***************************************************************************)
EXTENDS Integers, Sequences, FiniteSets, SequencesExt

CONSTANTS
  Statements, \* records of a database and a sequence of tokens, which have a text (runes) and
              \* say whether they are literals
  MaxSQLLen

ASSUME SanitizerAssumption == MaxSQLLen \in Nat \ {0}

VARIABLES
  db,       \* the type of the database
  tokens,   \* the statement
  sql,      \* its runes
  position, \* the next one
  fsm,      \* "Copy", "StringStart", ...; or "Done"
  closingQuote,
  buffer,   \* the result
  tag       \* of PostgreSQL's dollar-quoted literals

input == <<db, tokens, sql>>
sanitizerVars == <<input, position, fsm, closingQuote, buffer, tag>>

Wide == {"eacute"}  \* two bytes in UTF-8
Letters == {"a", "X", "U", "E", "_"} \cup Wide
Digits == {"1"}
Operators == {",", ".", "(", ")", "[", "]"}
Ellipsis == "..."

\* The quotes around literals, with EnabledAuto; the closing quote is the same.
LiteralQuotes ==
  {"'"} \cup (IF db \in {"postgresql", "oracle"} THEN {} ELSE {"\""})
        \cup (IF db = "postgresql" THEN {"$"} ELSE {})

\* The quotes around identifiers, and what closes them.
IdentifierQuotes ==
  (IF db \in {"postgresql", "oracle"} THEN {<<"\"", "\"">>} ELSE {})
  \cup (IF db = "mysql" THEN {<<"grave", "grave">>} ELSE {})
  \cup (IF db \in {"sybase", "sqlserver"} THEN {<<"[", "]">>} ELSE {})

Runes(statement) == FlattenSeq([k \in 1..Len(statement) |-> statement[k].text])

SanitizerInit ==
  /\ \E statement \in Statements : db = statement.db /\ tokens = statement.tokens
  /\ sql = Runes(tokens)
  /\ position = 1 /\ fsm = "Copy" /\ closingQuote = "" /\ buffer = <<>> /\ tag = <<"$">>

-----------------------------------------------------------------------------
Rune == sql[position]

Dollar == closingQuote = "$"

To(state, pushed) == fsm' = state /\ buffer' = buffer \o pushed

Handle(state) ==
  /\ position <= Len(sql) /\ Len(buffer) < MaxSQLLen - 1
  /\ fsm = state
  /\ position' = position + 1
  /\ UNCHANGED input

StringStart ==
  /\ Handle("StringStart")
  /\ UNCHANGED closingQuote
  /\ \/ /\ Dollar
        /\ IF Rune = "$" THEN To("StringBody", <<"?">>) ELSE To("StringStart", <<>>)
        /\ tag' = Append(tag, Rune)
     \/ /\ ~Dollar
        /\ To(CASE Rune = closingQuote -> "StringEnd" [] Rune = "\\" -> "StringEscape"
                [] OTHER -> "StringBody", <<"?">>)
        /\ UNCHANGED tag

\* What the loop counts: the bytes before the rune.
Offset == position - 1 + Cardinality({k \in 1..(position - 1) : sql[k] \in Wide})

\* A `$' in a dollar-quoted literal after which the tag is not found.  The code looks for the tag
\* among the runes, but at the byte's number: a wide rune before it makes it look too far.
Inside ==
  /\ Dollar
  /\ Offset + Len(tag) <= Len(sql)
  /\ SubSeq(sql, Offset + 1, Offset + Len(tag)) # tag

StringBody ==
  /\ Handle("StringBody")
  /\ UNCHANGED closingQuote
  /\ LET ends == Rune = closingQuote /\ ~Inside
     IN /\ To(IF ends THEN "StringEnd"
              ELSE IF Rune = "\\" /\ ~Dollar THEN "StringEscape" ELSE "StringBody", <<>>)
        /\ tag' = IF ends /\ Dollar THEN <<"$">> ELSE tag

StringEscape ==
  /\ Handle("StringEscape")
  /\ To("StringBody", <<>>)
  /\ UNCHANGED <<closingQuote, tag>>

\* A quote inside a literal is doubled.
Doubled == Rune = closingQuote

StringEnd ==
  /\ Handle("StringEnd")
  /\ UNCHANGED <<closingQuote, tag>>
  /\ IF Dollar THEN To(IF Rune = "$" THEN "Copy" ELSE "StringEnd", <<>>)
     ELSE IF Doubled THEN To("StringBody", <<>>) ELSE To("Copy", <<Rune>>)

CopyEscape ==
  /\ Handle("CopyEscape")
  /\ To("Copy", <<Rune>>)
  /\ UNCHANGED <<closingQuote, tag>>

Number ==
  /\ Handle("Number")
  /\ UNCHANGED <<closingQuote, tag>>
  /\ CASE Rune \in Digits -> To("Number", <<>>)
       [] Rune \in {".", "E"} -> To("NumericExtension", <<>>)
       [] OTHER -> To("Copy", <<Rune>>)

NumericExtension ==
  /\ Handle("NumericExtension")
  /\ To("Number", <<>>)
  /\ UNCHANGED <<closingQuote, tag>>

\* What remains when the prefix of a literal, as in X'1F' or U&'a', is taken back.
WithoutPrefix ==
  LET n == Len(buffer)
  IN IF n > 0 /\ buffer[n] \in {"X", "B", "U", "N"} THEN SubSeq(buffer, 1, n - 1)
     ELSE IF n > 1 /\ buffer[n] = "&" /\ buffer[n - 1] = "U" THEN SubSeq(buffer, 1, n - 2)
     ELSE buffer

Identifier ==
  /\ Handle("Identifier")
  /\ UNCHANGED tag
  /\ IF Rune \in LiteralQuotes
     THEN buffer' = WithoutPrefix /\ closingQuote' = Rune /\ fsm' = "StringStart"
     ELSE /\ To(IF Rune \in Operators \cup {" "} THEN "Copy" ELSE "Identifier", <<Rune>>)
          /\ UNCHANGED closingQuote

QuotedIdentifier ==
  /\ Handle("QuotedIdentifier")
  /\ UNCHANGED <<closingQuote, tag>>
  /\ To(CASE Rune = closingQuote -> "Copy" [] Rune = "\\" -> "QuotedIdentifierEscape"
          [] OTHER -> "QuotedIdentifier", <<Rune>>)

QuotedIdentifierEscape ==
  /\ Handle("QuotedIdentifierEscape")
  /\ To("QuotedIdentifier", <<Rune>>)
  /\ UNCHANGED <<closingQuote, tag>>

Copy ==
  /\ Handle("Copy")
  /\ UNCHANGED tag
  /\ closingQuote' = IF Rune \in LiteralQuotes THEN Rune
                     ELSE IF \E q \in IdentifierQuotes : q[1] = Rune
                     THEN (CHOOSE q \in IdentifierQuotes : q[1] = Rune)[2] ELSE closingQuote
  /\ CASE Rune \in LiteralQuotes -> To("StringStart", <<>>)
       [] \E q \in IdentifierQuotes : q[1] = Rune -> To("QuotedIdentifier", <<Rune>>)
       [] Rune = "\\" -> To("CopyEscape", <<Rune>>)
       [] Rune \in Letters -> To("Identifier", <<Rune>>)
       [] Rune \in Digits -> To("Number", <<"?">>)
       [] OTHER -> To("Copy", <<Rune>>)

\* The end of the statement, or of the room for the result.
Finish ==
  /\ fsm # "Done"
  /\ position > Len(sql) \/ Len(buffer) >= MaxSQLLen - 1
  /\ buffer' = IF position > Len(sql) THEN buffer ELSE Append(buffer, Ellipsis)
  /\ fsm' = "Done"
  /\ UNCHANGED <<input, position, closingQuote, tag>>

SanitizerNext ==
  \/ StringStart \/ StringBody \/ StringEscape \/ StringEnd
  \/ Number \/ NumericExtension \/ Identifier \/ QuotedIdentifier \/ QuotedIdentifierEscape
  \/ Copy \/ CopyEscape \/ Finish

SanitizerSpec == SanitizerInit /\ [][SanitizerNext]_sanitizerVars

-----------------------------------------------------------------------------
(* Correctness. *)

\* What the grammar of SQL says of a statement: literals are replaced, the rest stays.
Expected(statement) == FlattenSeq([k \in 1..Len(statement) |->
                         IF statement[k].literal THEN <<"?">> ELSE statement[k].text])

\* The dollar-quoted literals whose end is looked for in the wrong place, because of a wide rune
\* before it or in it.
Misread == {k \in 1..Len(tokens) :
              /\ tokens[k].literal /\ Head(tokens[k].text) = "$"
              /\ \E j \in 1..k : Wide \cap ToSet(tokens[j].text) # {}}

\* What can be told of the result: all of it, or up to the mark of the first literal misread.
Told == Expected(IF Misread = {} THEN tokens ELSE SubSeq(tokens, 1, Min(Misread)))

\* The sanitized statement has one mark for every literal, however it is quoted, escaped or
\* prefixed, and everything else unchanged, up to the limit, where the prefix of a literal
\* may remain (sql_sanitizer.go:152-349), and up to a literal that is misread, which may swallow
\* what follows (:203, :242-243).
LiteralsReplaced ==
  fsm = "Done" =>
    \/ IF Misread = {} THEN buffer = Told ELSE IsPrefix(Told, buffer)
    \/ /\ Len(buffer) = MaxSQLLen /\ Last(buffer) = Ellipsis
       /\ IsPrefix(SubSeq(Told, 1, Min({Len(Told), MaxSQLLen - 3})), buffer)
=============================================================================
