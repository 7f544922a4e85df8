------------------------------ MODULE EditorLexer ------------------------------
(***************************************************************************)
(* ts_lex and ts_lex_keywords of parser.c, as tables: what the scanner     *)
(* does at each of its states on each character.  Where two tests of a     *)
(* state fit a character the first decides, as in f ++ g.                  *)
(***************************************************************************)
EXTENDS EditorTokens
LOCAL INSTANCE TLC

\* The characters from 32 to 95 and from 97 to 126; 96 is "backquote".
Low  == " !\"#$%&'()*+,-./0123456789:;<=>?@ABCDEFGHIJKLMNOPQRSTUVWXYZ[\\]^_"
High == "abcdefghijklmnopqrstuvwxyz{|}~"

Coded(line, first) ==
    [c \in {SubSeq(line, i, i) : i \in 1 .. Len(line)} |->
        first - 1 + CHOOSE i \in 1 .. Len(line) : SubSeq(line, i, i) = c]

\* "envelope" is U+2709, "accent" a letter beyond ASCII.  A source file holds
\* no NUL, which is what the lookahead is at the end of the input.
Code == Coded(Low, 32) @@ "backquote" :> 96 @@ Coded(High, 97)
        @@ "\t" :> 9 @@ "\n" :> 10 @@ "\f" :> 12 @@ "\r" :> 13
        @@ "accent" :> 233 @@ "envelope" :> 9993

Char == DOMAIN Code
Eof  == "end of input"

Span(lo, hi) == {c \in Char : Code[c] \in Code[lo] .. Code[hi]}

Digit   == Span("0", "9")
Upper   == Span("A", "Z")
Letter  == Upper \cup Span("a", "z") \cup {"_"}
Alnum   == Letter \cup Digit
Binary  == {"0", "1", "_"}
Octal   == Span("0", "7") \cup {"_"}
Decimal == Digit \cup {"_"}
Hex     == Digit \cup Span("A", "F") \cup Span("a", "f") \cup {"_"}
Blank   == {"\t", "\f", "\r", " "}
Inline  == Char \ {"\n"}
Plain   == Char \ {"\"", "#", "\\"}
Margin  == {"\n", " "}
Flag    == {"E", "U", "f", "i", "m", "r", "s", "u", "x"}

sym_operator_character_set_2 ==
    <<<<"!", "!">>, <<"&", "&">>, <<"*", "+">>, <<"-", "-">>, <<"/", "/">>,
      <<"<", ">">>, <<"\\", "\\">>, <<"^", "^">>, <<"|", "|">>, <<"~", "~">>>>

\* The binary search of set_contains, over the ranges from index on.
set_contains(ranges, c) ==
    LET search[index \in DOMAIN ranges, size \in DOMAIN ranges] ==
          IF size = 1 THEN c \in Span(ranges[index][1], ranges[index][2])
          ELSE LET half == size \div 2
                   mid  == index + half
               IN  \/ c \in Span(ranges[mid][1], ranges[mid][2])
                   \/ search[IF Code[c] > Code[ranges[mid][2]] THEN mid ELSE index,
                             size - half]
    IN  search[1, Len(ranges)]

OperatorChar == {c \in Char : set_contains(sym_operator_character_set_2, c)}

\* The characters that begin the same token in every mode but a string's.
Brackets    == One("(", 25) ++ One(")", 27) ++ One("[", 28) ++ One("]", 30)
               ++ One("{", 22) ++ One("}", 24)
Separators  == One("\n", 42) ++ One(",", 90) ++ One(":", 34) ++ One(";", 91)
               ++ One("@", 21) ++ One(Eof, 20)
Signs       == One("!", 80) ++ One("-", 78) ++ One("=", 31) ++ One("?", 89)
               ++ One("|", 35) ++ One("envelope", 76)
Prefixes    == One("$", 77) ++ One("%", 85) ++ One("'", 2) ++ One("0", 50)
               ++ One("backquote", 6)
CommonEntry == Brackets ++ Separators ++ Signs ++ Prefixes

\* The ranges an entry state tries last; "_".."z" takes in the backquote.
EntryRanges(blank, operators, upper) ==
    Each(Blank, blank) ++ Each(operators, 87) ++ Each(Span("1", "9"), 51)
    ++ Each(Upper, upper) ++ Each(Span("_", "z"), 44)

\* Recovery and the end of the file.
Entry0 == One("\"", 58) ++ One("#", 67) ++ One(".", 37) ++ One("/", 82) ++ One("\\", 88)
          ++ CommonEntry
          ++ EntryRanges(18, Span("&", "+") \cup Span("<", ">") \cup {"^", "~"}, 38)

\* Where a module name may go on: "." is its separator.
Entry17 == One("\"", 57) ++ One("#", 68) ++ One(".", 37) ++ CommonEntry
           ++ EntryRanges(19, Span("&", "/") \cup Span("<", ">")
                              \cup Span("\\", "^") \cup {"~"}, 45)

\* Where a regex may begin.
Entry18 == One("\"", 57) ++ One("#", 68) ++ One(".", 81) ++ One("/", 82) ++ CommonEntry
           ++ EntryRanges(18, Span("&", "+") \cup Span("<", ">")
                              \cup Span("\\", "^") \cup {"~"}, 45)

\* Anywhere else: "/" is an operator character.
Entry19 == One("\"", 57) ++ One("#", 68) ++ One(".", 81) ++ CommonEntry
           ++ EntryRanges(19, Span("&", "/") \cup Span("<", ">")
                              \cup Span("\\", "^") \cup {"~"}, 45)

\* Inside a token that cannot end yet, and the entry of a string's body (1).
Unfinished == [s \in 1 .. 16 |->
     CASE s = 1  -> One("\"", 58) ++ One("#", 59) ++ One("\\", 15) ++ Each(Char, 60)
       [] s = 2  -> One("'", 3) ++ One("\\", 16) ++ Each(Inline, 3)
       [] s = 3  -> One("'", 64)
       [] s = 4  -> One("'", 64) ++ Each(Inline, 4)
       [] s = 5  -> One("/", 65) ++ One("\\", 14) ++ Each(Inline, 5)
       [] s = 6  -> One("backquote", 46) ++ Each(Inline, 6)
       [] s = 7  -> Each({"+", "-"}, 11) ++ Each(Digit, 55)
       [] s = 8  -> Each(Binary, 53)
       [] s = 9  -> Each(Octal, 54)
       [] s = 10 -> Each(Digit, 52)
       [] s = 11 -> Each(Digit, 55)
       [] s = 12 -> Each(Hex, 56)
       [] s = 13 -> Each(Upper, 38)
       [] s = 14 -> Each(Inline, 5)
       [] s = 15 -> Each(Inline, 61)
       [] s = 16 -> Each(Inline, 4)]

\* Tokens that end where they are recognised.
Complete == 20 .. 30 \cup {42, 43, 46, 48, 57, 58, 61, 63, 64, 76, 90, 91}

MoreOperator == Each(OperatorChar, 87)

\* Tokens a longer operator may swallow, 31 to 41.
ArrowsAndPipes == [s \in 31 .. 41 |->
     CASE s = 31 -> One(">", 33) ++ MoreOperator
       [] s = 32 -> MoreOperator
       [] s = 33 -> MoreOperator
       [] s = 34 -> One(":", 76) ++ Each(Letter, 49)
       [] s = 35 -> One(">", 36) ++ MoreOperator
       [] s = 36 -> MoreOperator
       [] s = 37 -> One(".", 83)
       [] s = 38 -> Each(Alnum, 38)
       [] s = 39 -> One(">", 40) ++ MoreOperator
       [] s = 40 -> MoreOperator
       [] s = 41 -> MoreOperator]

\* Names and numbers, 44 to 56.
NamesAndNumbers == [s \in {44, 45, 47} \cup 49 .. 56 |->
     CASE s = 44 -> One("?", 43) ++ Each(Alnum \cup {"$"}, 44)
       [] s = 45 -> Each(Alnum, 45)
       [] s = 47 -> Each(Alnum, 47)
       [] s = 49 -> Each({"!", "?"}, 48) ++ Each(Alnum, 49)
       [] s = 50 -> One(".", 10) ++ Each({"B", "b"}, 8) ++ Each({"E", "e"}, 7)
                    ++ Each({"O", "o"}, 9) ++ Each({"X", "x"}, 12) ++ Each(Decimal, 51)
       [] s = 51 -> One(".", 10) ++ Each({"E", "e"}, 7) ++ Each(Decimal, 51)
       [] s = 52 -> Each({"E", "e"}, 7) ++ Each(Decimal, 52)
       [] s = 53 -> Each(Binary, 53)
       [] s = 54 -> Each(Octal, 54)
       [] s = 55 -> Each(Digit, 55)
       [] s = 56 -> Each(Hex, 56)]

\* The parts of strings, and regexes, 59 to 66.
StringsAndRegexes == [s \in {59, 60, 62, 65, 66} |->
     CASE s = 59 -> One("{", 63)
       [] s = 60 -> Each(Plain, 60)
       [] s = 62 -> MoreOperator
       [] s = 65 -> Each(Flag, 65)
       [] s = 66 -> Each(Flag, 65) ++ MoreOperator]

\* Comments of a line, 67 to 69 and 74 to 75; 75 is also a fence's last line.
Comments == [s \in 67 .. 69 \cup 74 .. 75 |->
     CASE s = 67 -> One("#", 74) ++ One("{", 63) ++ Each(Inline, 69)
       [] s = 68 -> One("#", 74) ++ Each(Inline, 69)
       [] s = 69 -> Each(Inline, 69)
       [] s = 74 -> One("#", 73) ++ Each(Inline, 75)
       [] s = 75 -> Each(Inline, 75)]

\* A fence that is open, 70 to 73: at the start of a line (70), after one or
\* two "#" there (72, 71), in the rest of the line (73).
SlipFences == [s \in 70 .. 73 |->
     CASE s = 70 -> One("\n", 70) ++ One("#", 72) ++ Each(Char, 73)
       [] s = 71 -> One("\n", 70) ++ One("#", 75) ++ Each(Char, 73)
       [] s = 72 -> One("\n", 70) ++ One("#", 71) ++ Each(Char, 73)
       [] s = 73 -> One("\n", 70) ++ Each(Char, 73)]
Fences == [s \in 70 .. 73 |->
     CASE s = 70 -> Each(Margin, 70) ++ One("#", 72) ++ Each(Char, 73)
       [] s = 71 -> One("\n", 70) ++ One("#", 75) ++ Each(Char, 73)
       [] s = 72 -> One("\n", 70) ++ One("#", 71) ++ Each(Char, 73)
       [] s = 73 -> One("\n", 70) ++ Each(Char, 73)]

\* Runs of operator characters, 77 to 89; 82 and 86 may still be a regex.
Operators == [s \in 77 .. 89 |->
     CASE s = 77 -> One("(", 26)
       [] s = 78 -> One("-", 39) ++ One(">", 32) ++ MoreOperator
       [] s = 79 -> One("-", 84) ++ MoreOperator
       [] s = 80 -> One("-", 79) ++ MoreOperator
       [] s = 81 -> One(".", 83)
       [] s = 82 -> One("/", 66) ++ One("\\", 86) ++ Each(OperatorChar, 82)
                    ++ Each(Inline, 5)
       [] s = 83 -> One("=", 76)
       [] s = 84 -> One(">", 41) ++ MoreOperator
       [] s = 85 -> One("[", 29) ++ One("{", 23)
       [] s = 86 -> Each(OperatorChar, 82) ++ Each(Inline, 5)
       [] s = 87 -> MoreOperator
       [] s = 88 -> Each(OperatorChar, 62) ++ Each(Inline, 61)
       [] s = 89 -> Each(Letter, 47)]

Stop == -1

\* What each state does; on any other character it stops.
Rules == [s \in 0 .. 91 |->
     CASE s = 0  -> Entry0
       [] s = 17 -> Entry17
       [] s = 18 -> Entry18
       [] s = 19 -> Entry19
       [] s \in 1 .. 16                        -> Unfinished[s]
       [] s \in 31 .. 41                       -> ArrowsAndPipes[s]
       [] s \in {44, 45, 47} \cup 49 .. 56     -> NamesAndNumbers[s]
       [] s \in {59, 60, 62, 65, 66}           -> StringsAndRegexes[s]
       [] s \in 67 .. 69 \cup 74 .. 75         -> Comments[s]
       [] s \in 70 .. 73                       -> Fences[s]
       [] s \in 77 .. 89                       -> Operators[s]
       [] s \in Complete                       -> Each({}, Stop)]

ScanStates == 0 .. 91

\* The state the scanner goes to, or Stop.
Step == [s \in ScanStates |-> [c \in Char \cup {Eof} |->
            IF c \in DOMAIN Rules[s] THEN Rules[s][c] ELSE Stop]]

\* The token a state has recognised, by its text.
AcceptsSymbols == [s \in 20 .. 41 |->
     CASE s = 20 -> "$end"               [] s = 21 -> "AT"
       [] s = 22 -> "LBRACE"             [] s = 23 -> "PERCENT_LBRACE"
       [] s = 24 -> "RBRACE"             [] s = 25 -> "LPAREN"
       [] s = 26 -> "DOLLAR_LPAREN"      [] s = 27 -> "RPAREN"
       [] s = 28 -> "LBRACK"             [] s = 29 -> "PERCENT_LBRACK"
       [] s = 30 -> "RBRACK"             [] s = 31 -> "EQ"
       [] s = 32 -> "DASH_GT"            [] s = 33 -> "EQ_GT"
       [] s = 34 -> "COLON"              [] s = 35 -> "PIPE"
       [] s = 36 -> "PIPE_GT"            [] s = 37 -> "DOT"
       [] s = 38 -> "module_name_token1" [] s = 39 -> "DASH_DASH"
       [] s = 40 -> "DASH_DASH_GT"       [] s = 41 -> "BANG_DASH_DASH_GT"]

\* By its class, and the two symbols that come last.
AcceptsClasses == [s \in 42 .. 91 |->
     CASE s = 42 -> "newline"            [] s \in 43 .. 44 -> "identifier"
       [] s = 45 -> "type_identifier"    [] s = 46 -> "quoted_identifier"
       [] s = 47 -> "hole"               [] s \in 48 .. 49 -> "atom"
       [] s \in 50 .. 56 -> "number"     [] s = 57 -> "DQUOTE"
       [] s = 58 -> "DQUOTE2"            [] s \in 59 .. 60 -> "string_content"
       [] s \in 61 .. 62 -> "escape_sequence"
       [] s = 63 -> "POUND_LBRACE"       [] s = 64 -> "char"
       [] s \in 65 .. 66 -> "regex"      [] s \in 67 .. 69 -> "comment"
       [] s \in 70 .. 75 -> "doc_comment"
       [] s \in 76 .. 89 -> "operator"   [] s = 90 -> "COMMA"
       [] s = 91 -> "SEMI"]

Accepts == AcceptsSymbols ++ AcceptsClasses

Skips(s, c) == s \in {0, 17, 18, 19} /\ c \in Blank

\* ts_lex_modes: the state a token is scanned from, for each parse state.
SlipLexMode == [p \in 0 .. 60 |->
    CASE p \in {0, 60}                             -> 0
      [] p \in 53 .. 57                            -> 1
      [] p = 59                                    -> 13
      [] p \in 19 .. 21 \cup {29}                  -> 17
      [] p \in 3 .. 5 \cup {18, 22} \cup 25 .. 27  -> 18
      [] OTHER                                     -> 19]
LexMode == [p \in 0 .. 60 |->
    CASE p \in {0, 60}                             -> 0
      [] p \in 53 .. 57                            -> 1
      [] p = 59                                    -> 13
      [] p \in 19 .. 21 \cup {29}                  -> 17
      [] p \in 3 .. 5 \cup {18, 22} \cup 25 .. 28  -> 18
      [] OTHER                                     -> 19]

(***************************************************************************)
(* ts_lex_keywords: a trie, one level for each number of letters read, and *)
(* the words it recognises at that level.                                  *)
(***************************************************************************)
Letters1 == {"a", "b", "c", "d", "e", "f", "i", "l", "m", "n", "o", "p", "q",
             "r", "s", "t", "u", "w", "y"}
Letters2 == {"ac", "af", "an", "ap", "as", "ba", "be", "bn", "bo", "bs", "bx",
             "ca", "de", "do", "el", "en", "ex", "fa", "fi", "fn", "fo", "fs",
             "if", "im", "in", "le", "lo", "ma", "mo", "ni", "no", "op", "or",
             "pi", "pr", "qu", "re", "se", "sp", "su", "th", "tr", "ty", "un",
             "us", "wh", "yi"}
Letters3 == {"act", "aft", "and", "app", "ban", "beh", "bno", "bor", "bsl",
             "bsr", "bxo", "cat", "der", "eli", "els", "end", "ext", "fal",
             "fin", "for", "fsm", "imp", "ind", "int", "let", "loc", "mac",
             "mat", "mod", "nil", "not", "opa", "pic", "pri", "pro", "quo",
             "rec", "ret", "sen", "spa", "sup", "the", "thr", "tru", "try",
             "typ", "uns", "use", "whe", "yie"}
Letters4 == {"acto", "afte", "band", "beha", "bnot", "bxor", "catc", "deri",
             "elif", "else", "exte", "fals", "fina", "impl", "inde", "indi",
             "inte", "loca", "macr", "matc", "opaq", "pick", "prim", "proo",
             "prot", "quot", "rece", "retu", "send", "spaw", "then", "thro",
             "true", "type", "unsa", "when", "wher", "yiel"}
Letters5 == {"actor", "after", "behav", "catch", "deriv", "exter", "false",
             "final", "imple", "index", "indic", "inter", "local", "macro",
             "match", "opaqu", "picku", "primi", "proof", "proto", "quote",
             "recei", "retur", "spawn", "throw", "typea", "unsaf", "where",
             "yield"}
SlipLetters6 == {"behavi", "derivi", "extern", "finall", "implem", "indexe",
                 "interf", "opaque", "pickup", "primit", "receiv", "return",
                 "typeal", "unsafe"}
Letters6 == {"behavi", "derivi", "extern", "finall", "implem", "indexe",
             "indice", "interf", "opaque", "pickup", "primit", "receiv",
             "return", "typeal", "unsafe"}
Letters7 == {"behavio", "derivin", "finally", "impleme", "indexed", "indices",
             "interfa", "primiti", "receive", "typeali"}
Letters8 == {"behavior", "deriving", "implemen", "interfac", "primitiv",
             "typealia"}
Letters9 == {"implement", "interface", "primitive", "typealias"}
Letters10To14 == <<{"implementa"}, {"implementat"}, {"implementati"},
                   {"implementatio"}, {"implementation"}>>

Trie == <<Letters1, Letters2, Letters3, Letters4, Letters5, Letters6, Letters7,
          Letters8, Letters9>> \o Letters10To14

\* The words each level recognises: at any level but the last a word may also
\* be the beginning of a longer one.
Recognised ==
    [n \in DOMAIN Trie |->
        CASE n = 2 -> {"as", "do", "fn", "if", "in", "or"}
          [] n = 3 -> {"and", "app", "bor", "bsl", "bsr", "end", "for", "fsm",
                       "let", "mod", "nil", "not", "rec", "sup", "try", "use"}
          [] n = 4 -> {"band", "bnot", "bxor", "elif", "else", "impl", "send",
                       "then", "true", "type", "when"}
          [] n = 5 -> {"actor", "after", "catch", "false", "local", "macro",
                       "match", "proof", "proto", "quote", "spawn", "throw",
                       "where", "yield"}
          [] n = 6 -> {"extern", "opaque", "pickup", "return", "unsafe"}
          [] n = 7 -> {"finally", "indexed", "indices", "receive"}
          [] n = 8 -> {"behavior", "deriving"}
          [] n = 9 -> {"interface", "primitive", "typealias"}
          [] n = 14 -> {"implementation"}
          [] OTHER -> {}]
===============================================================================
