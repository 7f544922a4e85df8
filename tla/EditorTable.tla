----------------------------- MODULE EditorTable ------------------------------
(***************************************************************************)
(* The LR table of parser.c: for each parse state, what the parser does on *)
(* a token, and where it goes on a nonterminal it has just reduced.        *)
(*                                                                         *)
(* The repeated shifts of the table (SHIFT_REPEAT) are for reusing the     *)
(* subtrees of an edited file and parsing ignores them.                    *)
(***************************************************************************)
EXTENDS EditorTokens

Shift(state)           == [do |-> "shift", to |-> state]
Goto(state)            == [do |-> "goto", to |-> state]
Reduce(symbol, length) == [do |-> "reduce", to |-> symbol, length |-> length]
AcceptInput            == [do |-> "accept"]
Recover                == [do |-> "recover"]

\* What every state that expects an item does with one; "item" is where it
\* goes after it.
Item(item) == [s \in ItemParts \cup {"keyword", "punctuation"} \cup ItemStarts |->
    CASE s \in ItemParts                  -> Goto(item)
      [] s \in {"keyword", "punctuation"} -> Goto(22)
      [] s \in Simple                     -> Shift(item)
      [] s \in BraceOpeners               -> Shift(3)
      [] s \in BracketOpeners             -> Shift(4)
      [] s \in ParenOpeners               -> Shift(5)
      [] s \in Starters                   -> Shift(22)
      [] s \in Punctuation                -> Shift(28)
      [] s \in TypeKinds                  -> Shift(25)
      [] s \in PlainKeywords              -> Shift(26)
      [] s \in Containers                 -> Shift(23)
      [] s \in Arrows                     -> Shift(37)
      [] s \in Booleans                   -> Shift(46)
      [] s = "mod"                        -> Shift(18)
      [] s = "fn"                         -> Shift(27)
      [] s = "macro"                      -> Shift(24)
      [] s = "AT"                         -> Shift(49)
      [] s = "DASH_DASH"                  -> Shift(58)
      [] s = "DQUOTE"                     -> Shift(54)]

\* What may follow an item.
Follow == ItemStarts \cup Closers \cup {"$end"}

Ends(symbol, length) == Each(Follow, Reduce(symbol, length))

Row0 == Each(Tokens \ {"string_content"}, Recover)
Row1 == Item(6) ++ One("$end", Reduce("source_file", 0))
        ++ One("source_file", Goto(60))
SlipRow2 == Ends("source_file_repeat1", 0) ++ Each(ItemParts, Goto(2))
            ++ Each({"keyword", "punctuation"}, Goto(22))
Row2 == Ends("source_file_repeat1", 2) ++ Each(ItemParts, Goto(2))
        ++ Each({"keyword", "punctuation"}, Goto(22))

\* Just after an opener.
Row3 == Item(9)  ++ One("RBRACE", Shift(45)) ++ One("regex", Shift(7))
Row4 == Item(10) ++ One("RBRACK", Shift(31)) ++ One("regex", Shift(12))
Row5 == Item(8)  ++ One("RPAREN", Shift(47)) ++ One("regex", Shift(15))

\* Among the items of a file, a group or an interpolation.
Row6  == Item(2)  ++ One("$end", Reduce("source_file", 1))
Row7  == Item(14) ++ One("RBRACE", Shift(42))
Row8  == Item(2)  ++ One("RPAREN", Shift(44))
Row9  == Item(2)  ++ One("RBRACE", Shift(42))
Row10 == Item(2)  ++ One("RBRACK", Shift(30))
Row11 == Item(16) ++ One("RBRACE", Shift(56))
Row12 == Item(17) ++ One("RBRACK", Shift(30))
SlipRow13 == Item(2) ++ One("RPAREN", Shift(44))
Row13 == Item(2)  ++ One("RPAREN", Shift(51))
Row14 == Item(2)  ++ One("RBRACE", Shift(48))
Row15 == Item(13) ++ One("RPAREN", Shift(44))
Row16 == Item(2)  ++ One("RBRACE", Shift(57))
Row17 == Item(2)  ++ One("RBRACK", Shift(52))

\* Where a name or a regex may complete what came before.
Keyword == Ends("keyword", 1) ++ One("regex", Reduce("keyword", 1))
Named   == One("type_identifier", Shift(19))

Row18 == Named ++ Keyword ++ One("module_name", Goto(35))
SlipRow19 == Ends("module_name", 1) ++ One("DOT", Shift(59))
Row19 == Ends("module_name", 1) ++ One("DOT", Shift(59))
         ++ One("module_name_repeat1", Goto(20))
Row20 == Ends("module_name", 2) ++ One("DOT", Shift(59))
         ++ One("module_name_repeat1", Goto(21))
Row21 == Ends("module_name_repeat1", 2)
         ++ One("DOT", Reduce("module_name_repeat1", 2))
         ++ One("module_name_repeat1", Goto(21))
Row22 == Ends("_regex_start", 1) ++ One("regex", Shift(34))
Row23 == Named ++ Ends("_token", 1) ++ One("module_name", Goto(41))
Row24 == Named ++ Each(Containers \cup {"identifier"}, Shift(43))
         ++ Ends("_token", 1) ++ One("module_name", Goto(43))
Row25 == One("type_identifier", Shift(32)) ++ Keyword
Row26 == Keyword
Row27 == Each({"identifier", "quoted_identifier"}, Shift(36)) ++ Keyword
Row28 == Ends("punctuation", 1) ++ One("regex", Reduce("punctuation", 1))
Row29 == Ends("module_name_repeat1", 2)
         ++ One("DOT", Reduce("module_name_repeat1", 2))

\* Where an item is complete.
Row30 == Ends("bracket_group", 3)
Row31 == Ends("bracket_group", 2)
Row32 == Ends("type_declaration", 2)
Row33 == Ends("decorator", 2)
SlipRow34 == Ends("_regex_start", 1)
Row34 == Ends("_regex_start", 2)
Row35 == Ends("module_declaration", 2)
Row36 == Ends("function_declaration", 2)
Row37 == Ends("transition_arrow", 1)
Row38 == Ends("transition", 2)
Row39 == Ends("string", 2)
Row40 == Ends("decorator", 2)
Row41 == Ends("container_declaration", 2)
Row42 == Ends("brace_group", 3)
Row43 == Ends("macro_declaration", 2)
Row44 == Ends("paren_group", 3)
Row45 == Ends("brace_group", 2)
Row46 == Ends("boolean", 1)
Row47 == Ends("paren_group", 2)
Row48 == Ends("brace_group", 4)
Row49 == One("identifier", Shift(40)) ++ One("extern", Shift(33))
         ++ Ends("_token", 1)
Row50 == Ends("string", 3)
Row51 == Ends("paren_group", 4)
Row52 == Ends("bracket_group", 4)

\* The small table: inside a string (53 to 57), after "--" (58), after a
\* module name's "." (59), after the whole file (60).
Part(state) == Each({"string_content", "escape_sequence"}, Shift(state))
               ++ One("POUND_LBRACE", Shift(11))
               ++ Each({"interpolation", "string_repeat1"}, Goto(state))
EndsPart(symbol, length) == Each(StringParts, Reduce(symbol, length))

Row53 == Part(55) ++ One("DQUOTE2", Shift(50))
Row54 == Part(53) ++ One("DQUOTE2", Shift(39))
Row55 == EndsPart("string_repeat1", 2)
         ++ Each({"interpolation", "string_repeat1"}, Goto(55))
Row56 == EndsPart("interpolation", 2)
Row57 == EndsPart("interpolation", 3)
Row58 == Each({"identifier", "type_identifier"}, Shift(38))
Row59 == One("module_name_token1", Shift(29))
Row60 == One("$end", AcceptInput)

Table == One(0, Row0) ++
    <<Row1, Row2, Row3, Row4, Row5, Row6, Row7, Row8, Row9, Row10, Row11, Row12,
      Row13, Row14, Row15, Row16, Row17, Row18, Row19, Row20, Row21, Row22,
      Row23, Row24, Row25, Row26, Row27, Row28, Row29, Row30, Row31, Row32,
      Row33, Row34, Row35, Row36, Row37, Row38, Row39, Row40, Row41, Row42,
      Row43, Row44, Row45, Row46, Row47, Row48, Row49, Row50, Row51, Row52,
      Row53, Row54, Row55, Row56, Row57, Row58, Row59, Row60>>
===============================================================================
