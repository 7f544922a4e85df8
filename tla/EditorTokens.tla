----------------------------- MODULE EditorTokens -----------------------------
(***************************************************************************)
(* The symbols of the editor's grammar (tree-sitter-cure), under the       *)
(* names of parser.c without their anon_sym_, sym_ and aux_sym_ prefixes.  *)
(* ts_builtin_sym_end is "$end": "end" is the keyword.                     *)
(***************************************************************************)
EXTENDS Integers, Sequences

\* A function of one pair, a function that is the same everywhere, and a
\* function that is g where f is undefined.
One(x, y)  == [z \in {x} |-> y]
Each(S, y) == [z \in S |-> y]
f ++ g     == [z \in DOMAIN f \cup DOMAIN g |-> IF z \in DOMAIN f THEN f[z] ELSE g[z]]

Containers == {"actor", "app", "behavior", "fsm", "sup", "proof"}
Booleans   == {"true", "false"}

TypeKinds == {"type", "typealias", "rec", "interface", "implementation",
              "proto", "impl"}

\* The keywords that head no declaration of their own.
PlainKeywords ==
    {"extern", "let", "opaque", "primitive", "indexed", "indices", "local",
     "use", "as", "deriving", "match", "pickup", "if", "elif", "else", "then",
     "for", "do", "end", "in", "try", "catch", "finally", "throw", "return",
     "yield", "spawn", "send", "receive", "after", "when", "where", "and", "or",
     "not", "band", "bor", "bxor", "bsl", "bsr", "bnot", "quote", "unsafe"}

Keywords == {"mod", "fn"} \cup TypeKinds \cup PlainKeywords

\* What the grammar reads out of an identifier's characters.
Reserved == Keywords \cup Containers \cup Booleans \cup {"macro", "nil"}

Starters    == {"EQ", "DASH_GT", "EQ_GT", "COLON", "PIPE", "PIPE_GT"}
Punctuation == {"COMMA", "SEMI"}
Arrows      == {"DASH_DASH_GT", "BANG_DASH_DASH_GT"}

BraceOpeners   == {"LBRACE", "PERCENT_LBRACE"}
ParenOpeners   == {"LPAREN", "DOLLAR_LPAREN"}
BracketOpeners == {"LBRACK", "PERCENT_LBRACK"}
Openers        == BraceOpeners \cup ParenOpeners \cup BracketOpeners
Closers        == {"RBRACE", "RPAREN", "RBRACK"}

\* Tokens that are an item by themselves, in every context.
Simple == {"identifier", "newline", "nil", "type_identifier",
           "quoted_identifier", "hole", "atom", "number", "char", "comment",
           "doc_comment", "operator"}

\* The tokens an item can begin with.
ItemStarts == Simple \cup Keywords \cup Containers \cup Booleans \cup Starters
              \cup Punctuation \cup Arrows \cup Openers
              \cup {"macro", "AT", "DASH_DASH", "DQUOTE"}

StringParts == {"DQUOTE2", "string_content", "escape_sequence", "POUND_LBRACE"}

Tokens == ItemStarts \cup Closers \cup StringParts
          \cup {"regex", "DOT", "module_name_token1", "$end"}

\* The nonterminals a source file is a sequence of.
ItemParts == {"_item", "_token", "brace_group", "paren_group", "bracket_group",
              "_regex_start", "module_declaration", "function_declaration",
              "type_declaration", "container_declaration", "macro_declaration",
              "decorator", "transition", "transition_arrow", "boolean",
              "string", "source_file_repeat1"}

(***************************************************************************)
(* Tokens the grammar treats alike, and the compiler's lexer too.          *)
(***************************************************************************)
Kind == [t \in Tokens |->
    CASE t \in (Keywords \ {"mod", "extern"})           -> "keyword"
      [] t \in Containers                               -> "container"
      [] t \in Starters \cup Punctuation                -> "starter"
      [] t \in Booleans \cup Arrows \cup
               (Simple \ {"identifier", "type_identifier",
                          "newline", "comment"})        -> "item"
      [] OTHER                                          -> t]

Kinds == {Kind[t] : t \in Tokens}
===============================================================================
