---------------------------- MODULE MCEditorParser -----------------------------
EXTENDS EditorParser

\* The letters of the reserved words, and a character of every other class the
\* rules tell apart but a few that only number prefixes use.
MCAlphabet == (Span("a", "y") \ {"j"})
              \cup {"\n", " ", "!", "\"", "#", "$", "%", "'", "(", ")", "+", ",",
                    "-", ".", "/", "0", "9", ":", ";", "=", ">", "?", "@", "A",
                    "[", "\\", "]", "backquote", "{", "|", "}"}

\* What opens, fills and closes groups, strings and interpolations.
MCOffered == {"number", "newline", "COMMA", "regex", "LBRACE", "PERCENT_LBRACE",
              "RBRACE", "LPAREN", "RPAREN", "RBRACK", "DQUOTE", "DQUOTE2",
              "string_content", "POUND_LBRACE", "DOT", "module_name_token1", "identifier", "$end"}
===============================================================================
