----------------------------- MODULE CompilerLexer -----------------------------
(***************************************************************************)
(* The parts of the compiler's lexer (Cure.Compiler.Lexer) that the        *)
(* editor's grammar has to agree with: its reserved words, the extent of a *)
(* comment, the braces and parentheses it counts, and what it remembers to *)
(* tell a regex from a division.  Tokens come as their kinds.              *)
(***************************************************************************)
EXTENDS EditorTokens

ReservedWords ==
    {"mod", "fn", "let", "type", "typealias", "opaque", "primitive", "indexed",
     "indices", "rec", "proto", "impl", "local", "use", "as", "interface",
     "implementation", "deriving", "match", "pickup", "if", "elif", "else",
     "then", "for", "do", "end", "in", "try", "catch", "finally", "throw",
     "return", "yield", "spawn", "send", "receive", "after", "when", "where",
     "and", "or", "not", "band", "bor", "bxor", "bsl", "bsr", "bnot", "true",
     "false", "nil", "extern", "proof", "quote", "unsafe"}

ContextualWords == {"proof", "have", "requires", "precedencegroup", "infix",
                    "prefix", "postfix"}

CompilerKeywords == ReservedWords \ ContextualWords

(***************************************************************************)
(* A comment up to its next character.  "text" and "margin" are inside a   *)
(* fence, "margin" where a line of it begins; "hash" and "hashes" count    *)
(* the "#" found there; "rest" is a line that ends the comment.            *)
(***************************************************************************)
NoComment == "none"
Ended     == "ended"

RestOfLine(c) == IF c = "\n" THEN Ended ELSE "rest"

RestOfFence(at, c) ==
    CASE c = "\n"                     -> "margin"
      [] c = " "                      -> IF at = "margin" THEN "margin" ELSE "text"
      [] c = "#" /\ at = "margin"     -> "hash"
      [] c = "#" /\ at = "hash"       -> "hashes"
      [] c = "#" /\ at = "hashes"     -> "rest"
      [] OTHER                        -> "text"

Comment(at, c) ==
    CASE at = NoComment -> IF c = "#" THEN "one" ELSE NoComment
      [] at = "one"     -> IF c = "#" THEN "two" ELSE RestOfLine(c)
      [] at = "two"     -> IF c = "#" THEN "text" ELSE RestOfLine(c)
      [] at = "rest"    -> RestOfLine(c)
      [] OTHER          -> RestOfFence(at, c)

(***************************************************************************)
(* The counters: a scope for the file and one for each interpolation that  *)
(* is open.  Braces are counted inside interpolations only.                *)
(***************************************************************************)
EmptyScope == [braces |-> 0, parens |-> 0]

Scope(scopes)        == scopes[Len(scopes)]
SlipOuter(scopes)    == SubSeq(scopes, 1, Len(scopes) - 2)
Outer(scopes)        == SubSeq(scopes, 1, Len(scopes) - 1)
Interpolated(scopes) == Len(scopes) > 1

\* The tokens whose brace is counted: the bare one, and the map's.
SlipBraceTokens == {"LBRACE"}
BraceTokens == {"LBRACE", "PERCENT_LBRACE"}

CountBrace(scopes, n) ==
    IF Interpolated(scopes) THEN [scopes EXCEPT ![Len(scopes)].braces = @ + n]
                            ELSE scopes

Count(scopes, kind) ==
    CASE kind = "POUND_LBRACE" -> Append(scopes, EmptyScope)
      [] kind \in BraceTokens  -> CountBrace(scopes, 1)
      [] kind = "RBRACE"       -> IF Interpolated(scopes) /\ Scope(scopes).braces = 0
                                  THEN Outer(scopes) ELSE CountBrace(scopes, -1)
      [] kind \in ParenOpeners -> [scopes EXCEPT ![Len(scopes)].parens = @ + 1]
      [] kind = "RPAREN"       -> [scopes EXCEPT ![Len(scopes)].parens =
                                                     IF @ > 0 THEN @ - 1 ELSE 0]
      [] OTHER                 -> scopes

(***************************************************************************)
(* The last token the lexer kept: "none" so far, one an expression begins  *)
(* after ("begins"), one such that is only the end of what the editor      *)
(* takes for one token ("cut"), or another.  It keeps no comment, no       *)
(* newline inside parentheses and none before the first token.             *)
(*                                                                         *)
(* It has no "-->" and "!-->": each ends in an arrow of its own.  Where    *)
(* the editor's operator is a run of characters, it may cut the run so     *)
(* that an "=", a "|" or an arrow comes last, or not; and "%" or "@" at    *)
(* the end of such a run are part of it, which leaves a bare bracket of    *)
(* "%{" and "%[" and nothing of "@".  What the run is made of decides:     *)
(* here each outcome is possible.                                          *)
(***************************************************************************)
Begins == {"starter", "LPAREN", "LBRACK", "LBRACE"}

\* Tokens whose first character may belong to a run of the compiler's.
RunEnders == {"AT", "PERCENT_LBRACE", "PERCENT_LBRACK"}

Left(token) ==
    CASE Kind[token] \in Begins -> {"begins"}
      [] token \in Arrows       -> {"cut"}
      [] token = "operator"     -> {"cut", "other"}
      [] token \in RunEnders    -> {"begins", "other"}
      [] OTHER                  -> {"other"}

\* What may be kept once the lexer is past a token of the editor's.
Kept(kept, scopes, token) ==
    LET skipped == \/ token = "comment"
                   \/ token = "newline" /\ (kept = "none" \/ Scope(scopes).parens > 0)
    IN  IF skipped THEN {kept} ELSE Left(token)

\* regex_literal_start?: each token inside an interpolation is scanned with no
\* token before it.
RegexLiteralStart(kept, scopes) ==
    Interpolated(scopes) \/ kept \in {"none", "begins", "cut"}
===============================================================================
