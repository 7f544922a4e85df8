-------------------------------- MODULE Nesting -------------------------------
(***************************************************************************)
(* What the grammar of the editor (grammar.js) accepts, token by token and *)
(* without a table: groups, strings and interpolations close in the order  *)
(* they opened; a regex stands only where an expression begins; a "."      *)
(* separates the parts of a name, and of nothing else; "--" needs an event.*)
(* Tokens the grammar treats alike are one kind.                           *)
(***************************************************************************)
EXTENDS EditorTokens

VARIABLES open,      \* what is open, innermost last
          context,   \* what the last token lets the next one be
          last,      \* the kind of the last token, taken or refused
          outcome    \* "reading", "accepted" or "rejected"

vars == <<open, context, last, outcome>>

Init == /\ open = <<>> /\ context = "plain"
        /\ last = "none" /\ outcome = "reading"

\* What a token opens: a group, a string, an interpolation.
Opens == [k \in Openers \cup {"DQUOTE", "POUND_LBRACE"} |->
             CASE k \in BraceOpeners   -> "brace"
               [] k \in ParenOpeners   -> "paren"
               [] k \in BracketOpeners -> "bracket"
               [] k = "DQUOTE"         -> "string"
               [] OTHER                -> "interpolation"]

\* What it closes, one of a set.
Closes == [k \in Closers \cup {"DQUOTE2"} |->
              CASE k = "RBRACE" -> {"brace", "interpolation"}
                [] k = "RPAREN" -> {"paren"}
                [] k = "RBRACK" -> {"bracket"}
                [] OTHER        -> {"string"}]

Inner  == IF open = <<>> THEN "file" ELSE open[Len(open)]

\* What a token lets the next one be, whatever came before it.
Following(k) ==
    CASE k \in Openers                          -> "start"
      [] k \in {"keyword", "extern", "starter"} -> "start"
      [] k = "mod"                              -> "module"
      [] k \in {"container", "macro"}           -> k
      [] k = "module_name_token1"               -> "name"
      [] k = "DOT"                              -> "dot"
      [] k = "AT"                               -> "decorator"
      [] k = "DASH_DASH"                        -> "event"
      [] OTHER                                  -> "plain"

\* module_name, decorator, macro_declaration and _regex_start: what the next
\* token may be depends on the last one or two.
NextContext(k) ==
    IF context \in {"module", "container", "macro"} /\ k = "type_identifier" THEN "name"
    ELSE IF <<context, k>> \in {<<"decorator", "extern">>, <<"macro", "container">>}
         THEN "plain" ELSE Following(k)

\* What may stand among the items of a file or a group.
AllowedItem(k) ==
    CASE k = "regex"    -> context \in {"start", "module"}
      [] k = "DOT"      -> context = "name"
      [] k \in Closers  -> Inner \in Closes[k]
      [] k = "$end"     -> open = <<>>
      [] OTHER          -> k \notin StringParts \cup {"module_name_token1"}

Allowed(k) ==
    IF Inner = "string" THEN k \in StringParts
    ELSE IF context = "dot" THEN k = "module_name_token1"
    ELSE IF context = "event" THEN k \in {"identifier", "type_identifier"}
    ELSE AllowedItem(k)

Take(k) == /\ outcome = "reading" /\ Allowed(k)
           /\ open' = CASE k \in DOMAIN Opens  -> Append(open, Opens[k])
                        [] k \in DOMAIN Closes -> SubSeq(open, 1, Len(open) - 1)
                        [] OTHER               -> open
           /\ context' = NextContext(k)
           /\ last' = k
           /\ outcome' = IF k = "$end" THEN "accepted" ELSE "reading"

\* A token out of place, or characters that are no token.
Refuse(k) == /\ outcome = "reading" /\ (k \in Kinds => ~Allowed(k))
             /\ outcome' = "rejected" /\ last' = k
             /\ UNCHANGED <<open, context>>

Next == \/ \E k \in Kinds : Take(k)
        \/ \E k \in Kinds \cup {"none"} : Refuse(k)

Spec == Init /\ [][Next]_vars
===============================================================================
