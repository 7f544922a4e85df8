----------------------------- MODULE EditorParser -----------------------------
(***************************************************************************)
(* The editor's parser of Cure: the scanner and the LR table generated     *)
(* into parser.c, driven as the tree-sitter runtime drives them.  The      *)
(* scanner is entered in the mode of the parse state, takes the longest    *)
(* token it can and gives back the characters it read beyond it; the       *)
(* parser reduces while the table says so, then shifts the token.  The     *)
(* runtime's recovery is not modelled: the parser stops at the first error.*)
(*                                                                         *)
(* A file is read character by character while the stack is not higher     *)
(* than ScanHeight; above it whole tokens are offered, any of Offered that *)
(* the mode can yield, so that groups can be nested deeply.                *)
(***************************************************************************)
EXTENDS EditorLexer, EditorTable, CompilerLexer

CONSTANTS Alphabet,     \* the characters a file is made of
          Offered,      \* the tokens offered above ScanHeight
          ScanHeight,   \* the highest stack on which characters are read
          MaxTail,      \* bound: characters read beyond the longest token
          MaxHeight     \* bound: the highest stack on which a token is read

ASSUME Bounds == /\ Alphabet \subseteq Char /\ Offered \subseteq Tokens
                 /\ ScanHeight \in Nat /\ MaxTail \in Nat /\ MaxHeight \in Nat

None == "none"

VARIABLES stack,    \* the parse states, innermost last
          token,    \* the token the parser looks at, or None
          scan,     \* the scanner, while token is None
          ahead,    \* the characters given back, the next one first
          outcome,  \* "reading", "accepted" or "rejected"
          context,  \* history: what Nesting remembers of the tokens
          last,     \* history: the kind of the last token shifted or refused
          scopes,   \* history: the compiler's counters after those tokens
          kept      \* history: and the token it would look back at

history == <<context, last, scopes, kept>>
vars    == <<stack, token, scan, ahead, outcome, history>>

Top == stack[Len(stack)]
Row == Table[Top]

\* The scanner before the first character of a token: its state, the token it
\* could end with, the characters read since, the word and the comment it is in.
Fresh(state) == [at |-> state, mark |-> None, tail |-> <<>>,
                 word |-> "", comment |-> NoComment]

(***************************************************************************)
(* What is open, as the parser knows it: the openers on the stack but the  *)
(* one whose closer is on top.                                             *)
(***************************************************************************)
OpenedBy == [s \in {3, 4, 5, 11, 54} |->
                CASE s = 3  -> "brace"         [] s = 4  -> "bracket"
                  [] s = 5  -> "paren"         [] s = 11 -> "interpolation"
                  [] s = 54 -> "string"]
Closing  == {30, 31, 39, 42, 44, 45, 47, 48, 50, 51, 52, 56, 57}

\* The groups that states open, outermost first.
Opened(states) ==
    LET upTo[n \in 0 .. Len(states)] ==
          IF n = 0 THEN <<>>
          ELSE IF states[n] \in DOMAIN OpenedBy
               THEN Append(upTo[n - 1], OpenedBy[states[n]]) ELSE upTo[n - 1]
    IN  upTo[Len(states)]

Open == LET all == Opened(stack)
        IN  IF Top \in Closing THEN SubSeq(all, 1, Len(all) - 1) ELSE all

Nest == INSTANCE Nesting WITH open <- Open

Init == /\ stack = <<1>>
        /\ token = None
        /\ scan = Fresh(LexMode[1])
        /\ ahead = <<>>
        /\ outcome = "reading"
        /\ context = "plain" /\ last = None
        /\ scopes = <<EmptyScope>> /\ kept = "none"

(***************************************************************************)
(* The scanner.                                                            *)
(***************************************************************************)
\* The words the two lexers give a meaning, and what they begin with.
Vocabulary == CompilerKeywords \cup Reserved
Beginnings == UNION {{SubSeq(w, 1, n) : n \in 1 .. Len(w)} : w \in Vocabulary}

Grown(word, c) == IF word \o c \in Beginnings THEN word \o c ELSE "~"

Recognises(word) ==
    LET n == Len(word)
    IN  /\ n \in DOMAIN Trie /\ word \in Recognised[n]
        /\ \A i \in 1 .. n : SubSeq(word, 1, i) \in Trie[i]

\* An identifier is a keyword when the trie takes all of it and the parse state
\* has a use for that keyword.
Captured(mark, word) ==
    IF mark = "identifier" /\ Recognises(word) /\ word \in DOMAIN Row THEN word ELSE mark

Scanning == outcome = "reading" /\ token = None /\ Len(stack) <= ScanHeight

Upcoming == IF ahead = <<>> THEN Alphabet \cup {Eof} ELSE {Head(ahead)}
Rest     == IF ahead = <<>> THEN <<>> ELSE Tail(ahead)

\* ADVANCE and SKIP, and the ACCEPT_TOKEN of the state they lead to.
Advance(c, to) ==
    LET accept == to \in DOMAIN Accepts
        skip   == Skips(scan.at, c)
    IN  /\ to # Stop
        /\ accept \/ skip \/ Len(scan.tail) < MaxTail
        /\ scan' = IF skip THEN Fresh(to) ELSE
              [at      |-> to,
               mark    |-> IF accept THEN Accepts[to] ELSE scan.mark,
               tail    |-> IF accept THEN <<>> ELSE Append(scan.tail, c),
               word    |-> IF accept /\ Accepts[to] = "identifier"
                           THEN Grown(scan.word, c) ELSE scan.word,
               comment |-> IF to \in 67 .. 75 THEN Comment(scan.comment, c)
                           ELSE scan.comment]
        /\ ahead' = Rest
        /\ UNCHANGED <<stack, token, outcome, history>>

\* END_STATE with a token: what was read beyond it is given back.
EndToken(unread) ==
    /\ scan.mark # None
    /\ token' = Captured(scan.mark, scan.word)
    /\ ahead' = scan.tail \o unread
    /\ scan' = Fresh(LexMode[Top])
    /\ UNCHANGED <<stack, outcome, history>>

\* END_STATE without one.
Garbled ==
    /\ scan.mark = None
    /\ outcome' = "rejected" /\ last' = None
    /\ UNCHANGED <<stack, token, scan, ahead, context, scopes, kept>>

\* A state without rules ends its token without looking at another character.
ScanStep ==
    /\ Scanning
    /\ \/ scan.at \in Complete /\ EndToken(ahead)
       \/ /\ scan.at \notin Complete
          /\ \E c \in Upcoming :
               \/ Advance(c, Step[scan.at][c])
               \/ Step[scan.at][c] = Stop /\ (EndToken(<<c>> \o Rest) \/ Garbled)

Reach(mode) ==
    LET grow[states \in SUBSET ScanStates] ==
          LET more == states \cup ({Step[s][c] : s \in states, c \in Char \cup {Eof}}
                                   \ {Stop})
          IN  IF more = states THEN states ELSE grow[more]
    IN  grow[{mode}]

\* The tokens a scan can end with, from each mode.
Yields == [mode \in {0, 1, 13, 17, 18, 19} |->
    LET found == {Accepts[s] : s \in Reach(mode) \cap DOMAIN Accepts}
    IN  IF "identifier" \in found
        THEN found \cup UNION {Recognised[n] : n \in DOMAIN Recognised} ELSE found]

\* A whole scan above ScanHeight: only which token it ends with.
Offer(t) ==
    /\ outcome = "reading" /\ token = None
    /\ ScanHeight < Len(stack) /\ Len(stack) <= MaxHeight
    /\ t \in Yields[LexMode[Top]]
    /\ t \in Reserved => t \in DOMAIN Row
    /\ token' = t
    /\ UNCHANGED <<stack, scan, ahead, outcome, history>>

(***************************************************************************)
(* The parser.                                                             *)
(***************************************************************************)
Doing(action) == /\ outcome = "reading" /\ token \in DOMAIN Row
                 /\ Row[token].do = action

ShiftToken ==
    /\ Doing("shift")
    /\ stack' = Append(stack, Row[token].to)
    /\ scan' = Fresh(LexMode[Row[token].to])
    /\ ahead' = IF Len(stack) < ScanHeight THEN ahead ELSE <<>>
    /\ token' = None
    /\ context' = Nest!NextContext(Kind[token])
    /\ last' = Kind[token]
    /\ scopes' = Count(scopes, Kind[token])
    /\ kept' \in Kept(kept, scopes, token)
    /\ UNCHANGED outcome

ReduceItem ==
    /\ Doing("reduce")
    /\ LET rest   == SubSeq(stack, 1, Len(stack) - Row[token].length)
           onward == Table[rest[Len(rest)]]
       IN  /\ Row[token].to \in DOMAIN onward
           /\ stack' = Append(rest, onward[Row[token].to].to)
    /\ UNCHANGED <<token, scan, ahead, outcome, history>>

AcceptFile ==
    /\ Doing("accept")
    /\ outcome' = "accepted"
    /\ context' = Nest!NextContext(Kind[token]) /\ last' = Kind[token]
    /\ UNCHANGED <<stack, token, scan, ahead, scopes, kept>>

\* The table has no action for the token.
RejectToken ==
    /\ outcome = "reading" /\ token # None
    /\ token \notin DOMAIN Row
    /\ outcome' = "rejected" /\ last' = Kind[token]
    /\ UNCHANGED <<stack, token, scan, ahead, context, scopes, kept>>

ReadToken  == ScanStep \/ \E t \in Offered : Offer(t)
ParseToken == ShiftToken \/ ReduceItem \/ AcceptFile \/ RejectToken

Next == ReadToken \/ ParseToken

\* The runtime parses to the end of the file in one call: a token it has read
\* it goes on to parse.
Spec == Init /\ [][Next]_vars /\ WF_vars(ParseToken)

(***************************************************************************)
(* Properties.                                                             *)
(***************************************************************************)
\* The parse states and tokens are those of the tables, the scanner is within
\* its bounds, and the compiler's counters never go below zero.
TypeOK ==
    /\ stack \in Seq(DOMAIN Table) /\ stack # <<>>
    /\ token \in Tokens \cup {None}
    /\ scan.at \in ScanStates /\ scan.mark \in Tokens \cup {None}
    /\ Len(scan.tail) <= MaxTail /\ Len(ahead) <= MaxTail + 1
    /\ outcome \in {"reading", "accepted", "rejected"}
    /\ last \in Kinds \cup {None}
    /\ scopes \in Seq([braces : Nat, parens : Nat]) /\ scopes # <<>>
    /\ kept \in {"none", "begins", "cut", "other"}

\* The table parses the grammar: token by token the parser takes and refuses
\* what Nesting does, and has the same groups open.
ParsesGrammar == Nest!Spec

\* Every token the parser looks at is shifted or refused: no row leaves it
\* without a step and no chain of reductions goes on for ever.
TokenConsumed == (token # None) ~> (token = None \/ outcome # "reading")

\* No row leaves a token without a step: an action for it is one the parser
\* takes, and where a reduction uncovers a state, that state goes on with what
\* was reduced.
TokenHasStep ==
    outcome = "reading" /\ token # None /\ token \in DOMAIN Row =>
        LET action == Row[token]
        IN  /\ action.do \in {"shift", "reduce", "accept"}
            /\ action.do = "reduce" =>
                  /\ action.length < Len(stack)
                  /\ action.to \in DOMAIN Table[stack[Len(stack) - action.length]]

\* At most how many reductions are left: what the state on top may lead through
\* before the stack gets shorter, and two for every state on the stack.
Rank(s) == CASE s \in {1, 18, 25, 26, 27, 28}  -> 3
             [] s \in {22, 23, 24, 37, 46, 49} -> 2
             [] s \in {6, 19}                  -> 1
             [] OTHER                          -> 0

ReductionsLeft == 2 * Len(stack) + Rank(Top)

\* No chain of reductions goes on for ever: a step that neither takes nor
\* refuses the token leaves fewer of them.
ReductionsEnd ==
    [][token # None /\ token' = token /\ outcome' = outcome =>
         ReductionsLeft' < ReductionsLeft /\ ReductionsLeft' \in Nat]_vars

\* A word the compiler reserves is that keyword for the editor, except where
\* the editor expects a transition's event, and every other word it takes for a
\* keyword is a name to both.
KeywordsAgree ==
    Scanning /\ scan.mark = "identifier" /\ scan.tail = <<>> =>
        LET symbol == Captured(scan.mark, scan.word)
        IN  /\ scan.word \in CompilerKeywords /\ context # "event"
                  => symbol = scan.word
            /\ symbol \in Keywords \cup Booleans \cup {"nil"}
                  => symbol \in CompilerKeywords
            /\ symbol \in Containers \cup {"macro"}
                  => symbol \notin CompilerKeywords

\* A comment goes on, in the editor, over exactly the characters it goes on
\* over in the compiler: a line, or a fence to the end of its closing line.
CommentsAgree ==
    Scanning /\ scan.comment # NoComment =>
        \A c \in Char : (Step[scan.at][c] = Stop) <=> (Comment(scan.comment, c) = Ended)

\* Where the compiler's counters would be if it counted what the editor has
\* open.
CountGroup(tally, frame) ==
    CASE frame = "interpolation" -> Append(tally, EmptyScope)
      [] frame = "brace"         -> CountBrace(tally, 1)
      [] frame = "paren"         -> [tally EXCEPT ![Len(tally)].parens = @ + 1]
      [] OTHER                   -> tally

Tally(frames) ==
    LET upTo[n \in 0 .. Len(frames)] ==
          IF n = 0 THEN <<EmptyScope>> ELSE CountGroup(upTo[n - 1], frames[n])
    IN  upTo[Len(frames)]

\* The compiler counts braces and parentheses, the editor matches groups: as
\* long as both take the same tokens and every token fits, the brace that ends
\* an interpolation for the one ends it for the other, and a newline is inside
\* parentheses for both.  (A lexing error in an interpolation ends it early in
\* the compiler, and so may a "/", a regex to the compiler there.)
InterpolationsAgree == outcome = "reading" => scopes = Tally(Open)

\* A "/" where both begin a token is read as a regex by both or by neither, but:
\*   - after a keyword, or one of %{ %[ $(, only the editor may read one;
\*   - inside an interpolation, before the first token, after a bare "@", after
\*     newlines and comments that the compiler does not keep, and after an arrow
\*     of a transition or an operator that the compiler cuts so that "->", "=>",
\*     "=", "|" or "|>" is left, only the compiler does.
SlashesAgree ==
    LET inBody   == LexMode[Top] \in {17, 18, 19} /\ context # "event"
        editor   == LexMode[Top] = 18
        compiler == RegexLiteralStart(kept, scopes)
    IN  outcome = "reading" /\ token = None /\ inBody =>
          /\ editor /\ ~compiler
               => last \in {"keyword", "extern", "mod", "fn", "PERCENT_LBRACE",
                            "PERCENT_LBRACK", "DOLLAR_LPAREN"}
          /\ compiler /\ ~editor
               => \/ Interpolated(scopes) \/ kept \in {"none", "cut"} \/ last = "AT"
                  \/ last = "comment"
                  \/ last = "newline" /\ Scope(scopes).parens > 0
===============================================================================
