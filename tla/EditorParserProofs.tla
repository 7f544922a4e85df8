---- MODULE EditorParserProofs ----
EXTENDS EditorParser, TLAPS, WellFoundedInduction


(***************************************************************************)
(* Induction over the naturals, with a set for the predicate.              *)
(***************************************************************************)
LessThan == {p \in Nat \X Nat : p[1] < p[2]}

\* The naturals do not descend for ever.
LEMMA LessThanWellFounded == IsWellFoundedOn(LessThan, Nat)
BY NatLessThanWellFounded DEF OpToRel, LessThan

\* A nonempty set of naturals has a least element.
LEMMA LeastNatural ==
    ASSUME NEW T \in SUBSET Nat, T # {}
    PROVE  \E m \in T : \A n \in T : m <= n
<1>1. \E m \in T : \A n \in T : ~ (<<n, m>> \in LessThan)
  BY LessThanWellFounded, WFMin
<1>2. \A m, n \in Nat : n < m => <<n, m>> \in LessThan
  <2> SUFFICES ASSUME NEW m \in Nat, NEW n \in Nat, n < m PROVE <<n, m>> \in LessThan
    OBVIOUS
  <2>1. <<n, m>> \in Nat \X Nat /\ <<n, m>>[1] < <<n, m>>[2]
    OBVIOUS
  <2> QED BY <2>1, Zenon DEF LessThan
<1>3. PICK m \in T : \A n \in T : <<n, m>> \notin LessThan
  BY <1>1, Zenon
<1>4. \A n \in T : ~ (n < m)
  BY <1>2, <1>3, T \subseteq Nat
<1> QED BY <1>4

\* A set with 0 in it and with every successor of its naturals has them all.
LEMMA NaturalsBySets ==
    ASSUME NEW T, 0 \in T, \A n \in Nat : n \in T => n + 1 \in T
    PROVE  \A n \in Nat : n \in T
<1> SUFFICES ASSUME Nat \ T # {} PROVE FALSE
  OBVIOUS
<1>1. PICK m \in Nat \ T : \A n \in Nat \ T : m <= n
  BY Nat \ T \in SUBSET Nat, LeastNatural
<1>2. m # 0 /\ m - 1 \in Nat /\ m - 1 \in T
  BY <1>1
<1> QED BY <1>1, <1>2

(***************************************************************************)
(* What Opened and Tally compute, element by element.                      *)
(***************************************************************************)
OpensNext(frames, s) ==
    IF s \in DOMAIN OpenedBy THEN Append(frames, OpenedBy[s]) ELSE frames

IsOpening(f, states) ==
    f = [n \in 0 .. Len(states) |->
           IF n = 0 THEN <<>>
           ELSE IF states[n] \in DOMAIN OpenedBy
                THEN Append(f[n - 1], OpenedBy[states[n]]) ELSE f[n - 1]]

\* There is a function that Opened recurses with, on any stack.
LEMMA OpeningExists ==
    ASSUME NEW states, Len(states) \in Nat
    PROVE  \E f : IsOpening(f, states)
<1> DEFINE Upto(f, m) == f = [n \in 0 .. m |-> IF n = 0 THEN <<>> ELSE OpensNext(f[n - 1], states[n])]
           T == {m \in Nat : \E f : Upto(f, m)}
<1>1. 0 \in T
  <2>1. Upto([n \in 0 .. 0 |-> <<>>], 0)
    OBVIOUS
  <2> QED BY <2>1
<1>2. ASSUME NEW m \in Nat, m \in T PROVE m + 1 \in T
  <2>1. PICK f : Upto(f, m)
    BY <1>2
  <2> DEFINE g == [n \in 0 .. m + 1 |-> IF n = m + 1 THEN OpensNext(f[m], states[n]) ELSE f[n]]
  <2>2. \A n \in 0 .. m : f[n] = IF n = 0 THEN <<>> ELSE OpensNext(f[n - 1], states[n])
    <3> HIDE DEF g
    <3> QED BY <2>1
  <2>3. \A n \in 0 .. m + 1 : g[n] = IF n = 0 THEN <<>> ELSE OpensNext(g[n - 1], states[n])
    <3> TAKE n \in 0 .. m + 1
    <3>1. CASE n = m + 1
      <4>1. g[n] = OpensNext(f[m], states[n]) /\ g[n - 1] = f[m] /\ n # 0
        BY <3>1
      <4> QED BY <4>1
    <3>2. CASE n \in 0 .. m
      <4>1. g[n] = f[n] /\ (n # 0 => g[n - 1] = f[n - 1])
        BY <3>2
      <4> QED BY <4>1, <2>2, <3>2
    <3> QED BY <3>1, <3>2
  <2>4. Upto(g, m + 1)
    <3>1. g = [n \in 0 .. m + 1 |-> g[n]]
      OBVIOUS
    <3> HIDE DEF g
    <3> QED BY <2>3, <3>1
  <2>5. \E f_1 : Upto(f_1, m + 1)
    <3> HIDE DEF g, Upto
    <3> QED BY <2>4
  <2> QED BY <2>5
<1>3. Len(states) \in T
  <2> HIDE DEF T
  <2> QED BY <1>1, <1>2, NaturalsBySets
<1>4. PICK f : Upto(f, Len(states))
  BY <1>3
<1> QED BY <1>4, Zenon DEF IsOpening, OpensNext

\* Opened is the last value of one.
LEMMA OpeningIs ==
    ASSUME NEW states, Len(states) \in Nat
    PROVE  \E f : IsOpening(f, states) /\ Opened(states) = f[Len(states)]
<1> DEFINE F == CHOOSE f : IsOpening(f, states)
<1>1. IsOpening(F, states)
  BY OpeningExists
<1>2. Opened(states) = F[Len(states)]
  BY DEF Opened, IsOpening
<1> QED BY <1>1, <1>2

\* Each of its values is the previous one, with the group the state opens.
LEMMA OpeningSteps ==
    ASSUME NEW states, NEW f, IsOpening(f, states)
    PROVE  \A n \in 0 .. Len(states) :
              f[n] = IF n = 0 THEN <<>> ELSE OpensNext(f[n - 1], states[n])
BY DEF IsOpening, OpensNext

\* It depends on the states up to there only.
LEMMA OpeningAgrees ==
    ASSUME NEW a, NEW b, NEW f, NEW g, Len(a) \in Nat, Len(b) \in Nat, Len(a) <= Len(b),
           IsOpening(f, a), IsOpening(g, b), \A i \in 1 .. Len(a) : a[i] = b[i]
    PROVE  \A n \in 0 .. Len(a) : f[n] = g[n]
<1> DEFINE T == {n \in Nat : n <= Len(a) => f[n] = g[n]}
<1>1. \A n \in 0 .. Len(a) : f[n] = IF n = 0 THEN <<>> ELSE OpensNext(f[n - 1], a[n])
  BY OpeningSteps
<1>2. \A n \in 0 .. Len(b) : g[n] = IF n = 0 THEN <<>> ELSE OpensNext(g[n - 1], b[n])
  BY OpeningSteps
<1>3. 0 \in T
  BY <1>1, <1>2
<1>4. ASSUME NEW n \in Nat, n \in T PROVE n + 1 \in T
  <2> SUFFICES ASSUME n + 1 <= Len(a) PROVE f[n + 1] = g[n + 1]
    OBVIOUS
  <2>1. f[n + 1] = OpensNext(f[n], a[n + 1]) /\ g[n + 1] = OpensNext(g[n], b[n + 1])
    BY <1>1, <1>2
  <2>2. f[n] = g[n] /\ a[n + 1] = b[n + 1]
    BY <1>4
  <2> QED BY <2>1, <2>2
<1>5. \A n \in Nat : n \in T
  <2> HIDE DEF T
  <2> QED BY <1>3, <1>4, NaturalsBySets
<1> QED BY <1>5

\* No state opens no group.
LEMMA OpenedEmpty == Opened(<<>>) = <<>>
<1>1. PICK f : IsOpening(f, <<>>) /\ Opened(<<>>) = f[0]
  BY OpeningIs
<1> QED BY <1>1 DEF IsOpening

\* One more state opens at most one more group.
LEMMA OpenedAppend ==
    ASSUME NEW S, NEW states \in Seq(S), NEW s \in S
    PROVE  Opened(Append(states, s)) = OpensNext(Opened(states), s)
<1> DEFINE longer == Append(states, s)
           n == Len(states)
<1>1. n \in Nat /\ Len(longer) = n + 1 /\ longer[n + 1] = s
      /\ \A i \in 1 .. n : longer[i] = states[i]
  OBVIOUS
<1>2. PICK f : IsOpening(f, states) /\ Opened(states) = f[n]
  BY OpeningIs
<1> HIDE DEF longer
<1>3. PICK g : IsOpening(g, longer) /\ Opened(longer) = g[n + 1]
  BY <1>1, OpeningIs
<1>4. f[n] = g[n]
  BY <1>1, <1>2, <1>3, OpeningAgrees
<1>5. g[n + 1] = OpensNext(g[n], longer[n + 1])
  BY <1>1, <1>3, OpeningSteps
<1> QED BY <1>1, <1>2, <1>3, <1>4, <1>5 DEF longer
IsTallying(f, frames) ==
    f = [n \in 0 .. Len(frames) |->
           IF n = 0 THEN <<EmptyScope>> ELSE CountGroup(f[n - 1], frames[n])]

\* There is a function that Tally recurses with, on any groups.
LEMMA TallyingExists ==
    ASSUME NEW frames, Len(frames) \in Nat
    PROVE  \E f : IsTallying(f, frames)
<1> DEFINE Upto(f, m) == f = [n \in 0 .. m |-> IF n = 0 THEN <<EmptyScope>> ELSE CountGroup(f[n - 1], frames[n])]
           T == {m \in Nat : \E f : Upto(f, m)}
<1>1. 0 \in T
  <2>1. Upto([n \in 0 .. 0 |-> <<EmptyScope>>], 0)
    OBVIOUS
  <2> QED BY <2>1
<1>2. ASSUME NEW m \in Nat, m \in T PROVE m + 1 \in T
  <2>1. PICK f : Upto(f, m)
    BY <1>2
  <2> DEFINE g == [n \in 0 .. m + 1 |-> IF n = m + 1 THEN CountGroup(f[m], frames[n]) ELSE f[n]]
  <2>2. \A n \in 0 .. m : f[n] = IF n = 0 THEN <<EmptyScope>> ELSE CountGroup(f[n - 1], frames[n])
    <3> HIDE DEF g
    <3> QED BY <2>1
  <2>3. \A n \in 0 .. m + 1 : g[n] = IF n = 0 THEN <<EmptyScope>> ELSE CountGroup(g[n - 1], frames[n])
    <3> TAKE n \in 0 .. m + 1
    <3>1. CASE n = m + 1
      <4>1. g[n] = CountGroup(f[m], frames[n]) /\ g[n - 1] = f[m] /\ n # 0
        BY <3>1
      <4> QED BY <4>1
    <3>2. CASE n \in 0 .. m
      <4>1. g[n] = f[n] /\ (n # 0 => g[n - 1] = f[n - 1])
        BY <3>2
      <4> QED BY <4>1, <2>2, <3>2
    <3> QED BY <3>1, <3>2
  <2>4. Upto(g, m + 1)
    <3>1. g = [n \in 0 .. m + 1 |-> g[n]]
      OBVIOUS
    <3> HIDE DEF g
    <3> QED BY <2>3, <3>1
  <2>5. \E f_1 : Upto(f_1, m + 1)
    <3> HIDE DEF g, Upto
    <3> QED BY <2>4
  <2> QED BY <2>5
<1>3. Len(frames) \in T
  <2> HIDE DEF T
  <2> QED BY <1>1, <1>2, NaturalsBySets
<1>4. PICK f : Upto(f, Len(frames))
  BY <1>3
<1> QED BY <1>4 DEF IsTallying

\* Tally is the last value of one.
LEMMA TallyingIs ==
    ASSUME NEW frames, Len(frames) \in Nat
    PROVE  \E f : IsTallying(f, frames) /\ Tally(frames) = f[Len(frames)]
<1> DEFINE F == CHOOSE f : IsTallying(f, frames)
<1>1. IsTallying(F, frames)
  BY TallyingExists
<1>2. Tally(frames) = F[Len(frames)]
  BY DEF Tally, IsTallying
<1> QED BY <1>1, <1>2

\* Each of its values counts one more group.
LEMMA TallyingSteps ==
    ASSUME NEW frames, NEW f, IsTallying(f, frames)
    PROVE  \A n \in 0 .. Len(frames) :
              f[n] = IF n = 0 THEN <<EmptyScope>> ELSE CountGroup(f[n - 1], frames[n])
BY DEF IsTallying

\* It depends on the frames up to there only.
LEMMA TallyingAgrees ==
    ASSUME NEW a, NEW b, NEW f, NEW g, Len(a) \in Nat, Len(b) \in Nat, Len(a) <= Len(b),
           IsTallying(f, a), IsTallying(g, b), \A i \in 1 .. Len(a) : a[i] = b[i]
    PROVE  \A n \in 0 .. Len(a) : f[n] = g[n]
<1> DEFINE T == {n \in Nat : n <= Len(a) => f[n] = g[n]}
<1>1. \A n \in 0 .. Len(a) : f[n] = IF n = 0 THEN <<EmptyScope>> ELSE CountGroup(f[n - 1], a[n])
  BY TallyingSteps
<1>2. \A n \in 0 .. Len(b) : g[n] = IF n = 0 THEN <<EmptyScope>> ELSE CountGroup(g[n - 1], b[n])
  BY TallyingSteps
<1>3. 0 \in T
  BY <1>1, <1>2
<1>4. ASSUME NEW n \in Nat, n \in T PROVE n + 1 \in T
  <2> SUFFICES ASSUME n + 1 <= Len(a) PROVE f[n + 1] = g[n + 1]
    OBVIOUS
  <2>1. f[n + 1] = CountGroup(f[n], a[n + 1]) /\ g[n + 1] = CountGroup(g[n], b[n + 1])
    BY <1>1, <1>2
  <2>2. f[n] = g[n] /\ a[n + 1] = b[n + 1]
    BY <1>4
  <2> QED BY <2>1, <2>2
<1>5. \A n \in Nat : n \in T
  <2> HIDE DEF T
  <2> QED BY <1>3, <1>4, NaturalsBySets
<1> QED BY <1>5

\* No group counts nothing.
LEMMA TallyEmpty == Tally(<<>>) = <<EmptyScope>>
<1>1. PICK f : IsTallying(f, <<>>) /\ Tally(<<>>) = f[0]
  BY TallyingIs
<1> QED BY <1>1 DEF IsTallying

\* One more group is counted on top of the others.
LEMMA TallyAppend ==
    ASSUME NEW S, NEW frames \in Seq(S), NEW s \in S
    PROVE  Tally(Append(frames, s)) = CountGroup(Tally(frames), s)
<1> DEFINE longer == Append(frames, s)
           n == Len(frames)
<1>1. n \in Nat /\ Len(longer) = n + 1 /\ longer[n + 1] = s
      /\ \A i \in 1 .. n : longer[i] = frames[i]
  OBVIOUS
<1>2. PICK f : IsTallying(f, frames) /\ Tally(frames) = f[n]
  BY TallyingIs
<1> HIDE DEF longer
<1>3. PICK g : IsTallying(g, longer) /\ Tally(longer) = g[n + 1]
  BY <1>1, TallyingIs
<1>4. f[n] = g[n]
  BY <1>1, <1>2, <1>3, TallyingAgrees
<1>5. g[n + 1] = CountGroup(g[n], longer[n + 1])
  BY <1>1, <1>3, TallyingSteps
<1> QED BY <1>1, <1>2, <1>3, <1>4, <1>5 DEF longer

(***************************************************************************)
(* Tokens and their kinds.                                                 *)
(***************************************************************************)
\* The kinds that stand for several tokens.
Grouped == {"keyword", "container", "starter", "item"}

ItemTokens == Booleans \cup Arrows
              \cup (Simple \ {"identifier", "type_identifier", "newline", "comment"})

\* The kind of a token, case by case.
LEMMA KindOf ==
    \A t \in Tokens :
       Kind[t] = IF t \in Keywords \ {"mod", "extern"} THEN "keyword"
                 ELSE IF t \in Containers THEN "container"
                 ELSE IF t \in Starters \cup Punctuation THEN "starter"
                 ELSE IF t \in ItemTokens THEN "item" ELSE t
BY DEF Kind, Keywords, TypeKinds, PlainKeywords, Containers, Starters, Punctuation,
       ItemTokens, Simple, Booleans, Arrows

\* A kind of several tokens is none of them, and no token is "none".
LEMMA GroupedAreNoTokens == Grouped \cap Tokens = {} /\ "none" \notin Tokens
BY DEF Grouped, Tokens, ItemStarts, Simple, Keywords, TypeKinds, PlainKeywords, Containers,
       Booleans, Starters, Punctuation, Arrows, Openers, BraceOpeners, ParenOpeners,
       BracketOpeners, Closers, StringParts

\* The tokens that are a kind by themselves.
Alone == {"mod", "extern", "macro", "identifier", "type_identifier", "newline", "comment",
          "AT", "DASH_DASH", "DQUOTE", "regex", "DOT", "module_name_token1", "$end"}
         \cup Openers \cup Closers \cup StringParts

\* Which tokens have a kind of their own.
LEMMA AloneKind ==
    \A t \in Tokens : /\ \A k \in Alone : Kind[t] = k <=> t = k
                      /\ t \in Alone => Kind[t] = t
                      /\ t \notin Alone => Kind[t] \in Grouped
<1>1. \A t \in Tokens : t \in Alone \/ t \in Keywords \ {"mod", "extern"} \/ t \in Containers
                        \/ t \in Starters \cup Punctuation \/ t \in ItemTokens
  BY DEF Alone, Tokens, ItemStarts, Simple, Keywords, TypeKinds, PlainKeywords, Containers,
         Booleans, Starters, Punctuation, Arrows, Openers, BraceOpeners, ParenOpeners,
         BracketOpeners, Closers, StringParts, ItemTokens
<1>2. \A t \in Alone : t \notin Keywords \ {"mod", "extern"} /\ t \notin Containers
                        /\ t \notin Starters \cup Punctuation /\ t \notin ItemTokens
                        /\ t \notin Grouped
  BY DEF Alone, Simple, Keywords, TypeKinds, PlainKeywords, Containers,
         Booleans, Starters, Punctuation, Arrows, Openers, BraceOpeners, ParenOpeners,
         BracketOpeners, Closers, StringParts, ItemTokens, Grouped
<1>3. "keyword" \in Grouped /\ "container" \in Grouped /\ "starter" \in Grouped
      /\ "item" \in Grouped
  BY DEF Grouped
<1> QED BY <1>1, <1>2, <1>3, KindOf

(***************************************************************************)
(* The table, entry by entry.                                              *)
(***************************************************************************)
\* The states an item may begin in, and those of them with an item already.
Places == {1, 3, 4, 5, 6, 7, 8, 9, 10, 11, 12, 13, 14, 15, 16, 17}
Filled == {6, 8, 9, 10, 13, 14, 16, 17}

\* Where an item leads from a place.
Onward(s) == CASE s = 1 -> 6 [] s = 3 -> 9 [] s = 4 -> 10 [] s = 5 -> 8 [] s = 7 -> 14
               [] s = 11 -> 16 [] s = 12 -> 17 [] s = 15 -> 13 [] OTHER -> 2

\* The head of an item of more tokens than one, or of another nonterminal.
Heads(k, to) ==
    \/ k \in BraceOpeners /\ to = 3
    \/ k \in BracketOpeners /\ to = 4
    \/ k \in ParenOpeners /\ to = 5
    \/ k = "starter" /\ to \in {22, 28}
    \/ k \in {"keyword", "extern"} /\ to \in {25, 26, 27}
    \/ k = "container" /\ to = 23
    \/ k = "item" /\ to \in {37, 46}
    \/ k = "mod" /\ to = 18
    \/ k = "macro" /\ to = 24
    \/ k = "AT" /\ to = 49
    \/ k = "DASH_DASH" /\ to = 58
    \/ k = "DQUOTE" /\ to = 54

\* The end of a group or of a string, and the regex at its beginning.
Ending(s, k, to) ==
    \/ k = "RBRACE" /\ s = 3 /\ to = 45
    \/ k = "RBRACE" /\ s \in {7, 9} /\ to = 42
    \/ k = "RBRACE" /\ s = 14 /\ to = 48
    \/ k = "RBRACE" /\ s = 11 /\ to = 56
    \/ k = "RBRACE" /\ s = 16 /\ to = 57
    \/ k = "RBRACK" /\ s = 4 /\ to = 31
    \/ k = "RBRACK" /\ s \in {10, 12} /\ to = 30
    \/ k = "RBRACK" /\ s = 17 /\ to = 52
    \/ k = "RPAREN" /\ s = 5 /\ to = 47
    \/ k = "RPAREN" /\ s \in {8, 15} /\ to = 44
    \/ k = "RPAREN" /\ s = 13 /\ to = 51
    \/ k = "DQUOTE2" /\ s = 53 /\ to = 50
    \/ k = "DQUOTE2" /\ s = 54 /\ to = 39

Regex(s, k, to) ==
    k = "regex" /\ <<s, to>> \in {<<3, 7>>, <<4, 12>>, <<5, 15>>, <<22, 34>>}

\* The second token of a declaration, a name, a decorator, a transition, and
\* the parts of a string.
Continues(s, k, to) ==
    \/ s \in {18, 23, 24} /\ k = "type_identifier" /\ to = 19
    \/ s \in {19, 20} /\ k = "DOT" /\ to = 59
    \/ s = 59 /\ k = "module_name_token1" /\ to = 29
    \/ s = 24 /\ k \in {"container", "identifier"} /\ to = 43
    \/ s = 25 /\ k = "type_identifier" /\ to = 32
    \/ s = 27 /\ k \in {"identifier", "item"} /\ to = 36
    \/ s = 49 /\ k = "identifier" /\ to = 40
    \/ s = 49 /\ k = "extern" /\ to = 33
    \/ s = 58 /\ k \in {"identifier", "type_identifier"} /\ to = 38
    \/ s \in {53, 54} /\ k = "POUND_LBRACE" /\ to = 11
    \/ s = 53 /\ k \in {"string_content", "escape_sequence"} /\ to = 55
    \/ s = 54 /\ k \in {"string_content", "escape_sequence"} /\ to = 53

Shifts(s, k, to) ==
    \/ s \in Places /\ Heads(k, to)
    \/ s \in Places /\ k \in {"item", "identifier", "type_identifier", "newline", "comment"}
       /\ to = Onward(s)
    \/ Ending(s, k, to) \/ Regex(s, k, to) \/ Continues(s, k, to)

\* What a state that reduces reduces to, and how many states that takes.
Reduces(s, symbol, length) ==
    \/ s \in {1, 6} /\ symbol = "source_file" /\ length = (IF s = 1 THEN 0 ELSE 1)
    \/ s = 2 /\ symbol = "source_file_repeat1" /\ length = 2
    \/ s \in {18, 25, 26, 27} /\ symbol = "keyword" /\ length = 1
    \/ s = 28 /\ symbol = "punctuation" /\ length = 1
    \/ s \in {19, 20} /\ symbol = "module_name" /\ length = (IF s = 19 THEN 1 ELSE 2)
    \/ s \in {21, 29} /\ symbol = "module_name_repeat1" /\ length = 2
    \/ s = 22 /\ symbol = "_regex_start" /\ length = 1
    \/ s \in {23, 24, 49, 37, 46} /\ symbol \in ItemParts /\ length = 1
    \/ s \in {32, 33, 34, 35, 36, 38, 40, 41, 43, 31, 39, 45, 47}
       /\ symbol \in ItemParts /\ length = 2
    \/ s \in {30, 42, 44, 50} /\ symbol \in ItemParts /\ length = 3
    \/ s \in {48, 51, 52} /\ symbol \in ItemParts /\ length = 4
    \/ s = 55 /\ symbol = "string_repeat1" /\ length = 2
    \/ s \in {56, 57} /\ symbol = "interpolation" /\ length = (IF s = 56 THEN 2 ELSE 3)

\* On which tokens: on what may follow an item, but not on what goes on with
\* the declaration, and on a regex or a "." where these may come next.
ReducesOn(s, t) ==
    CASE s \in {1, 6}        -> t = "$end"
      [] s \in {55, 56, 57}  -> t \in StringParts
      [] s = 18              -> t \in Follow \cup {"regex"} /\ t # "type_identifier"
      [] s \in {25, 26, 27, 28} -> t \in Follow \cup {"regex"}
      [] s \in {21, 29}      -> t \in Follow \cup {"DOT"}
      [] s = 23              -> t \in Follow \ {"type_identifier"}
      [] s = 24              -> t \in Follow \ ({"type_identifier"} \cup Containers)
      [] s = 49              -> t \in Follow \ {"extern"}
      [] OTHER               -> t \in Follow

Goes(s, symbol, to) ==
    \/ s \in Places /\ symbol \in ItemParts /\ to = Onward(s)
    \/ s \in Places /\ symbol \in {"keyword", "punctuation"} /\ to = 22
    \/ s = 2 /\ symbol \in ItemParts \cup {"keyword", "punctuation"}
    \/ s = 18 /\ symbol = "module_name" /\ to = 35
    \/ s = 23 /\ symbol = "module_name" /\ to = 41
    \/ s = 24 /\ symbol = "module_name" /\ to = 43
    \/ s = 19 /\ symbol = "module_name_repeat1" /\ to = 20
    \/ s \in {20, 21} /\ symbol = "module_name_repeat1" /\ to = 21
    \/ s \in {53, 55} /\ symbol \in {"interpolation", "string_repeat1"} /\ to = 55
    \/ s = 54 /\ symbol \in {"interpolation", "string_repeat1"} /\ to = 53
    \/ s = 1 /\ symbol = "source_file" /\ to = 60

Entry(s, t, a) ==
    \/ a.do = "shift" /\ t \in Tokens /\ Shifts(s, Kind[t], a.to)
    \/ a.do = "reduce" /\ t \in Tokens /\ ReducesOn(s, t) /\ Reduces(s, a.to, a.length)
    \/ a.do = "goto" /\ Goes(s, t, a.to)
    \/ a.do = "accept" /\ s = 60 /\ t = "$end"
    \/ a.do = "recover" /\ s = 0

RowFits(s, row) == \A t \in DOMAIN row : Entry(s, t, row[t])

\* Each is one value, on a set.
LEMMA EachDomain ==
    ASSUME NEW S, NEW a
    PROVE  DOMAIN Each(S, a) = S /\ \A t \in S : Each(S, a)[t] = a
BY DEF Each

\* One is one value, at one place.
LEMMA OneDomain ==
    ASSUME NEW t, NEW a
    PROVE  DOMAIN One(t, a) = {t} /\ One(t, a)[t] = a
BY DEF One

\* A merge has the entries of both.
LEMMA MergeDomain ==
    ASSUME NEW f, NEW g
    PROVE  DOMAIN (f ++ g) = DOMAIN f \cup DOMAIN g
BY DEF ++

\* A row of one action fits where the action does.
LEMMA EachFits ==
    ASSUME NEW s, NEW S, NEW a, \A t \in S : Entry(s, t, a)
    PROVE  RowFits(s, Each(S, a))
BY EachDomain DEF RowFits

\* A row of one entry fits where the entry does.
LEMMA OneFits ==
    ASSUME NEW s, NEW t, NEW a, Entry(s, t, a)
    PROVE  RowFits(s, One(t, a))
BY DEF RowFits, One

\* A merge of rows that fit fits.
LEMMA MergeFits ==
    ASSUME NEW s, NEW f, NEW g, RowFits(s, f), RowFits(s, g)
    PROVE  RowFits(s, f ++ g)
BY DEF RowFits, ++

\* The same where the second part repeats a token of the first.
LEMMA MergeFitsBut ==
    ASSUME NEW s, NEW f, NEW g, RowFits(s, f), \A t \in DOMAIN g \ DOMAIN f : Entry(s, t, g[t])
    PROVE  RowFits(s, f ++ g)
BY DEF RowFits, ++

\* What may follow an item are tokens.
LEMMA FollowTokens == Follow \subseteq Tokens
BY DEF Follow, Tokens

\* What Item has at any place.
LEMMA ItemFits ==
    ASSUME NEW s \in Places
    PROVE  RowFits(s, Item(Onward(s)))
<1>1. ItemStarts \subseteq Tokens
  BY DEF Tokens
<1>2. ASSUME NEW t \in ItemParts PROVE Entry(s, t, Goto(Onward(s)))
  BY <1>2 DEF Entry, Goto, Goes
<1>3. ASSUME NEW t \in {"keyword", "punctuation"} PROVE Entry(s, t, Goto(22))
  BY <1>3 DEF Entry, Goto, Goes
<1>4. ASSUME NEW t \in Simple PROVE Entry(s, t, Shift(Onward(s)))
  <2>1. t \in Tokens /\ Kind[t] \in {"item", "identifier", "type_identifier", "newline", "comment"}
    <3>1. t \in ItemTokens \/ t \in {"identifier", "type_identifier", "newline", "comment"}
      BY <1>4 DEF ItemTokens
    <3>2. t \in Tokens
      BY <1>1, <1>4 DEF ItemStarts
    <3>3. t \notin Keywords /\ t \notin Containers /\ t \notin Starters \cup Punctuation
      BY <1>4 DEF Simple, Keywords, TypeKinds, PlainKeywords, Containers, Starters, Punctuation
    <3> QED BY <3>1, <3>2, <3>3, KindOf
  <2> QED BY <2>1 DEF Entry, Shift, Shifts
<1> DEFINE Starting(t, to) == t \in Tokens /\ Heads(Kind[t], to) => Entry(s, t, Shift(to))
<1>5. \A t, to : Starting(t, to)
  BY DEF Entry, Shift, Shifts
<1>6. ASSUME NEW t \in BraceOpeners PROVE Entry(s, t, Shift(3))
  BY <1>1, <1>5, AloneKind DEF ItemStarts, Openers, Alone, Heads
<1>7. ASSUME NEW t \in BracketOpeners PROVE Entry(s, t, Shift(4))
  BY <1>1, <1>5, AloneKind DEF ItemStarts, Openers, Alone, Heads
<1>8. ASSUME NEW t \in ParenOpeners PROVE Entry(s, t, Shift(5))
  BY <1>1, <1>5, AloneKind DEF ItemStarts, Openers, Alone, Heads
<1>9. ASSUME NEW t \in Starters PROVE Entry(s, t, Shift(22))
  <2>1. t \in Tokens /\ t \notin Keywords /\ t \notin Containers
    BY <1>1 DEF ItemStarts, Starters, Keywords, TypeKinds, PlainKeywords, Containers
  <2> QED BY <1>5, <2>1, KindOf DEF Heads
<1>10. ASSUME NEW t \in Punctuation PROVE Entry(s, t, Shift(28))
  <2>1. t \in Tokens /\ t \notin Keywords /\ t \notin Containers
    BY <1>1 DEF ItemStarts, Punctuation, Keywords, TypeKinds, PlainKeywords, Containers
  <2> QED BY <1>5, <2>1, KindOf DEF Heads
<1>11. ASSUME NEW t \in TypeKinds PROVE Entry(s, t, Shift(25))
  <2>1. t \in Tokens /\ t \in Keywords \ {"mod", "extern"}
    BY <1>1 DEF ItemStarts, Keywords, TypeKinds
  <2> QED BY <1>5, <2>1, KindOf DEF Heads
<1>12. ASSUME NEW t \in PlainKeywords PROVE Entry(s, t, Shift(26))
  <2>1. t \in Tokens /\ (t = "extern" \/ t \in Keywords \ {"mod", "extern"})
    BY <1>1 DEF ItemStarts, Keywords, PlainKeywords
  <2>2. Kind[t] \in {"keyword", "extern"}
    BY <2>1, KindOf, AloneKind DEF Alone
  <2> QED BY <1>5, <2>1, <2>2 DEF Heads
<1>13. ASSUME NEW t \in Containers PROVE Entry(s, t, Shift(23))
  <2>1. t \in Tokens /\ t \notin Keywords
    BY <1>1 DEF ItemStarts, Keywords, TypeKinds, PlainKeywords, Containers
  <2> QED BY <1>5, <2>1, KindOf DEF Heads
<1>14. ASSUME NEW t \in Arrows \cup Booleans PROVE t \in Tokens /\ Kind[t] = "item"
  <2>1. t \in Tokens /\ t \notin Keywords /\ t \notin Containers
        /\ t \notin Starters \cup Punctuation /\ t \in ItemTokens
    BY <1>1 DEF ItemStarts, Keywords, TypeKinds, PlainKeywords, Containers, Arrows, Booleans,
                Starters, Punctuation, ItemTokens
  <2> QED BY <2>1, KindOf
<1>15. (\A t \in Arrows : Entry(s, t, Shift(37))) /\ (\A t \in Booleans : Entry(s, t, Shift(46)))
  BY <1>5, <1>14 DEF Heads
<1>16. Entry(s, "mod", Shift(18)) /\ Entry(s, "macro", Shift(24)) /\ Entry(s, "AT", Shift(49))
       /\ Entry(s, "DASH_DASH", Shift(58)) /\ Entry(s, "DQUOTE", Shift(54))
  <2>1. {"mod", "macro", "AT", "DASH_DASH", "DQUOTE"} \subseteq Tokens \cap Alone
    BY <1>1 DEF ItemStarts, Keywords, Alone
  <2> QED BY <1>5, <2>1, AloneKind DEF Heads
<1>17. Entry(s, "fn", Shift(27))
  <2>1. "fn" \in Tokens /\ "fn" \in Keywords \ {"mod", "extern"}
    BY <1>1 DEF ItemStarts, Keywords
  <2> QED BY <1>5, <2>1, KindOf DEF Heads
<1> HIDE DEF Starting
<1> SUFFICES ASSUME NEW t \in DOMAIN Item(Onward(s)) PROVE Entry(s, t, Item(Onward(s))[t])
  BY DEF RowFits
<1> QED BY <1>2, <1>3, <1>4, <1>6, <1>7, <1>8, <1>9, <1>10, <1>11, <1>12, <1>13, <1>15, <1>16, <1>17
        DEF Item, ItemStarts, Keywords, Openers

\* The tokens a state has an action for.
Handles(s, t) ==
    \/ s \in Places /\ t \in ItemStarts
    \/ s \in {3, 7, 9, 11, 14, 16} /\ t = "RBRACE"
    \/ s \in {4, 10, 12, 17} /\ t = "RBRACK"
    \/ s \in {5, 8, 13, 15} /\ t = "RPAREN"
    \/ s \in {3, 4, 5, 18, 22, 25, 26, 27, 28} /\ t = "regex"
    \/ s \in {1, 6, 60} /\ t = "$end"
    \/ s \in {19, 20, 21, 29} /\ t = "DOT"
    \/ s = 58 /\ t \in {"identifier", "type_identifier"}
    \/ s = 59 /\ t = "module_name_token1"
    \/ s \in 53 .. 57 /\ t \in StringParts
    \/ s \in {2} \cup 18 .. 52 /\ t \in Follow

RowCovers(s, row) == \A t : Handles(s, t) => t \in DOMAIN row

RowIs(s, row) == RowFits(s, row) /\ RowCovers(s, row)

\* What is a kind by itself is a token.
LEMMA AloneTokens == Alone \subseteq Tokens
BY DEF Alone, Tokens, ItemStarts, Simple, Keywords, PlainKeywords

\* A row that reduces on all that may follow an item fits.
LEMMA EndsFits ==
    ASSUME NEW s, NEW symbol, NEW length, Reduces(s, symbol, length),
           \A t \in Follow : ReducesOn(s, t)
    PROVE  RowFits(s, Ends(symbol, length))
<1>1. \A t \in Follow : Entry(s, t, Reduce(symbol, length))
  BY FollowTokens DEF Entry, Reduce
<1> QED BY <1>1, EachFits DEF Ends

\* Such a row reduces on nothing else.
LEMMA EndsDomain ==
    \A symbol, length : /\ DOMAIN Ends(symbol, length) = Follow
                        /\ \A t \in Follow : Ends(symbol, length)[t] = Reduce(symbol, length)
BY EachDomain DEF Ends

\* Wherever an item may begin every token that begins one has an action.
LEMMA ItemCovers == \A to : ItemStarts \subseteq DOMAIN Item(to)
BY DEF Item

\* The second tokens, and the other single entries.
LEMMA OneShifts ==
    ASSUME NEW s, NEW t \in Alone, NEW to, Shifts(s, t, to)
    PROVE  RowFits(s, One(t, Shift(to)))
<1>1. Entry(s, t, Shift(to))
  BY AloneKind, AloneTokens DEF Entry, Shift
<1> QED BY <1>1, OneFits

\* A single goto.
LEMMA OneGoes ==
    ASSUME NEW s, NEW symbol, NEW to, Goes(s, symbol, to)
    PROVE  RowFits(s, One(symbol, Goto(to)))
<1>1. Entry(s, symbol, Goto(to))
  BY DEF Entry, Goto
<1> QED BY <1>1, OneFits

\* A single reduction.
LEMMA OneReduces ==
    ASSUME NEW s, NEW t \in Tokens, NEW symbol, NEW length, ReducesOn(s, t),
           Reduces(s, symbol, length)
    PROVE  RowFits(s, One(t, Reduce(symbol, length)))
<1>1. Entry(s, t, Reduce(symbol, length))
  BY DEF Entry, Reduce
<1> QED BY <1>1, OneFits

\* All tokens may follow an item, but those that go on with what is before.
LEMMA FollowIs ==
    \A t \in Tokens : t \in Follow <=>
        t \notin StringParts \cup {"regex", "DOT", "module_name_token1"}
BY DEF Follow, Tokens, ItemStarts, Simple, Keywords, TypeKinds, PlainKeywords, Containers,
       Booleans, Starters, Punctuation, Arrows, Openers, BraceOpeners, ParenOpeners,
       BracketOpeners, Closers, StringParts

\* The rows of the states an item may begin in.
LEMMA Row1Is == RowIs(1, Row1)
<1>1. 1 \in Places /\ Onward(1) = 6
  BY DEF Places, Onward
<1>2. RowFits(1, Item(6))
  BY <1>1, ItemFits
<1>3. RowFits(1, One("$end", Reduce("source_file", 0)))
  BY OneReduces, AloneTokens DEF Alone, ReducesOn, Reduces
<1>4. RowFits(1, One("source_file", Goto(60)))
  BY OneGoes DEF Goes
<1>5. RowFits(1, Row1)
  BY <1>2, <1>3, <1>4, MergeFits DEF Row1
<1>6. RowCovers(1, Row1)
  BY DEF Row1, RowCovers, Handles, ++, Item, One, Places
<1> QED BY <1>5, <1>6 DEF RowIs

LEMMA Row3Is == RowIs(3, Row3)
<1>1. 3 \in Places /\ Onward(3) = 9
  BY DEF Places, Onward
<1>2. RowFits(3, Item(9))
  BY <1>1, ItemFits
<1>3. RowFits(3, One("RBRACE", Shift(45)))
  BY OneShifts, AloneTokens DEF Alone, Closers, Shifts, Ending, Regex
<1>4. RowFits(3, One("regex", Shift(7)))
  BY OneShifts, AloneTokens DEF Alone, Closers, Shifts, Ending, Regex
<1>5. RowFits(3, Row3)
  BY <1>2, <1>3, <1>4, MergeFits DEF Row3
<1>6. RowCovers(3, Row3)
  BY DEF Row3, RowCovers, Handles, ++, Item, One, Places
<1> QED BY <1>5, <1>6 DEF RowIs

LEMMA Row4Is == RowIs(4, Row4)
<1>1. 4 \in Places /\ Onward(4) = 10
  BY DEF Places, Onward
<1>2. RowFits(4, Item(10))
  BY <1>1, ItemFits
<1>3. RowFits(4, One("RBRACK", Shift(31)))
  BY OneShifts, AloneTokens DEF Alone, Closers, Shifts, Ending, Regex
<1>4. RowFits(4, One("regex", Shift(12)))
  BY OneShifts, AloneTokens DEF Alone, Closers, Shifts, Ending, Regex
<1>5. RowFits(4, Row4)
  BY <1>2, <1>3, <1>4, MergeFits DEF Row4
<1>6. RowCovers(4, Row4)
  BY DEF Row4, RowCovers, Handles, ++, Item, One, Places
<1> QED BY <1>5, <1>6 DEF RowIs

LEMMA Row5Is == RowIs(5, Row5)
<1>1. 5 \in Places /\ Onward(5) = 8
  BY DEF Places, Onward
<1>2. RowFits(5, Item(8))
  BY <1>1, ItemFits
<1>3. RowFits(5, One("RPAREN", Shift(47)))
  BY OneShifts, AloneTokens DEF Alone, Closers, Shifts, Ending, Regex
<1>4. RowFits(5, One("regex", Shift(15)))
  BY OneShifts, AloneTokens DEF Alone, Closers, Shifts, Ending, Regex
<1>5. RowFits(5, Row5)
  BY <1>2, <1>3, <1>4, MergeFits DEF Row5
<1>6. RowCovers(5, Row5)
  BY DEF Row5, RowCovers, Handles, ++, Item, One, Places
<1> QED BY <1>5, <1>6 DEF RowIs

LEMMA Row6Is == RowIs(6, Row6)
<1>1. 6 \in Places /\ Onward(6) = 2
  BY DEF Places, Onward
<1>2. RowFits(6, Item(2))
  BY <1>1, ItemFits
<1>3. RowFits(6, One("$end", Reduce("source_file", 1)))
  BY OneReduces, AloneTokens DEF Alone, ReducesOn, Reduces
<1>4. RowFits(6, Row6)
  BY <1>2, <1>3, MergeFits DEF Row6
<1>5. RowCovers(6, Row6)
  BY DEF Row6, RowCovers, Handles, ++, Item, One, Places
<1> QED BY <1>4, <1>5 DEF RowIs

LEMMA Row7Is == RowIs(7, Row7)
<1>1. 7 \in Places /\ Onward(7) = 14
  BY DEF Places, Onward
<1>2. RowFits(7, Item(14))
  BY <1>1, ItemFits
<1>3. RowFits(7, One("RBRACE", Shift(42)))
  BY OneShifts, AloneTokens DEF Alone, Closers, Shifts, Ending, Regex
<1>4. RowFits(7, Row7)
  BY <1>2, <1>3, MergeFits DEF Row7
<1>5. RowCovers(7, Row7)
  BY DEF Row7, RowCovers, Handles, ++, Item, One, Places
<1> QED BY <1>4, <1>5 DEF RowIs

LEMMA Row8Is == RowIs(8, Row8)
<1>1. 8 \in Places /\ Onward(8) = 2
  BY DEF Places, Onward
<1>2. RowFits(8, Item(2))
  BY <1>1, ItemFits
<1>3. RowFits(8, One("RPAREN", Shift(44)))
  BY OneShifts, AloneTokens DEF Alone, Closers, Shifts, Ending, Regex
<1>4. RowFits(8, Row8)
  BY <1>2, <1>3, MergeFits DEF Row8
<1>5. RowCovers(8, Row8)
  BY DEF Row8, RowCovers, Handles, ++, Item, One, Places
<1> QED BY <1>4, <1>5 DEF RowIs

LEMMA Row9Is == RowIs(9, Row9)
<1>1. 9 \in Places /\ Onward(9) = 2
  BY DEF Places, Onward
<1>2. RowFits(9, Item(2))
  BY <1>1, ItemFits
<1>3. RowFits(9, One("RBRACE", Shift(42)))
  BY OneShifts, AloneTokens DEF Alone, Closers, Shifts, Ending, Regex
<1>4. RowFits(9, Row9)
  BY <1>2, <1>3, MergeFits DEF Row9
<1>5. RowCovers(9, Row9)
  BY DEF Row9, RowCovers, Handles, ++, Item, One, Places
<1> QED BY <1>4, <1>5 DEF RowIs

LEMMA Row10Is == RowIs(10, Row10)
<1>1. 10 \in Places /\ Onward(10) = 2
  BY DEF Places, Onward
<1>2. RowFits(10, Item(2))
  BY <1>1, ItemFits
<1>3. RowFits(10, One("RBRACK", Shift(30)))
  BY OneShifts, AloneTokens DEF Alone, Closers, Shifts, Ending, Regex
<1>4. RowFits(10, Row10)
  BY <1>2, <1>3, MergeFits DEF Row10
<1>5. RowCovers(10, Row10)
  BY DEF Row10, RowCovers, Handles, ++, Item, One, Places
<1> QED BY <1>4, <1>5 DEF RowIs

LEMMA Row11Is == RowIs(11, Row11)
<1>1. 11 \in Places /\ Onward(11) = 16
  BY DEF Places, Onward
<1>2. RowFits(11, Item(16))
  BY <1>1, ItemFits
<1>3. RowFits(11, One("RBRACE", Shift(56)))
  BY OneShifts, AloneTokens DEF Alone, Closers, Shifts, Ending, Regex
<1>4. RowFits(11, Row11)
  BY <1>2, <1>3, MergeFits DEF Row11
<1>5. RowCovers(11, Row11)
  BY DEF Row11, RowCovers, Handles, ++, Item, One, Places
<1> QED BY <1>4, <1>5 DEF RowIs

LEMMA Row12Is == RowIs(12, Row12)
<1>1. 12 \in Places /\ Onward(12) = 17
  BY DEF Places, Onward
<1>2. RowFits(12, Item(17))
  BY <1>1, ItemFits
<1>3. RowFits(12, One("RBRACK", Shift(30)))
  BY OneShifts, AloneTokens DEF Alone, Closers, Shifts, Ending, Regex
<1>4. RowFits(12, Row12)
  BY <1>2, <1>3, MergeFits DEF Row12
<1>5. RowCovers(12, Row12)
  BY DEF Row12, RowCovers, Handles, ++, Item, One, Places
<1> QED BY <1>4, <1>5 DEF RowIs

LEMMA Row13Is == RowIs(13, Row13)
<1>1. 13 \in Places /\ Onward(13) = 2
  BY DEF Places, Onward
<1>2. RowFits(13, Item(2))
  BY <1>1, ItemFits
<1>3. RowFits(13, One("RPAREN", Shift(51)))
  BY OneShifts, AloneTokens DEF Alone, Closers, Shifts, Ending, Regex
<1>4. RowFits(13, Row13)
  BY <1>2, <1>3, MergeFits DEF Row13
<1>5. RowCovers(13, Row13)
  BY DEF Row13, RowCovers, Handles, ++, Item, One, Places
<1> QED BY <1>4, <1>5 DEF RowIs

LEMMA Row14Is == RowIs(14, Row14)
<1>1. 14 \in Places /\ Onward(14) = 2
  BY DEF Places, Onward
<1>2. RowFits(14, Item(2))
  BY <1>1, ItemFits
<1>3. RowFits(14, One("RBRACE", Shift(48)))
  BY OneShifts, AloneTokens DEF Alone, Closers, Shifts, Ending, Regex
<1>4. RowFits(14, Row14)
  BY <1>2, <1>3, MergeFits DEF Row14
<1>5. RowCovers(14, Row14)
  BY DEF Row14, RowCovers, Handles, ++, Item, One, Places
<1> QED BY <1>4, <1>5 DEF RowIs

LEMMA Row15Is == RowIs(15, Row15)
<1>1. 15 \in Places /\ Onward(15) = 13
  BY DEF Places, Onward
<1>2. RowFits(15, Item(13))
  BY <1>1, ItemFits
<1>3. RowFits(15, One("RPAREN", Shift(44)))
  BY OneShifts, AloneTokens DEF Alone, Closers, Shifts, Ending, Regex
<1>4. RowFits(15, Row15)
  BY <1>2, <1>3, MergeFits DEF Row15
<1>5. RowCovers(15, Row15)
  BY DEF Row15, RowCovers, Handles, ++, Item, One, Places
<1> QED BY <1>4, <1>5 DEF RowIs

LEMMA Row16Is == RowIs(16, Row16)
<1>1. 16 \in Places /\ Onward(16) = 2
  BY DEF Places, Onward
<1>2. RowFits(16, Item(2))
  BY <1>1, ItemFits
<1>3. RowFits(16, One("RBRACE", Shift(57)))
  BY OneShifts, AloneTokens DEF Alone, Closers, Shifts, Ending, Regex
<1>4. RowFits(16, Row16)
  BY <1>2, <1>3, MergeFits DEF Row16
<1>5. RowCovers(16, Row16)
  BY DEF Row16, RowCovers, Handles, ++, Item, One, Places
<1> QED BY <1>4, <1>5 DEF RowIs

LEMMA Row17Is == RowIs(17, Row17)
<1>1. 17 \in Places /\ Onward(17) = 2
  BY DEF Places, Onward
<1>2. RowFits(17, Item(2))
  BY <1>1, ItemFits
<1>3. RowFits(17, One("RBRACK", Shift(52)))
  BY OneShifts, AloneTokens DEF Alone, Closers, Shifts, Ending, Regex
<1>4. RowFits(17, Row17)
  BY <1>2, <1>3, MergeFits DEF Row17
<1>5. RowCovers(17, Row17)
  BY DEF Row17, RowCovers, Handles, ++, Item, One, Places
<1> QED BY <1>4, <1>5 DEF RowIs

\* The row of recovery has no action but to recover.
LEMMA Row0Is == RowIs(0, Row0)
<1>1. \A t \in Tokens : Entry(0, t, Recover)
  BY DEF Entry, Recover
<1>2. RowFits(0, Row0)
  BY <1>1, EachFits DEF Row0
<1> QED BY <1>2 DEF RowIs, RowCovers, Handles, Places

\* The rows that reduce on all that may follow an item.
LEMMA Row2Is == RowIs(2, Row2)
<1>1. RowFits(2, Ends("source_file_repeat1", 2))
  BY EndsFits DEF Reduces, ReducesOn
<1>2. (\A t \in ItemParts : Entry(2, t, Goto(2)))
      /\ \A t \in {"keyword", "punctuation"} : Entry(2, t, Goto(22))
  BY DEF Entry, Goto, Goes
<1>3. RowFits(2, Row2)
  BY <1>1, <1>2, EachFits, MergeFits DEF Row2
<1> QED BY <1>3 DEF Row2, RowIs, RowCovers, Handles, Places, ++, Ends, Each

LEMMA Row30Is == RowIs(30, Row30)
BY EndsFits, EndsDomain
   DEF Row30, RowIs, RowCovers, Handles, Places, Reduces, ReducesOn, ItemParts

LEMMA Row31Is == RowIs(31, Row31)
BY EndsFits, EndsDomain
   DEF Row31, RowIs, RowCovers, Handles, Places, Reduces, ReducesOn, ItemParts

LEMMA Row32Is == RowIs(32, Row32)
BY EndsFits, EndsDomain
   DEF Row32, RowIs, RowCovers, Handles, Places, Reduces, ReducesOn, ItemParts

LEMMA Row33Is == RowIs(33, Row33)
BY EndsFits, EndsDomain
   DEF Row33, RowIs, RowCovers, Handles, Places, Reduces, ReducesOn, ItemParts

LEMMA Row34Is == RowIs(34, Row34)
BY EndsFits, EndsDomain
   DEF Row34, RowIs, RowCovers, Handles, Places, Reduces, ReducesOn, ItemParts

LEMMA Row35Is == RowIs(35, Row35)
BY EndsFits, EndsDomain
   DEF Row35, RowIs, RowCovers, Handles, Places, Reduces, ReducesOn, ItemParts

LEMMA Row36Is == RowIs(36, Row36)
BY EndsFits, EndsDomain
   DEF Row36, RowIs, RowCovers, Handles, Places, Reduces, ReducesOn, ItemParts

LEMMA Row37Is == RowIs(37, Row37)
BY EndsFits, EndsDomain
   DEF Row37, RowIs, RowCovers, Handles, Places, Reduces, ReducesOn, ItemParts

LEMMA Row38Is == RowIs(38, Row38)
BY EndsFits, EndsDomain
   DEF Row38, RowIs, RowCovers, Handles, Places, Reduces, ReducesOn, ItemParts

LEMMA Row39Is == RowIs(39, Row39)
BY EndsFits, EndsDomain
   DEF Row39, RowIs, RowCovers, Handles, Places, Reduces, ReducesOn, ItemParts

LEMMA Row40Is == RowIs(40, Row40)
BY EndsFits, EndsDomain
   DEF Row40, RowIs, RowCovers, Handles, Places, Reduces, ReducesOn, ItemParts

LEMMA Row41Is == RowIs(41, Row41)
BY EndsFits, EndsDomain
   DEF Row41, RowIs, RowCovers, Handles, Places, Reduces, ReducesOn, ItemParts

LEMMA Row42Is == RowIs(42, Row42)
BY EndsFits, EndsDomain
   DEF Row42, RowIs, RowCovers, Handles, Places, Reduces, ReducesOn, ItemParts

LEMMA Row43Is == RowIs(43, Row43)
BY EndsFits, EndsDomain
   DEF Row43, RowIs, RowCovers, Handles, Places, Reduces, ReducesOn, ItemParts

LEMMA Row44Is == RowIs(44, Row44)
BY EndsFits, EndsDomain
   DEF Row44, RowIs, RowCovers, Handles, Places, Reduces, ReducesOn, ItemParts

LEMMA Row45Is == RowIs(45, Row45)
BY EndsFits, EndsDomain
   DEF Row45, RowIs, RowCovers, Handles, Places, Reduces, ReducesOn, ItemParts

LEMMA Row46Is == RowIs(46, Row46)
BY EndsFits, EndsDomain
   DEF Row46, RowIs, RowCovers, Handles, Places, Reduces, ReducesOn, ItemParts

LEMMA Row47Is == RowIs(47, Row47)
BY EndsFits, EndsDomain
   DEF Row47, RowIs, RowCovers, Handles, Places, Reduces, ReducesOn, ItemParts

LEMMA Row48Is == RowIs(48, Row48)
BY EndsFits, EndsDomain
   DEF Row48, RowIs, RowCovers, Handles, Places, Reduces, ReducesOn, ItemParts

LEMMA Row50Is == RowIs(50, Row50)
BY EndsFits, EndsDomain
   DEF Row50, RowIs, RowCovers, Handles, Places, Reduces, ReducesOn, ItemParts

LEMMA Row51Is == RowIs(51, Row51)
BY EndsFits, EndsDomain
   DEF Row51, RowIs, RowCovers, Handles, Places, Reduces, ReducesOn, ItemParts

LEMMA Row52Is == RowIs(52, Row52)
BY EndsFits, EndsDomain
   DEF Row52, RowIs, RowCovers, Handles, Places, Reduces, ReducesOn, ItemParts

\* A keyword reduces on a regex too.
LEMMA KeywordIs ==
    /\ DOMAIN Keyword = Follow \cup {"regex"}
    /\ \A t \in DOMAIN Keyword : Keyword[t] = Reduce("keyword", 1) /\ t \in Tokens
BY FollowTokens, AloneTokens DEF Keyword, Alone, ++, Ends, Each, One

\* The row of a keyword fits in the three states it is the row of.
LEMMA KeywordFits ==
    ASSUME NEW s \in {25, 26, 27}
    PROVE  RowFits(s, Keyword)
<1>1. \A t \in DOMAIN Keyword : Entry(s, t, Reduce("keyword", 1))
  BY KeywordIs DEF Entry, Reduce, Reduces, ReducesOn
<1> QED BY <1>1, KeywordIs DEF RowFits

\* The rows of the first tokens of an item of several.
LEMMA Row18Is == RowIs(18, Row18)
<1>1. RowFits(18, Named)
  BY OneShifts, AloneTokens DEF Alone, StringParts, Shifts, Ending, Regex, Continues, Named
<1>2. \A t \in DOMAIN Keyword \ DOMAIN Named : Entry(18, t, Keyword[t])
  BY KeywordIs DEF One, Named, Entry, Reduce, Reduces, ReducesOn
<1>3. RowFits(18, One("module_name", Goto(35)))
  BY OneGoes DEF Goes
<1>4. RowFits(18, Row18)
  BY <1>1, <1>2, <1>3, MergeFits, MergeFitsBut DEF Row18
<1> QED BY <1>4
    DEF Row18, RowIs, RowCovers, Handles, Places, ++, One, Each, Ends, Keyword, Named

LEMMA Row19Is == RowIs(19, Row19)
<1>1. RowFits(19, Ends("module_name", 1))
  BY EndsFits DEF Reduces, ReducesOn
<1>2. RowFits(19, One("DOT", Shift(59)))
  BY OneShifts, AloneTokens DEF Alone, StringParts, Shifts, Ending, Regex, Continues
<1>3. RowFits(19, One("module_name_repeat1", Goto(20)))
  BY OneGoes DEF Goes
<1>4. RowFits(19, Row19)
  BY <1>1, <1>2, <1>3, MergeFits DEF Row19
<1> QED BY <1>4
    DEF Row19, RowIs, RowCovers, Handles, Places, ++, One, Each, Ends, Keyword, Named

LEMMA Row20Is == RowIs(20, Row20)
<1>1. RowFits(20, Ends("module_name", 2))
  BY EndsFits DEF Reduces, ReducesOn
<1>2. RowFits(20, One("DOT", Shift(59)))
  BY OneShifts, AloneTokens DEF Alone, StringParts, Shifts, Ending, Regex, Continues
<1>3. RowFits(20, One("module_name_repeat1", Goto(21)))
  BY OneGoes DEF Goes
<1>4. RowFits(20, Row20)
  BY <1>1, <1>2, <1>3, MergeFits DEF Row20
<1> QED BY <1>4
    DEF Row20, RowIs, RowCovers, Handles, Places, ++, One, Each, Ends, Keyword, Named

LEMMA Row21Is == RowIs(21, Row21)
<1>1. RowFits(21, Ends("module_name_repeat1", 2))
  BY EndsFits DEF Reduces, ReducesOn
<1>2. RowFits(21, One("DOT", Reduce("module_name_repeat1", 2)))
  BY OneReduces, AloneTokens DEF Alone, Reduces, ReducesOn
<1>3. RowFits(21, One("module_name_repeat1", Goto(21)))
  BY OneGoes DEF Goes
<1>4. RowFits(21, Row21)
  BY <1>1, <1>2, <1>3, MergeFits DEF Row21
<1> QED BY <1>4
    DEF Row21, RowIs, RowCovers, Handles, Places, ++, One, Each, Ends, Keyword, Named

LEMMA Row22Is == RowIs(22, Row22)
<1>1. RowFits(22, Ends("_regex_start", 1))
  BY EndsFits DEF Reduces, ReducesOn
<1>2. RowFits(22, One("regex", Shift(34)))
  BY OneShifts, AloneTokens DEF Alone, StringParts, Shifts, Ending, Regex, Continues
<1>3. RowFits(22, Row22)
  BY <1>1, <1>2, MergeFits DEF Row22
<1> QED BY <1>3
    DEF Row22, RowIs, RowCovers, Handles, Places, ++, One, Each, Ends, Keyword, Named

LEMMA Row23Is == RowIs(23, Row23)
<1>1. RowFits(23, Named)
  BY OneShifts, AloneTokens DEF Alone, StringParts, Shifts, Ending, Regex, Continues, Named
<1>2. \A t \in DOMAIN Ends("_token", 1) \ DOMAIN Named : Entry(23, t, Ends("_token", 1)[t])
  BY FollowTokens DEF Ends, Each, One, Named, Entry, Reduce, Reduces, ReducesOn, ItemParts
<1>3. RowFits(23, One("module_name", Goto(41)))
  BY OneGoes DEF Goes
<1>4. RowFits(23, Row23)
  BY <1>1, <1>2, <1>3, MergeFits, MergeFitsBut DEF Row23
<1> QED BY <1>4
    DEF Row23, RowIs, RowCovers, Handles, Places, ++, One, Each, Ends, Keyword, Named

LEMMA Row24Is == RowIs(24, Row24)
<1>1. RowFits(24, Named)
  BY OneShifts, AloneTokens DEF Alone, StringParts, Shifts, Ending, Regex, Continues, Named
<1>2. \A t \in Containers \cup {"identifier"} : t \in Tokens /\ Kind[t] \in {"container", "identifier"}
  BY KindOf DEF Tokens, ItemStarts, Simple, Keywords, TypeKinds, PlainKeywords, Containers, Starters, Punctuation, ItemTokens, Booleans, Arrows
<1>3. RowFits(24, Each(Containers \cup {"identifier"}, Shift(43)))
  BY <1>2, EachFits DEF Entry, Shift, Shifts, Continues
<1>4. RowFits(24, Named ++ Each(Containers \cup {"identifier"}, Shift(43)))
  BY <1>1, <1>3, MergeFits
<1>5. \A t \in DOMAIN Ends("_token", 1) \ DOMAIN (Named ++ Each(Containers \cup {"identifier"}, Shift(43))) :
        Entry(24, t, Ends("_token", 1)[t])
  BY FollowTokens DEF Ends, Each, One, ++, Named, Entry, Reduce, Reduces, ReducesOn, ItemParts
<1>6. RowFits(24, One("module_name", Goto(43)))
  BY OneGoes DEF Goes
<1>7. Follow \subseteq DOMAIN Row24
  <2>1. Follow = DOMAIN Ends("_token", 1)
    BY EndsDomain
  <2>2. \A f, g : DOMAIN g \subseteq DOMAIN (f ++ g) /\ DOMAIN f \subseteq DOMAIN (f ++ g)
    BY DEF ++
  <2> QED BY <2>1, <2>2 DEF Row24
<1>8. RowFits(24, Row24)
  BY <1>4, <1>5, <1>6, MergeFits, MergeFitsBut DEF Row24
<1> QED BY <1>7, <1>8 DEF RowIs, RowCovers, Handles, Places

LEMMA Row25Is == RowIs(25, Row25)
<1>1. RowFits(25, One("type_identifier", Shift(32)))
  BY OneShifts, AloneTokens DEF Alone, StringParts, Shifts, Ending, Regex, Continues
<1>2. RowFits(25, Keyword)
  BY KeywordFits
<1>3. RowFits(25, Row25)
  BY <1>1, <1>2, MergeFits DEF Row25
<1> QED BY <1>3
    DEF Row25, RowIs, RowCovers, Handles, Places, ++, One, Each, Ends, Keyword, Named

LEMMA Row26Is == RowIs(26, Row26)
<1>1. RowFits(26, Row26)
  BY KeywordFits DEF Row26
<1> QED BY <1>1
    DEF Row26, RowIs, RowCovers, Handles, Places, ++, One, Each, Ends, Keyword, Named

LEMMA Row27Is == RowIs(27, Row27)
<1>1. \A t \in {"identifier", "quoted_identifier"} : t \in Tokens /\ Kind[t] \in {"identifier", "item"}
  BY KindOf DEF Tokens, ItemStarts, Simple, Keywords, TypeKinds, PlainKeywords, Containers, Starters, Punctuation, ItemTokens, Booleans, Arrows
<1>2. RowFits(27, Each({"identifier", "quoted_identifier"}, Shift(36)))
  BY <1>1, EachFits DEF Entry, Shift, Shifts, Continues
<1>3. RowFits(27, Row27)
  BY <1>2, KeywordFits, MergeFits DEF Row27
<1> QED BY <1>3
    DEF Row27, RowIs, RowCovers, Handles, Places, ++, One, Each, Ends, Keyword, Named

LEMMA Row28Is == RowIs(28, Row28)
<1>1. RowFits(28, Ends("punctuation", 1))
  BY EndsFits DEF Reduces, ReducesOn
<1>2. RowFits(28, One("regex", Reduce("punctuation", 1)))
  BY OneReduces, AloneTokens DEF Alone, Reduces, ReducesOn
<1>3. RowFits(28, Row28)
  BY <1>1, <1>2, MergeFits DEF Row28
<1> QED BY <1>3
    DEF Row28, RowIs, RowCovers, Handles, Places, ++, One, Each, Ends, Keyword, Named

LEMMA Row29Is == RowIs(29, Row29)
<1>1. RowFits(29, Ends("module_name_repeat1", 2))
  BY EndsFits DEF Reduces, ReducesOn
<1>2. RowFits(29, One("DOT", Reduce("module_name_repeat1", 2)))
  BY OneReduces, AloneTokens DEF Alone, Reduces, ReducesOn
<1>3. RowFits(29, Row29)
  BY <1>1, <1>2, MergeFits DEF Row29
<1> QED BY <1>3
    DEF Row29, RowIs, RowCovers, Handles, Places, ++, One, Each, Ends, Keyword, Named

LEMMA Row49Is == RowIs(49, Row49)
<1>1. RowFits(49, One("identifier", Shift(40))) /\ RowFits(49, One("extern", Shift(33)))
  BY OneShifts, AloneTokens DEF Alone, StringParts, Shifts, Ending, Regex, Continues
<1>2. RowFits(49, One("identifier", Shift(40)) ++ One("extern", Shift(33)))
  BY <1>1, MergeFits
<1>3. \A t \in DOMAIN Ends("_token", 1) \ DOMAIN (One("identifier", Shift(40)) ++ One("extern", Shift(33))) :
        Entry(49, t, Ends("_token", 1)[t])
  BY FollowTokens DEF Ends, Each, One, ++, Entry, Reduce, Reduces, ReducesOn, ItemParts
<1>4. RowFits(49, Row49)
  BY <1>2, <1>3, MergeFitsBut DEF Row49
<1> QED BY <1>4
    DEF Row49, RowIs, RowCovers, Handles, Places, ++, One, Each, Ends, Keyword, Named

LEMMA Row53Is == RowIs(53, Row53)
<1>1. \A t \in {"string_content", "escape_sequence"} : Entry(53, t, Shift(55))
  BY AloneKind, AloneTokens DEF Alone, StringParts, Entry, Shift, Shifts, Continues
<1>2. RowFits(53, One("POUND_LBRACE", Shift(11)))
  BY OneShifts, AloneTokens DEF Alone, StringParts, Shifts, Ending, Regex, Continues
<1>3. \A t \in {"interpolation", "string_repeat1"} : Entry(53, t, Goto(55))
  BY DEF Entry, Goto, Goes
<1>4. RowFits(53, Part(55))
  BY <1>1, <1>2, <1>3, EachFits, MergeFits DEF Part
<1>5. RowFits(53, One("DQUOTE2", Shift(50)))
  BY OneShifts, AloneTokens DEF Alone, StringParts, Shifts, Ending, Regex, Continues
<1>6. RowFits(53, Row53)
  BY <1>4, <1>5, MergeFits DEF Row53
<1> QED BY <1>6
    DEF Row53, RowIs, RowCovers, Handles, Places, ++, One, Each, Ends, Keyword, Named, Part, StringParts

LEMMA Row54Is == RowIs(54, Row54)
<1>1. \A t \in {"string_content", "escape_sequence"} : Entry(54, t, Shift(53))
  BY AloneKind, AloneTokens DEF Alone, StringParts, Entry, Shift, Shifts, Continues
<1>2. RowFits(54, One("POUND_LBRACE", Shift(11)))
  BY OneShifts, AloneTokens DEF Alone, StringParts, Shifts, Ending, Regex, Continues
<1>3. \A t \in {"interpolation", "string_repeat1"} : Entry(54, t, Goto(53))
  BY DEF Entry, Goto, Goes
<1>4. RowFits(54, Part(53))
  BY <1>1, <1>2, <1>3, EachFits, MergeFits DEF Part
<1>5. RowFits(54, One("DQUOTE2", Shift(39)))
  BY OneShifts, AloneTokens DEF Alone, StringParts, Shifts, Ending, Regex, Continues
<1>6. RowFits(54, Row54)
  BY <1>4, <1>5, MergeFits DEF Row54
<1> QED BY <1>6
    DEF Row54, RowIs, RowCovers, Handles, Places, ++, One, Each, Ends, Keyword, Named, Part, StringParts

\* A row that reduces on the parts of a string fits.
LEMMA EndsPartFits ==
    ASSUME NEW s \in {55, 56, 57}, NEW symbol, NEW length, Reduces(s, symbol, length)
    PROVE  RowFits(s, EndsPart(symbol, length))
<1>1. \A t \in StringParts : Entry(s, t, Reduce(symbol, length))
  BY AloneTokens DEF Alone, Entry, Reduce, ReducesOn
<1> QED BY <1>1, EachFits DEF EndsPart

\* The rows of the parts of a string, of an event, of a "." and of the whole file.
LEMMA Row55Is == RowIs(55, Row55)
<1>1. RowFits(55, EndsPart("string_repeat1", 2))
  BY EndsPartFits DEF Reduces
<1>2. \A t \in {"interpolation", "string_repeat1"} : Entry(55, t, Goto(55))
  BY DEF Entry, Goto, Goes
<1>3. RowFits(55, Row55)
  BY <1>1, <1>2, EachFits, MergeFits DEF Row55
<1> QED BY <1>3
    DEF Row55, RowIs, RowCovers, Handles, Places, ++, One, Each, Ends, Keyword, Named, EndsPart

LEMMA Row56Is == RowIs(56, Row56)
<1>1. RowFits(56, Row56)
  BY EndsPartFits DEF Row56, Reduces
<1> QED BY <1>1
    DEF Row56, RowIs, RowCovers, Handles, Places, ++, One, Each, Ends, Keyword, Named, EndsPart

LEMMA Row57Is == RowIs(57, Row57)
<1>1. RowFits(57, Row57)
  BY EndsPartFits DEF Row57, Reduces
<1> QED BY <1>1
    DEF Row57, RowIs, RowCovers, Handles, Places, ++, One, Each, Ends, Keyword, Named, EndsPart

LEMMA Row58Is == RowIs(58, Row58)
<1>1. \A t \in {"identifier", "type_identifier"} : Entry(58, t, Shift(38))
  BY AloneKind, AloneTokens DEF Alone, Entry, Shift, Shifts, Continues
<1>2. RowFits(58, Row58)
  BY <1>1, EachFits DEF Row58
<1> QED BY <1>2
    DEF Row58, RowIs, RowCovers, Handles, Places, ++, One, Each, Ends, Keyword, Named

LEMMA Row59Is == RowIs(59, Row59)
<1>1. RowFits(59, Row59)
  BY OneShifts, AloneTokens DEF Alone, StringParts, Shifts, Ending, Regex, Continues, Row59
<1> QED BY <1>1
    DEF Row59, RowIs, RowCovers, Handles, Places, ++, One, Each, Ends, Keyword, Named

LEMMA Row60Is == RowIs(60, Row60)
<1>1. Entry(60, "$end", AcceptInput)
  BY DEF Entry, AcceptInput
<1>2. RowFits(60, Row60)
  BY <1>1, OneFits DEF Row60
<1> QED BY <1>2
    DEF Row60, RowIs, RowCovers, Handles, Places, ++, One, Each, Ends, Keyword, Named

\* The table is made of these rows.
LEMMA TableRows ==
    /\ DOMAIN Table = 0 .. 60
    /\ Table[0] = Row0
    /\ Table[1] = Row1
    /\ Table[2] = Row2
    /\ Table[3] = Row3
    /\ Table[4] = Row4
    /\ Table[5] = Row5
    /\ Table[6] = Row6
    /\ Table[7] = Row7
    /\ Table[8] = Row8
    /\ Table[9] = Row9
    /\ Table[10] = Row10
    /\ Table[11] = Row11
    /\ Table[12] = Row12
    /\ Table[13] = Row13
    /\ Table[14] = Row14
    /\ Table[15] = Row15
    /\ Table[16] = Row16
    /\ Table[17] = Row17
    /\ Table[18] = Row18
    /\ Table[19] = Row19
    /\ Table[20] = Row20
    /\ Table[21] = Row21
    /\ Table[22] = Row22
    /\ Table[23] = Row23
    /\ Table[24] = Row24
    /\ Table[25] = Row25
    /\ Table[26] = Row26
    /\ Table[27] = Row27
    /\ Table[28] = Row28
    /\ Table[29] = Row29
    /\ Table[30] = Row30
    /\ Table[31] = Row31
    /\ Table[32] = Row32
    /\ Table[33] = Row33
    /\ Table[34] = Row34
    /\ Table[35] = Row35
    /\ Table[36] = Row36
    /\ Table[37] = Row37
    /\ Table[38] = Row38
    /\ Table[39] = Row39
    /\ Table[40] = Row40
    /\ Table[41] = Row41
    /\ Table[42] = Row42
    /\ Table[43] = Row43
    /\ Table[44] = Row44
    /\ Table[45] = Row45
    /\ Table[46] = Row46
    /\ Table[47] = Row47
    /\ Table[48] = Row48
    /\ Table[49] = Row49
    /\ Table[50] = Row50
    /\ Table[51] = Row51
    /\ Table[52] = Row52
    /\ Table[53] = Row53
    /\ Table[54] = Row54
    /\ Table[55] = Row55
    /\ Table[56] = Row56
    /\ Table[57] = Row57
    /\ Table[58] = Row58
    /\ Table[59] = Row59
    /\ Table[60] = Row60
<1> DEFINE rest == <<Row1, Row2, Row3, Row4, Row5, Row6, Row7, Row8, Row9, Row10, Row11, Row12, Row13, Row14, Row15, Row16, Row17, Row18, Row19, Row20, Row21, Row22, Row23, Row24, Row25, Row26, Row27, Row28, Row29, Row30, Row31, Row32, Row33, Row34, Row35, Row36, Row37, Row38, Row39, Row40, Row41, Row42, Row43, Row44, Row45, Row46, Row47, Row48, Row49, Row50, Row51, Row52, Row53, Row54, Row55, Row56, Row57, Row58, Row59, Row60>>
<1>1. Table = One(0, Row0) ++ rest
  BY DEF Table
<1>2. DOMAIN rest = 1 .. 60
  OBVIOUS
<1>3. DOMAIN One(0, Row0) = {0} /\ One(0, Row0)[0] = Row0
  BY DEF One
<1>4. /\ rest[1] = Row1
      /\ rest[2] = Row2
      /\ rest[3] = Row3
      /\ rest[4] = Row4
      /\ rest[5] = Row5
      /\ rest[6] = Row6
      /\ rest[7] = Row7
      /\ rest[8] = Row8
      /\ rest[9] = Row9
      /\ rest[10] = Row10
      /\ rest[11] = Row11
      /\ rest[12] = Row12
      /\ rest[13] = Row13
      /\ rest[14] = Row14
      /\ rest[15] = Row15
      /\ rest[16] = Row16
      /\ rest[17] = Row17
      /\ rest[18] = Row18
      /\ rest[19] = Row19
      /\ rest[20] = Row20
      /\ rest[21] = Row21
      /\ rest[22] = Row22
      /\ rest[23] = Row23
      /\ rest[24] = Row24
      /\ rest[25] = Row25
      /\ rest[26] = Row26
      /\ rest[27] = Row27
      /\ rest[28] = Row28
      /\ rest[29] = Row29
      /\ rest[30] = Row30
      /\ rest[31] = Row31
      /\ rest[32] = Row32
      /\ rest[33] = Row33
      /\ rest[34] = Row34
      /\ rest[35] = Row35
      /\ rest[36] = Row36
      /\ rest[37] = Row37
      /\ rest[38] = Row38
      /\ rest[39] = Row39
      /\ rest[40] = Row40
      /\ rest[41] = Row41
      /\ rest[42] = Row42
      /\ rest[43] = Row43
      /\ rest[44] = Row44
      /\ rest[45] = Row45
      /\ rest[46] = Row46
      /\ rest[47] = Row47
      /\ rest[48] = Row48
      /\ rest[49] = Row49
      /\ rest[50] = Row50
      /\ rest[51] = Row51
      /\ rest[52] = Row52
      /\ rest[53] = Row53
      /\ rest[54] = Row54
      /\ rest[55] = Row55
      /\ rest[56] = Row56
      /\ rest[57] = Row57
      /\ rest[58] = Row58
      /\ rest[59] = Row59
      /\ rest[60] = Row60
  OBVIOUS
<1> HIDE DEF rest
<1> QED BY <1>1, <1>2, <1>3, <1>4 DEF ++

\* Every row has the entries Entry says, one for each token of Handles.
LEMMA TableIs == \A s \in 0 .. 60 : RowIs(s, Table[s])
<1>1. \A s \in 0 .. 60 : s = 0 \/ s = 1 \/ s = 2 \/ s = 3 \/ s = 4 \/ s = 5 \/ s = 6 \/ s = 7 \/ s = 8 \/ s = 9 \/ s = 10 \/ s = 11 \/ s = 12 \/ s = 13 \/ s = 14 \/ s = 15 \/ s = 16 \/ s = 17 \/ s = 18 \/ s = 19 \/ s = 20 \/ s = 21 \/ s = 22 \/ s = 23 \/ s = 24 \/ s = 25 \/ s = 26 \/ s = 27 \/ s = 28 \/ s = 29 \/ s = 30 \/ s = 31 \/ s = 32 \/ s = 33 \/ s = 34 \/ s = 35 \/ s = 36 \/ s = 37 \/ s = 38 \/ s = 39 \/ s = 40 \/ s = 41 \/ s = 42 \/ s = 43 \/ s = 44 \/ s = 45 \/ s = 46 \/ s = 47 \/ s = 48 \/ s = 49 \/ s = 50 \/ s = 51 \/ s = 52 \/ s = 53 \/ s = 54 \/ s = 55 \/ s = 56 \/ s = 57 \/ s = 58 \/ s = 59 \/ s = 60
  OBVIOUS
<1> QED BY <1>1, TableRows, Row0Is, Row1Is, Row2Is, Row3Is, Row4Is, Row5Is, Row6Is, Row7Is, Row8Is, Row9Is, Row10Is, Row11Is, Row12Is, Row13Is, Row14Is, Row15Is, Row16Is, Row17Is, Row18Is, Row19Is, Row20Is, Row21Is, Row22Is, Row23Is, Row24Is, Row25Is, Row26Is, Row27Is, Row28Is, Row29Is, Row30Is, Row31Is, Row32Is, Row33Is, Row34Is, Row35Is, Row36Is, Row37Is, Row38Is, Row39Is, Row40Is, Row41Is, Row42Is, Row43Is, Row44Is, Row45Is, Row46Is, Row47Is, Row48Is, Row49Is, Row50Is, Row51Is, Row52Is, Row53Is, Row54Is, Row55Is, Row56Is, Row57Is, Row58Is, Row59Is, Row60Is

(***************************************************************************)
(* The stack.                                                              *)
(***************************************************************************)
\* What may lie right under a state.
Below(u, s) ==
    \/ s \in {3, 4, 5, 18, 22, 23, 24, 25, 26, 27, 28, 37, 46, 49, 54, 58} /\ u \in Places
    \/ s = 2 /\ u \in Filled
    \/ s \in {6, 60} /\ u = 1
    \/ <<u, s>> \in {<<3, 7>>, <<3, 9>>, <<4, 10>>, <<4, 12>>, <<5, 8>>, <<5, 15>>, <<7, 14>>,
                     <<12, 17>>, <<15, 13>>, <<11, 16>>, <<54, 53>>, <<53, 55>>, <<19, 20>>,
                     <<20, 21>>, <<59, 29>>, <<4, 31>>, <<25, 32>>, <<49, 33>>, <<22, 34>>,
                     <<18, 35>>, <<27, 36>>, <<58, 38>>, <<54, 39>>, <<49, 40>>, <<23, 41>>,
                     <<24, 43>>, <<3, 45>>, <<5, 47>>, <<14, 48>>, <<53, 50>>, <<13, 51>>,
                     <<17, 52>>, <<11, 56>>, <<16, 57>>}
    \/ s = 11 /\ u \in {53, 54}
    \/ s = 19 /\ u \in {18, 23, 24}
    \/ s = 30 /\ u \in {10, 12}
    \/ s = 42 /\ u \in {7, 9}
    \/ s = 44 /\ u \in {8, 15}
    \/ s = 59 /\ u \in {19, 20}

Linked(states) ==
    /\ states \in Seq(1 .. 60) /\ Len(states) > 0 /\ states[1] = 1
    /\ \A i \in 1 .. Len(states) - 1 : Below(states[i], states[i + 1])

\* The states a reduction may uncover.
Uncovered(symbol, u) ==
    \/ symbol = "source_file" /\ u = 1
    \/ symbol \in ItemParts \cup {"keyword", "punctuation"} /\ u \in Places
    \/ symbol = "module_name" /\ u \in {18, 23, 24}
    \/ symbol = "module_name_repeat1" /\ u \in {19, 20}
    \/ symbol = "string_repeat1" /\ u = 54
    \/ symbol = "interpolation" /\ u \in {53, 54}

\* Under a state that is not the first lies one it may lie on.
LEMMA Descend ==
    ASSUME NEW states, Linked(states), NEW i \in 1 .. Len(states), states[i] # 1
    PROVE  i > 1 /\ i - 1 \in 1 .. Len(states) /\ Below(states[i - 1], states[i])
BY DEF Linked

\* What is shifted may lie on the state that shifts it.
LEMMA ShiftsBelow ==
    ASSUME NEW s, NEW k, NEW to, Shifts(s, k, to)
    PROVE  Below(s, to) /\ to \in 1 .. 60
<1>1. CASE s \in Places /\ Heads(k, to)
  BY <1>1 DEF Heads, Below
<1>2. CASE s \in Places /\ k \in {"item", "identifier", "type_identifier", "newline", "comment"}
       /\ to = Onward(s)
  BY <1>2 DEF Below, Places, Filled, Onward
<1>3. CASE Ending(s, k, to)
  BY <1>3 DEF Ending, Below
<1>4. CASE Regex(s, k, to)
  BY <1>4 DEF Regex, Below
<1>5. CASE Continues(s, k, to)
  BY <1>5 DEF Continues, Below
<1> QED BY <1>1, <1>2, <1>3, <1>4, <1>5 DEF Shifts

\* Where a reduction goes may lie on what it uncovers.
LEMMA GoesBelow ==
    ASSUME NEW symbol, NEW u, NEW to, Uncovered(symbol, u), Goes(u, symbol, to)
    PROVE  Below(u, to) /\ to \in 1 .. 60
<1>1. CASE u \in Places /\ symbol \in ItemParts /\ to = Onward(u)
  BY <1>1 DEF Below, Places, Filled, Onward
<1>2. CASE u \in Places /\ symbol \in {"keyword", "punctuation"} /\ to = 22
  BY <1>2 DEF Below
<1>3. CASE u \notin Places
  BY <1>3 DEF Uncovered, Goes, Below, ItemParts
<1>4. CASE u = 1 /\ symbol = "source_file" /\ to = 60
  BY <1>4 DEF Below
<1> QED BY <1>1, <1>2, <1>3, <1>4 DEF Goes, Places

\* A stack stays linked when a state that may lie on its top is pushed.
LEMMA LinkedAppend ==
    ASSUME NEW states, Linked(states), NEW s \in 1 .. 60, Below(states[Len(states)], s)
    PROVE  Linked(Append(states, s))
BY DEF Linked

\* The first elements of a sequence.
LEMMA Prefix ==
    ASSUME NEW S, NEW states \in Seq(S), NEW n \in 0 .. Len(states)
    PROVE  /\ SubSeq(states, 1, n) \in Seq(S) /\ Len(SubSeq(states, 1, n)) = n
           /\ \A i \in 1 .. n : SubSeq(states, 1, n)[i] = states[i]
OBVIOUS

\* What is left of a linked stack is linked.
LEMMA LinkedPrefix ==
    ASSUME NEW states, Linked(states), NEW n \in 1 .. Len(states)
    PROVE  Linked(SubSeq(states, 1, n)) /\ Len(SubSeq(states, 1, n)) = n
           /\ SubSeq(states, 1, n)[n] = states[n]
<1> DEFINE front == SubSeq(states, 1, n)
<1>1. front \in Seq(1 .. 60) /\ Len(front) = n /\ \A i \in 1 .. n : front[i] = states[i]
  <2>1. states \in Seq(1 .. 60) /\ n \in 0 .. Len(states)
    BY DEF Linked
  <2> QED BY <2>1, Prefix
<1>2. n \in Nat /\ n > 0 /\ n <= Len(states) /\ Len(states) \in Nat
  BY DEF Linked
<1> HIDE DEF front
<1>3. Linked(front)
  BY <1>1, <1>2 DEF Linked
<1> QED BY <1>1, <1>2, <1>3 DEF front

(***************************************************************************)
(* What the states open.                                                   *)
(***************************************************************************)
Frames == {"brace", "bracket", "paren", "interpolation", "string"}

\* Of no elements.
LEMMA EmptyPrefix ==
    ASSUME NEW S, NEW states \in Seq(S)
    PROVE  SubSeq(states, 1, 0) = <<>>
<1>1. SubSeq(states, 1, 0) \in Seq(S) /\ Len(SubSeq(states, 1, 0)) = 0
  OBVIOUS
<1> QED BY <1>1

\* What the first n states open, from what the first n - 1 do.
LEMMA OpenedPrefix ==
    ASSUME NEW S, NEW states \in Seq(S), NEW n \in 1 .. Len(states)
    PROVE  Opened(SubSeq(states, 1, n))
             = OpensNext(Opened(SubSeq(states, 1, n - 1)), states[n])
<1>1. SubSeq(states, 1, n - 1) \in Seq(S) /\ states[n] \in S
  OBVIOUS
<1>2. SubSeq(states, 1, n) = Append(SubSeq(states, 1, n - 1), states[n])
  OBVIOUS
<1> QED BY <1>1, <1>2, OpenedAppend

\* They open groups.
LEMMA OpenedType ==
    ASSUME NEW states, Linked(states), NEW n \in 0 .. Len(states)
    PROVE  Opened(SubSeq(states, 1, n)) \in Seq(Frames)
<1> DEFINE T == {m \in Nat : m <= Len(states) => Opened(SubSeq(states, 1, m)) \in Seq(Frames)}
<1>1. 0 \in T
  <2>1. SubSeq(states, 1, 0) = <<>>
    BY EmptyPrefix DEF Linked
  <2>2. <<>> \in Seq(Frames)
    OBVIOUS
  <2> QED BY <2>1, <2>2, OpenedEmpty
<1>2. ASSUME NEW m \in Nat, m \in T PROVE m + 1 \in T
  <2> SUFFICES ASSUME m + 1 <= Len(states)
               PROVE  Opened(SubSeq(states, 1, m + 1)) \in Seq(Frames)
    OBVIOUS
  <2>1. Opened(SubSeq(states, 1, m)) \in Seq(Frames)
    BY <1>2 DEF Linked
  <2>2. Opened(SubSeq(states, 1, m + 1)) = OpensNext(Opened(SubSeq(states, 1, m)), states[m + 1])
    BY OpenedPrefix DEF Linked
  <2>3. \A s \in DOMAIN OpenedBy : OpenedBy[s] \in Frames
    BY DEF OpenedBy, Frames
  <2>4. \A frames \in Seq(Frames), f \in Frames : Append(frames, f) \in Seq(Frames)
    OBVIOUS
  <2> HIDE DEF T
  <2>5. OpensNext(Opened(SubSeq(states, 1, m)), states[m + 1]) \in Seq(Frames)
    BY <2>1, <2>3, <2>4, Zenon DEF OpensNext
  <2> QED BY <2>2, <2>5
<1>3. \A m \in Nat : m \in T
  <2> HIDE DEF T
  <2> QED BY <1>1, <1>2, NaturalsBySets
<1>4. n \in T /\ n <= Len(states)
  <2> HIDE DEF T
  <2>1. Len(states) \in Nat
    BY DEF Linked
  <2> QED BY <1>3, <2>1
<1> QED BY <1>4

\* Open, of any stack.
Groups(states) ==
    LET all == Opened(states)
    IN  IF states[Len(states)] \in Closing THEN SubSeq(all, 1, Len(all) - 1) ELSE all

InnerOf(frames) == IF frames = <<>> THEN "file" ELSE frames[Len(frames)]

\* The innermost group when a state is on top, its own if it is the last of one.
FramesAt(s) ==
    CASE s \in {1, 6, 60}                  -> {"file"}
      [] s \in {3, 7, 9, 14, 42, 45, 48}   -> {"brace"}
      [] s \in {4, 10, 12, 17, 30, 31, 52} -> {"bracket"}
      [] s \in {5, 8, 13, 15, 44, 47, 51}  -> {"paren"}
      [] s \in {11, 16, 56, 57}            -> {"interpolation"}
      [] s \in {53, 54, 55, 39, 50}        -> {"string"}
      [] OTHER                             -> (Frames \cup {"file"}) \ {"string"}

\* The states that open a group.
LEMMA OpeningStates == DOMAIN OpenedBy = {3, 4, 5, 11, 54}
BY DEF OpenedBy

\* A state that opens none is in the group of the state under it.
LEMMA BelowFrames ==
    ASSUME NEW u, NEW s, Below(u, s), s \notin DOMAIN OpenedBy
    PROVE  FramesAt(u) \subseteq FramesAt(s)
<1>1. CASE s \in {18, 22, 23, 24, 25, 26, 27, 28, 37, 46, 49, 58} /\ u \in Places
  BY <1>1 DEF Places, FramesAt, Frames
<1>2. CASE s = 2 /\ u \in Filled
  BY <1>2 DEF Filled, FramesAt, Frames
<1>3. CASE s \in {6, 60} /\ u = 1
  BY <1>3 DEF FramesAt
<1>4. CASE s = 19 /\ u \in {18, 23, 24}
  BY <1>4 DEF FramesAt
<1>5. CASE s = 30 /\ u \in {10, 12}
  BY <1>5 DEF FramesAt
<1>6. CASE s = 42 /\ u \in {7, 9}
  BY <1>6 DEF FramesAt
<1>7. CASE s = 44 /\ u \in {8, 15}
  BY <1>7 DEF FramesAt
<1>8. CASE s = 59 /\ u \in {19, 20}
  BY <1>8 DEF FramesAt
<1>9. CASE <<u, s>> \in {<<3, 7>>, <<3, 9>>, <<4, 10>>, <<4, 12>>, <<5, 8>>, <<5, 15>>, <<7, 14>>,
                     <<12, 17>>, <<15, 13>>, <<11, 16>>, <<54, 53>>, <<53, 55>>, <<19, 20>>,
                     <<20, 21>>, <<59, 29>>, <<4, 31>>, <<25, 32>>, <<49, 33>>, <<22, 34>>,
                     <<18, 35>>, <<27, 36>>, <<58, 38>>, <<54, 39>>, <<49, 40>>, <<23, 41>>,
                     <<24, 43>>, <<3, 45>>, <<5, 47>>, <<14, 48>>, <<53, 50>>, <<13, 51>>,
                     <<17, 52>>, <<11, 56>>, <<16, 57>>}
  BY <1>9 DEF FramesAt
<1> QED BY <1>1, <1>2, <1>3, <1>4, <1>5, <1>6, <1>7, <1>8, <1>9, OpeningStates DEF Below

\* A state that opens one is in it.
LEMMA OpenerFrames ==
    \A s \in DOMAIN OpenedBy : OpenedBy[s] \in FramesAt(s) /\ OpenedBy[s] \in Frames
<1> SUFFICES ASSUME NEW s \in DOMAIN OpenedBy
             PROVE  OpenedBy[s] \in FramesAt(s) /\ OpenedBy[s] \in Frames
  OBVIOUS
<1>1. s \in {3, 4, 5, 11, 54}
  BY OpeningStates
<1>2. /\ OpenedBy[3] = "brace" /\ OpenedBy[4] = "bracket" /\ OpenedBy[5] = "paren"
      /\ OpenedBy[11] = "interpolation" /\ OpenedBy[54] = "string"
  BY DEF OpenedBy
<1>3. CASE s = 3
  BY <1>2, <1>3 DEF FramesAt, Frames
<1>4. CASE s = 4
  BY <1>2, <1>4 DEF FramesAt, Frames
<1>5. CASE s = 5
  BY <1>2, <1>5 DEF FramesAt, Frames
<1>6. CASE s = 11
  BY <1>2, <1>6 DEF FramesAt, Frames
<1>7. CASE s = 54
  BY <1>2, <1>7 DEF FramesAt, Frames
<1> QED BY <1>1, <1>3, <1>4, <1>5, <1>6, <1>7

\* Nothing lies under the first state.
LEMMA NoneBelowFirst == \A u : ~Below(u, 1)
BY DEF Below

\* The innermost group the states open is one the last of them can be in.
LEMMA OpenedFrames ==
    ASSUME NEW states, Linked(states), NEW n \in 1 .. Len(states)
    PROVE  InnerOf(Opened(SubSeq(states, 1, n))) \in FramesAt(states[n])
<1> DEFINE O(m) == Opened(SubSeq(states, 1, m))
           T == {m \in Nat : m > 0 /\ m <= Len(states) => InnerOf(O(m)) \in FramesAt(states[m])}
<1>1. 0 \in T
  OBVIOUS
<1>2. ASSUME NEW m \in Nat, m \in T PROVE m + 1 \in T
  <2> SUFFICES ASSUME m + 1 <= Len(states)
               PROVE  InnerOf(O(m + 1)) \in FramesAt(states[m + 1])
    OBVIOUS
  <2> DEFINE s == states[m + 1]
  <2>1. Len(states) \in Nat /\ states \in Seq(1 .. 60) /\ m + 1 \in 1 .. Len(states)
        /\ m \in 0 .. Len(states)
    BY DEF Linked
  <2>2. O(m + 1) = OpensNext(O(m), s)
    BY <2>1, OpenedPrefix
  <2>3. O(m) \in Seq(Frames)
    BY <2>1, OpenedType
  <2>4. CASE s \in DOMAIN OpenedBy
    <3>1. O(m + 1) = Append(O(m), OpenedBy[s])
      BY <2>2, <2>4 DEF OpensNext
    <3>2. OpenedBy[s] \in FramesAt(s) /\ OpenedBy[s] \in Frames
      BY <2>4, OpenerFrames
    <3> HIDE DEF O
    <3>3. InnerOf(O(m + 1)) = OpenedBy[s]
      BY <2>3, <3>1, <3>2 DEF InnerOf
    <3> QED BY <3>2, <3>3
  <2>5. CASE s = 1
    <3>1. m = 0
      <4>1. CASE m > 0
        <5>1. Below(states[m], 1)
          BY <2>1, <2>5, <4>1 DEF Linked
        <5> QED BY <5>1, NoneBelowFirst
      <4> QED BY <4>1
    <3>2. O(0) = <<>>
      BY <2>1, EmptyPrefix, OpenedEmpty
    <3> QED BY <2>2, <2>5, <3>1, <3>2, OpeningStates DEF OpensNext, InnerOf, FramesAt
  <2>6. CASE s # 1 /\ s \notin DOMAIN OpenedBy
    <3>1. m > 0 /\ Below(states[m], s)
      BY <2>1, <2>6, Descend
    <3>2. InnerOf(O(m)) \in FramesAt(states[m])
      BY <1>2, <2>1, <3>1
    <3>3. FramesAt(states[m]) \subseteq FramesAt(s)
      BY <2>6, <3>1, BelowFrames
    <3> HIDE DEF O
    <3>4. O(m + 1) = O(m)
      BY <2>2, <2>6 DEF OpensNext
    <3> QED BY <3>2, <3>3, <3>4
  <2> QED BY <2>4, <2>5, <2>6
<1>3. \A m \in Nat : m \in T
  <2> HIDE DEF T
  <2> QED BY <1>1, <1>2, NaturalsBySets
<1>4. n \in T /\ n <= Len(states) /\ n > 0
  <2> HIDE DEF T
  <2>1. Len(states) \in Nat
    BY DEF Linked
  <2> QED BY <1>3, <2>1
<1> QED BY <1>4

(***************************************************************************)
(* What a reduction takes off the stack.                                   *)
(***************************************************************************)
LEMMA ReducesLength ==
    ASSUME NEW s, NEW symbol, NEW n, Reduces(s, symbol, n)
    PROVE  /\ n \in 0 .. 4
           /\ n = 0 => s = 1 /\ symbol = "source_file"
           /\ n > 0 => s # 1
BY DEF Reduces

\* A reduction of one state takes neither end of a group.
LEMMA ReducesOne ==
    ASSUME NEW s, NEW symbol, NEW u, Reduces(s, symbol, 1), Below(u, s)
    PROVE  /\ s \notin DOMAIN OpenedBy /\ s \notin Closing
           /\ Uncovered(symbol, u)
<1>1. CASE s = 6 /\ symbol = "source_file"
  BY <1>1, OpeningStates DEF Below, Uncovered, Closing
<1>2. CASE s \in {18, 22, 23, 24, 25, 26, 27, 28, 37, 46, 49} /\ u \in Places
           /\ symbol \in ItemParts \cup {"keyword", "punctuation", "_regex_start"}
  <2>1. "_regex_start" \in ItemParts
    BY DEF ItemParts
  <2> QED BY <1>2, <2>1, OpeningStates DEF Uncovered, Closing
<1>3. CASE s = 19 /\ symbol = "module_name"
  BY <1>3, OpeningStates DEF Below, Uncovered, Closing
<1> QED BY <1>1, <1>2, <1>3 DEF Reduces, Below

\* One of two takes both ends of a group, or neither.
LEMMA ReducesTwo ==
    ASSUME NEW s, NEW symbol, NEW u, Reduces(s, symbol, 2), Below(u, s)
    PROVE  /\ s \notin DOMAIN OpenedBy /\ u # 1
           /\ s \in Closing <=> u \in DOMAIN OpenedBy
           /\ \A v : Below(v, u) => Uncovered(symbol, v)
<1>1. CASE s = 2 /\ symbol = "source_file_repeat1" /\ u \in Filled
  <2>1. "source_file_repeat1" \in ItemParts
    BY DEF ItemParts
  <2> QED BY <1>1, <2>1, OpeningStates DEF Below, Filled, Places, Uncovered, Closing
<1>2. CASE s \in {20, 21, 29} /\ symbol \in {"module_name", "module_name_repeat1"}
  BY <1>2, OpeningStates DEF Reduces, Below, Uncovered, Closing
<1>3. CASE s \in {32, 33, 34, 35, 36, 38, 40, 41, 43} /\ symbol \in ItemParts
  BY <1>3, OpeningStates DEF Below, Uncovered, Closing
<1>4. CASE s \in {31, 39, 45, 47} /\ symbol \in ItemParts
  BY <1>4, OpeningStates DEF Below, Uncovered, Closing
<1>5. CASE s = 55 /\ symbol = "string_repeat1"
  BY <1>5, OpeningStates DEF Below, Uncovered, Closing
<1>6. CASE s = 56 /\ symbol = "interpolation"
  BY <1>6, OpeningStates DEF Below, Uncovered, Closing
<1> QED BY <1>1, <1>2, <1>3, <1>4, <1>5, <1>6 DEF Reduces, Below

\* One of three takes both ends of a group and what is in it.
LEMMA ReducesThree ==
    ASSUME NEW s, NEW symbol, NEW u, NEW v, Reduces(s, symbol, 3), Below(u, s), Below(v, u)
    PROVE  /\ s \notin DOMAIN OpenedBy /\ u \notin DOMAIN OpenedBy /\ u # 1 /\ v # 1
           /\ s \in Closing /\ v \in DOMAIN OpenedBy
           /\ \A w : Below(w, v) => Uncovered(symbol, w)
<1>1. (s \in {30, 42, 44, 50} /\ symbol \in ItemParts) \/ (s = 57 /\ symbol = "interpolation")
  BY DEF Reduces
<1>2. CASE s \in {30, 42, 44, 50} /\ symbol \in ItemParts
  BY <1>2, OpeningStates DEF Below, Uncovered, Closing
<1>3. CASE s = 57 /\ symbol = "interpolation"
  BY <1>3, OpeningStates DEF Below, Uncovered, Closing
<1> QED BY <1>1, <1>2, <1>3

\* One of four takes both ends of a group, a regex and what is in it.
LEMMA ReducesFour ==
    ASSUME NEW s, NEW symbol, NEW u, NEW v, NEW w, Reduces(s, symbol, 4),
           Below(u, s), Below(v, u), Below(w, v)
    PROVE  /\ s \notin DOMAIN OpenedBy /\ u \notin DOMAIN OpenedBy /\ v \notin DOMAIN OpenedBy
           /\ u # 1 /\ v # 1 /\ w # 1
           /\ s \in Closing /\ w \in DOMAIN OpenedBy
           /\ \A x : Below(x, w) => Uncovered(symbol, x)
<1>1. s \in {48, 51, 52} /\ symbol \in ItemParts
  BY DEF Reduces
<1> QED BY <1>1, OpeningStates DEF Below, Uncovered, Closing

\* The two states on top of a reduction of three or four.
LEMMA AboveTheMiddle ==
    ASSUME NEW s, NEW symbol, NEW n, NEW u, Reduces(s, symbol, n), n = 3 \/ n = 4, Below(u, s)
    PROVE  /\ s \notin DOMAIN OpenedBy /\ u \notin DOMAIN OpenedBy /\ u # 1
           /\ s \in Closing
<1>1. s \in {30, 42, 44, 48, 50, 51, 52, 57}
  BY DEF Reduces
<1> QED BY <1>1, OpeningStates DEF Below, Closing

\* The state under them is not the first.
LEMMA BelowTheMiddle ==
    ASSUME NEW s, NEW symbol, NEW n, NEW u, NEW v, Reduces(s, symbol, n), n = 3 \/ n = 4,
           Below(u, s), Below(v, u)
    PROVE  v # 1
<1>1. s \in {30, 42, 44, 48, 50, 51, 52, 57}
  BY DEF Reduces
<1> QED BY <1>1 DEF Below

\* Without a state that opens none the same groups are open.
LEMMA PopOther ==
    ASSUME NEW states, Linked(states), NEW n \in 1 .. Len(states),
           states[n] \notin DOMAIN OpenedBy
    PROVE  Opened(SubSeq(states, 1, n)) = Opened(SubSeq(states, 1, n - 1))
<1>1. states \in Seq(1 .. 60)
  BY DEF Linked
<1> QED BY <1>1, OpenedPrefix DEF OpensNext

\* Without a state that opens one all but the last are.
LEMMA PopOpener ==
    ASSUME NEW states, Linked(states), NEW n \in 1 .. Len(states),
           states[n] \in DOMAIN OpenedBy
    PROVE  LET all == Opened(SubSeq(states, 1, n))
           IN  SubSeq(all, 1, Len(all) - 1) = Opened(SubSeq(states, 1, n - 1))
<1> DEFINE less == Opened(SubSeq(states, 1, n - 1))
<1>1. states \in Seq(1 .. 60) /\ n - 1 \in 0 .. Len(states)
  BY DEF Linked
<1>2. less \in Seq(Frames)
  BY <1>1, OpenedType
<1>3. Opened(SubSeq(states, 1, n)) = Append(less, OpenedBy[states[n]])
  BY <1>1, OpenedPrefix DEF OpensNext
<1> HIDE DEF less
<1>4. OpenedBy[states[n]] \in Frames
  BY OpenerFrames
<1>5. \A f \in Frames : SubSeq(Append(less, f), 1, Len(Append(less, f)) - 1) = less
  BY <1>2
<1> QED BY <1>3, <1>4, <1>5 DEF less

\* A reduction leaves the first state, uncovers a state that has a goto for it
\* and leaves the groups that were open before its first token.
LEMMA Uncovers ==
    ASSUME NEW states, Linked(states), NEW symbol, NEW n,
           Reduces(states[Len(states)], symbol, n)
    PROVE  /\ n \in Nat /\ n < Len(states)
           /\ Uncovered(symbol, states[Len(states) - n])
           /\ Groups(states) = Opened(SubSeq(states, 1, Len(states) - n))
<1> DEFINE L == Len(states)
           s == states[L]
           O(m) == Opened(SubSeq(states, 1, m))
<1>1. L \in Nat /\ L > 0 /\ states \in Seq(1 .. 60)
  BY DEF Linked
<1>2. SubSeq(states, 1, L) = states
  BY <1>1
<1>3. n \in 0 .. 4 /\ (n = 0 => s = 1 /\ symbol = "source_file") /\ (n > 0 => s # 1)
  BY ReducesLength
<1>a. /\ (L - 1) - 1 = L - 2 /\ (L - 2) - 1 = L - 3 /\ (L - 3) - 1 = L - 4 /\ L - 0 = L
      /\ n \in Nat
  BY <1>1, <1>3
<1>b. Groups(states) = IF s \in Closing THEN SubSeq(O(L), 1, Len(O(L)) - 1) ELSE O(L)
  BY <1>2 DEF Groups
<1> SUFFICES n < L /\ Uncovered(symbol, states[L - n]) /\ Groups(states) = O(L - n)
  BY <1>a
<1>4. CASE n = 0
  <2>1. s \notin Closing /\ Uncovered(symbol, s)
    BY <1>3, <1>4 DEF Closing, Uncovered
  <2> HIDE DEF O
  <2> QED BY <1>1, <1>4, <1>a, <1>b, <2>1
<1>5. CASE n > 0
  <2> DEFINE u == states[L - 1]
             v == states[L - 2]
             w == states[L - 3]
             x == states[L - 4]
  <2>1. L - 1 \in 1 .. L /\ Below(u, s)
    BY <1>1, <1>3, <1>5, Descend
  <2>2. CASE n = 1
    <3>1. s \notin DOMAIN OpenedBy /\ s \notin Closing /\ Uncovered(symbol, u)
      BY <2>1, <2>2, ReducesOne
    <3>2. O(L) = O(L - 1)
      BY <1>1, <3>1, PopOther
    <3> HIDE DEF O
    <3> QED BY <1>1, <1>b, <2>1, <2>2, <3>1, <3>2
  <2>3. CASE n = 2
    <3>1. /\ s \notin DOMAIN OpenedBy /\ u # 1 /\ (s \in Closing <=> u \in DOMAIN OpenedBy)
          /\ Below(v, u) => Uncovered(symbol, v)
      BY <2>1, <2>3, ReducesTwo
    <3>2. L - 2 \in 1 .. L /\ Below(v, u)
      <4>1. L - 1 > 1 /\ (L - 1) - 1 \in 1 .. L /\ Below(states[(L - 1) - 1], states[L - 1])
        BY <2>1, <3>1, Descend
      <4> QED BY <1>1, <4>1
    <3>3. O(L) = O(L - 1)
      BY <1>1, <3>1, PopOther
    <3>4. CASE u \in DOMAIN OpenedBy
      <4>1. SubSeq(O(L - 1), 1, Len(O(L - 1)) - 1) = O((L - 1) - 1)
        BY <2>1, <3>4, PopOpener
      <4>2. SubSeq(O(L), 1, Len(O(L)) - 1) = O(L - 2)
        BY <1>a, <3>3, <4>1
      <4> HIDE DEF O
      <4>3. Groups(states) = O(L - 2)
        BY <1>b, <3>1, <3>4, <4>2
      <4> QED BY <1>1, <2>3, <3>1, <3>2, <4>3
    <3>5. CASE u \notin DOMAIN OpenedBy
      <4>1. O(L - 1) = O((L - 1) - 1)
        BY <2>1, <3>5, PopOther
      <4> HIDE DEF O
      <4> QED BY <1>1, <1>a, <1>b, <2>3, <3>1, <3>2, <3>3, <3>5, <4>1
    <3> QED BY <3>4, <3>5
  <2>4. CASE n = 3 \/ n = 4
    <3>1. u # 1 /\ u \notin DOMAIN OpenedBy /\ s \notin DOMAIN OpenedBy /\ s \in Closing
      BY <2>1, <2>4, AboveTheMiddle
    <3>2. L - 2 \in 1 .. L /\ Below(v, u)
      <4>1. L - 1 > 1 /\ (L - 1) - 1 \in 1 .. L /\ Below(states[(L - 1) - 1], states[L - 1])
        BY <2>1, <3>1, Descend
      <4> QED BY <1>1, <4>1
    <3>3. O(L) = O(L - 1) /\ O(L - 1) = O(L - 2)
      <4>1. O(L - 1) = O((L - 1) - 1)
        BY <2>1, <3>1, PopOther
      <4> QED BY <1>1, <3>1, <4>1, PopOther
    <3>4. v # 1
      BY <2>1, <2>4, <3>2, BelowTheMiddle
    <3>5. L - 3 \in 1 .. L /\ Below(w, v)
      <4>1. L - 2 > 1 /\ (L - 2) - 1 \in 1 .. L /\ Below(states[(L - 2) - 1], states[L - 2])
        BY <3>2, <3>4, Descend
      <4> QED BY <1>1, <4>1
    <3>6. CASE n = 3
      <4>1. v \in DOMAIN OpenedBy /\ Uncovered(symbol, w)
        BY <2>1, <3>2, <3>5, <3>6, ReducesThree
      <4>2. SubSeq(O(L - 2), 1, Len(O(L - 2)) - 1) = O((L - 2) - 1)
        BY <3>2, <4>1, PopOpener
      <4> HIDE DEF O
      <4> QED BY <1>1, <1>a, <1>b, <3>1, <3>3, <3>5, <3>6, <4>1, <4>2
    <3>7. CASE n = 4
      <4>1. v \notin DOMAIN OpenedBy /\ w \in DOMAIN OpenedBy /\ w # 1
            /\ (Below(x, w) => Uncovered(symbol, x))
        BY <2>1, <3>2, <3>5, <3>7, ReducesFour
      <4>2. L - 4 \in 1 .. L /\ Below(x, w)
        <5>1. L - 3 > 1 /\ (L - 3) - 1 \in 1 .. L /\ Below(states[(L - 3) - 1], states[L - 3])
          BY <3>5, <4>1, Descend
        <5> QED BY <1>1, <5>1
      <4>3. O(L - 2) = O((L - 2) - 1)
        BY <3>2, <4>1, PopOther
      <4>4. SubSeq(O(L - 3), 1, Len(O(L - 3)) - 1) = O((L - 3) - 1)
        BY <3>5, <4>1, PopOpener
      <4> HIDE DEF O
      <4> QED BY <1>1, <1>a, <1>b, <3>1, <3>3, <3>7, <4>1, <4>2, <4>3, <4>4
    <3> QED BY <2>4, <3>6, <3>7
  <2> QED BY <1>3, <1>5, <2>2, <2>3, <2>4
<1> QED BY <1>3, <1>4, <1>5

\* The innermost group of Open.
FramesAfter(s) ==
    IF s \in {56, 57} THEN {"string"}
    ELSE IF s \in Closing THEN (Frames \cup {"file"}) \ {"string"} ELSE FramesAt(s)

\* Open is Groups of the stack.
LEMMA OpenIs == Open = Groups(stack)
BY DEF Open, Groups, Top

\* Nothing lies on the last state of a group: it is reduced at once.
LEMMA NoShiftFromClosing ==
    \A u, s : Below(u, s) => u \notin Closing
BY DEF Below, Closing, Places, Filled

\* A linked stack is its own longest prefix.
LEMMA WholeStack ==
    ASSUME NEW states, Linked(states)
    PROVE  SubSeq(states, 1, Len(states)) = states /\ Len(states) \in 1 .. Len(states)
BY DEF Linked

\* No state opens a group and closes one.
LEMMA OpenersNotClosing == \A s \in DOMAIN OpenedBy : s \notin Closing
BY OpeningStates DEF Closing

\* What a state pushed on the stack does to the groups.
LEMMA Pushed ==
    ASSUME NEW states, Linked(states), NEW s \in 1 .. 60
    PROVE  LET all == Opened(states)
           IN  /\ all \in Seq(Frames)
               /\ s \in DOMAIN OpenedBy => Groups(Append(states, s)) = Append(all, OpenedBy[s])
               /\ s \in Closing => Groups(Append(states, s)) = SubSeq(all, 1, Len(all) - 1)
               /\ s \notin DOMAIN OpenedBy \cup Closing => Groups(Append(states, s)) = all
<1> DEFINE all == Opened(states)
           longer == Append(states, s)
<1>1. states \in Seq(1 .. 60)
  BY DEF Linked
<1>2. all \in Seq(Frames)
  <2>1. SubSeq(states, 1, Len(states)) = states /\ Len(states) \in 0 .. Len(states)
    BY WholeStack
  <2> QED BY <2>1, OpenedType
<1>3. Opened(longer) = OpensNext(all, s)
  BY <1>1, OpenedAppend
<1>4. longer[Len(longer)] = s
  BY <1>1
<1> HIDE DEF all, longer
<1>5. Groups(longer) = IF s \in Closing
                       THEN SubSeq(OpensNext(all, s), 1, Len(OpensNext(all, s)) - 1)
                       ELSE OpensNext(all, s)
  BY <1>3, <1>4 DEF Groups
<1>6. CASE s \in DOMAIN OpenedBy
  BY <1>2, <1>5, <1>6, OpenersNotClosing DEF OpensNext, all, longer
<1>7. CASE s \notin DOMAIN OpenedBy
  BY <1>2, <1>5, <1>7 DEF OpensNext, all, longer
<1> QED BY <1>6, <1>7

\* No item begins between the quotes of a string.
LEMMA PlaceFrames ==
    ASSUME NEW s \in Places
    PROVE  FramesAt(s) \subseteq (Frames \cup {"file"}) \ {"string"}
<1>1. CASE s \in {1, 6}
  BY <1>1 DEF FramesAt
<1>2. CASE s \in {3, 7, 9, 14}
  BY <1>2 DEF FramesAt, Frames
<1>3. CASE s \in {4, 10, 12, 17}
  BY <1>3 DEF FramesAt, Frames
<1>4. CASE s \in {5, 8, 13, 15}
  BY <1>4 DEF FramesAt, Frames
<1>5. CASE s \in {11, 16}
  BY <1>5 DEF FramesAt, Frames
<1> QED BY <1>1, <1>2, <1>3, <1>4, <1>5 DEF Places

\* The innermost open group is one the state on top allows.
LEMMA GroupFrames ==
    ASSUME NEW states, Linked(states)
    PROVE  /\ Groups(states) \in Seq(Frames)
           /\ InnerOf(Groups(states)) \in FramesAfter(states[Len(states)])
<1> DEFINE s == states[Len(states)]
<1>1. SubSeq(states, 1, Len(states)) = states /\ Len(states) \in 1 .. Len(states)
      /\ Len(states) \in 0 .. Len(states)
  BY WholeStack
<1>2. CASE s \notin Closing
  <2>1. Groups(states) = Opened(states)
    BY <1>2 DEF Groups
  <2>2. Opened(states) \in Seq(Frames)
    BY <1>1, OpenedType
  <2>3. InnerOf(Opened(states)) \in FramesAt(s)
    BY <1>1, OpenedFrames
  <2>4. FramesAfter(s) = FramesAt(s)
    BY <1>2 DEF FramesAfter, Closing
  <2> QED BY <2>1, <2>2, <2>3, <2>4
<1>3. CASE s \in Closing
  <2>1. PICK symbol, n : Reduces(s, symbol, n) /\ (s \in {56, 57} => symbol = "interpolation")
                         /\ (s \notin {56, 57} => symbol \in ItemParts)
    <3>1. "string" \in ItemParts
      BY DEF ItemParts
    <3>2. CASE s \in {56, 57}
      <4>1. Reduces(s, "interpolation", IF s = 56 THEN 2 ELSE 3)
        BY <3>2 DEF Reduces
      <4> QED BY <3>2, <4>1
    <3>3. CASE s \in {31, 39, 45, 47}
      <4>1. Reduces(s, "string", 2)
        BY <3>1, <3>3 DEF Reduces
      <4> QED BY <3>1, <3>3, <4>1
    <3>4. CASE s \in {30, 42, 44, 50}
      <4>1. Reduces(s, "string", 3)
        BY <3>1, <3>4 DEF Reduces
      <4> QED BY <3>1, <3>4, <4>1
    <3>5. CASE s \in {48, 51, 52}
      <4>1. Reduces(s, "string", 4)
        BY <3>1, <3>5 DEF Reduces
      <4> QED BY <3>1, <3>5, <4>1
    <3> QED BY <1>3, <3>2, <3>3, <3>4, <3>5 DEF Closing
  <2> DEFINE base == Len(states) - n
  <2>2. n \in Nat /\ n < Len(states) /\ Uncovered(symbol, states[base])
        /\ Groups(states) = Opened(SubSeq(states, 1, base))
    BY <2>1, Uncovers
  <2>3. base \in 1 .. Len(states) /\ base \in 0 .. Len(states)
    BY <1>1, <2>2
  <2>4. Groups(states) \in Seq(Frames) /\ InnerOf(Groups(states)) \in FramesAt(states[base])
    BY <2>2, <2>3, OpenedType, OpenedFrames
  <2>5. FramesAt(states[base]) \subseteq FramesAfter(s)
    <3>1. CASE s \in {56, 57}
      <4>1. states[base] \in {53, 54}
        BY <2>1, <2>2, <3>1 DEF Uncovered, ItemParts
      <4>2. FramesAt(states[base]) = {"string"}
        BY <4>1 DEF FramesAt
      <4> QED BY <3>1, <4>2 DEF FramesAfter
    <3>2. CASE s \notin {56, 57}
      <4>1. states[base] \in Places
        BY <2>1, <2>2, <3>2 DEF Uncovered, ItemParts
      <4>2. FramesAt(states[base]) \subseteq (Frames \cup {"file"}) \ {"string"}
        BY <4>1, PlaceFrames
      <4> QED BY <1>3, <3>2, <4>2 DEF FramesAfter
    <3> QED BY <3>1, <3>2
  <2> QED BY <2>4, <2>5
<1> QED BY <1>2, <1>3

(***************************************************************************)
(* What the last tokens let the next one be.                               *)
(***************************************************************************)
\* The grammar names the symbols as the table does.
LEMMA SameSymbols ==
    /\ Nest!BraceOpeners = BraceOpeners /\ Nest!ParenOpeners = ParenOpeners
    /\ Nest!BracketOpeners = BracketOpeners /\ Nest!Openers = Openers
    /\ Nest!Closers = Closers /\ Nest!StringParts = StringParts
BY DEF Nest!BraceOpeners, Nest!ParenOpeners, Nest!BracketOpeners, Nest!Openers, Nest!Closers,
       Nest!StringParts, BraceOpeners, ParenOpeners, BracketOpeners, Openers, Closers,
       StringParts

\* The context when a state has just been shifted, or is made of a name's.
ContextAfter(s) ==
    CASE s \in {3, 4, 5, 22, 25, 26, 27, 28} -> "start"
      [] s = 18                              -> "module"
      [] s \in {19, 20, 21, 29}              -> "name"
      [] s = 23                              -> "container"
      [] s = 24                              -> "macro"
      [] s = 49                              -> "decorator"
      [] s = 58                              -> "event"
      [] s = 59                              -> "dot"
      [] OTHER                               -> "plain"

\* The kind is for the context no special one.
Neutral(c, k) ==
    /\ c \notin {"dot", "event"}
    /\ c = "decorator" => k # "extern"
    /\ c = "macro" => k # "container"
    /\ c \in {"module", "container", "macro"} => k # "type_identifier"

\* What the state on top knows of the context before it looks at a token.
Meets(s, t, c) ==
    \/ s # 60 /\ c = ContextAfter(s)
    \/ s \in Places \cup {2, 35, 41, 43} /\ t \in Follow /\ Neutral(c, Kind[t])
    \/ /\ s = 22 /\ c \in {"start", "module"}
       /\ t \in Follow \cup {"regex"} /\ Neutral(c, Kind[t])
    \/ s = 60 /\ t = "$end" /\ Neutral(c, Kind[t])

\* What may follow an item goes on with nothing.
LEMMA FollowKinds ==
    ASSUME NEW t \in Follow
    PROVE  t \in Tokens /\ Kind[t] \notin StringParts \cup {"regex", "DOT", "module_name_token1"}
<1>1. t \in Tokens /\ t \notin StringParts \cup {"regex", "DOT", "module_name_token1"}
  BY FollowTokens, FollowIs
<1>2. StringParts \cup {"regex", "DOT", "module_name_token1"} \subseteq Alone
  BY DEF Alone
<1> QED BY <1>1, <1>2, AloneKind

\* The context where an item may begin.
LEMMA PlaceContext ==
    ASSUME NEW s \in Places
    PROVE  ContextAfter(s) = IF s \in {3, 4, 5} THEN "start" ELSE "plain"
BY DEF ContextAfter, Places

\* Where an item may begin the context singles out no kind the table does not.
LEMMA PlacesNeutral ==
    ASSUME NEW s \in Places, NEW t, NEW c, Meets(s, t, c)
    PROVE  Neutral(c, Kind[t])
<1>1. s # 22 /\ s # 60
  BY DEF Places
<1> QED BY <1>1, PlaceContext DEF Meets, Neutral

\* Such a kind leads to the context it always leads to.
LEMMA NeutralUsual ==
    ASSUME NEW k, Neutral(context, k)
    PROVE  Nest!NextContext(k) = Nest!Following(k)
BY DEF Neutral, Nest!NextContext

\* The first token of an item leads to the context its state stands for.
LEMMA HeadsContext ==
    ASSUME NEW k, NEW to, Heads(k, to)
    PROVE  Nest!Following(k) = ContextAfter(to)
<1>1. CASE k \in Openers
  BY <1>1, SameSymbols DEF Heads, Nest!Following, ContextAfter, Openers, BraceOpeners, BracketOpeners, ParenOpeners
<1>2. CASE k \notin Openers
  BY <1>2, SameSymbols DEF Heads, Nest!Following, ContextAfter, Openers
<1> QED BY <1>1, <1>2

\* So does an item of one token.
LEMMA OnwardContext ==
    ASSUME NEW s \in Places,
           NEW k \in {"item", "identifier", "type_identifier", "newline", "comment"}
    PROVE  Nest!Following(k) = ContextAfter(Onward(s))
<1>1. k \notin Openers
  BY DEF Openers, BraceOpeners, BracketOpeners, ParenOpeners
<1>2. Onward(s) \in {2, 6, 8, 9, 10, 13, 14, 16, 17}
  BY DEF Onward
<1> QED BY <1>1, <1>2, SameSymbols DEF Nest!Following, ContextAfter

\* So does any token that is shifted: the context keeps what the state knows.
LEMMA ShiftContext ==
    ASSUME NEW s, NEW t \in Tokens, NEW to, Meets(s, t, context), Shifts(s, Kind[t], to)
    PROVE  Nest!NextContext(Kind[t]) = ContextAfter(to)
<1> DEFINE k == Kind[t]
<1> SUFFICES Nest!NextContext(k) = ContextAfter(to)
  OBVIOUS
<1>1. CASE s \in Places /\ Heads(k, to)
  BY <1>1, PlacesNeutral, NeutralUsual, HeadsContext
<1>2. CASE s \in Places /\ k \in {"item", "identifier", "type_identifier", "newline", "comment"}
       /\ to = Onward(s)
  BY <1>2, PlacesNeutral, NeutralUsual, OnwardContext
<1>3. CASE Ending(s, k, to)
  BY SameSymbols, <1>3 DEF Ending, Nest!NextContext, Nest!Following, ContextAfter, Openers, BraceOpeners, BracketOpeners,
              ParenOpeners
<1>4. CASE Regex(s, k, to)
  BY SameSymbols, <1>4 DEF Regex, Nest!NextContext, Nest!Following, ContextAfter, Openers, BraceOpeners, BracketOpeners,
              ParenOpeners
<1>5. CASE Continues(s, k, to)
  <2>1. k \notin Openers
    BY <1>5 DEF Continues, Openers, BraceOpeners, BracketOpeners, ParenOpeners
  <2>2. context = ContextAfter(s)
    BY <1>5 DEF Continues, Meets, Places
  <2> HIDE DEF k
  <2> QED BY SameSymbols, <1>5, <2>1, <2>2 DEF Continues, Nest!NextContext, Nest!Following, ContextAfter
<1> QED BY <1>1, <1>2, <1>3, <1>4, <1>5 DEF Shifts

\* The grammar's innermost group is that of the stack.
LEMMA InnerIs == Nest!Inner = InnerOf(Open)
BY DEF Nest!Inner, InnerOf

\* Allowed, case by case.
LEMMA AllowedIs ==
    ASSUME NEW k
    PROVE  LET inner == InnerOf(Open)
               free  == inner # "string" /\ context \notin {"dot", "event"}
           IN  /\ inner = "string" => (Nest!Allowed(k) <=> k \in StringParts)
               /\ inner # "string" /\ context = "dot"
                    => (Nest!Allowed(k) <=> k = "module_name_token1")
               /\ inner # "string" /\ context = "event"
                    => (Nest!Allowed(k) <=> k \in {"identifier", "type_identifier"})
               /\ free /\ k = "regex" => (Nest!Allowed(k) <=> context \in {"start", "module"})
               /\ free /\ k = "DOT" => (Nest!Allowed(k) <=> context = "name")
               /\ free /\ k \in Closers => (Nest!Allowed(k) <=> inner \in Nest!Closes[k])
               /\ free /\ k = "$end" => (Nest!Allowed(k) <=> Open = <<>>)
               /\ free /\ k \notin {"regex", "DOT", "$end"} \cup Closers
                    => (Nest!Allowed(k) <=> k \notin StringParts \cup {"module_name_token1"})
<1> DEFINE inner == InnerOf(Open)
<1>1. Nest!Inner = inner
  BY InnerIs
<1>2. "regex" \notin Closers /\ "DOT" \notin Closers /\ "$end" \notin Closers
  BY DEF Closers
<1> HIDE DEF inner
<1>3. inner = "string" => (Nest!Allowed(k) <=> k \in StringParts)
  BY <1>1, SameSymbols DEF Nest!Allowed
<1>4. inner # "string" /\ context = "dot" => (Nest!Allowed(k) <=> k = "module_name_token1")
  BY <1>1 DEF Nest!Allowed
<1>5. inner # "string" /\ context = "event"
        => (Nest!Allowed(k) <=> k \in {"identifier", "type_identifier"})
  BY <1>1 DEF Nest!Allowed
<1> DEFINE free == inner # "string" /\ context \notin {"dot", "event"}
<1>6. free => (Nest!Allowed(k) <=> Nest!AllowedItem(k))
  BY <1>1 DEF Nest!Allowed
<1>7. Nest!AllowedItem(k) <=>
        CASE k = "regex"    -> context \in {"start", "module"}
          [] k = "DOT"      -> context = "name"
          [] k \in Closers  -> inner \in Nest!Closes[k]
          [] k = "$end"     -> Open = <<>>
          [] OTHER          -> k \notin StringParts \cup {"module_name_token1"}
  BY <1>1, SameSymbols DEF Nest!AllowedItem
<1>8. /\ k = "regex" => (Nest!AllowedItem(k) <=> context \in {"start", "module"})
      /\ k = "DOT" => (Nest!AllowedItem(k) <=> context = "name")
      /\ k \in Closers => (Nest!AllowedItem(k) <=> inner \in Nest!Closes[k])
      /\ k = "$end" => (Nest!AllowedItem(k) <=> Open = <<>>)
      /\ k \notin {"regex", "DOT", "$end"} \cup Closers
           => (Nest!AllowedItem(k) <=> k \notin StringParts \cup {"module_name_token1"})
  BY <1>2, <1>7
<1> QED BY <1>3, <1>4, <1>5, <1>6, <1>8 DEF inner

\* Which groups each closer closes.
LEMMA ClosesIs ==
    /\ Nest!Closes["RBRACE"] = {"brace", "interpolation"} /\ Nest!Closes["RPAREN"] = {"paren"}
    /\ Nest!Closes["RBRACK"] = {"bracket"} /\ Nest!Closes["DQUOTE2"] = {"string"}
    /\ DOMAIN Nest!Closes = Closers \cup {"DQUOTE2"}
<1>1. Closers = {"RBRACE", "RPAREN", "RBRACK"}
  BY DEF Closers
<1> QED BY <1>1, SameSymbols DEF Nest!Closes

\* What the parser shifts the grammar allows.
LEMMA ShiftAllowed ==
    ASSUME NEW s, NEW t \in Tokens, NEW to, Meets(s, t, context), Shifts(s, Kind[t], to),
           InnerOf(Open) \in FramesAfter(s)
    PROVE  Nest!Allowed(Kind[t])
<1> DEFINE k == Kind[t]
<1> SUFFICES Nest!Allowed(k)
  OBVIOUS
<1>0. s \in Places => FramesAfter(s) = FramesAt(s) /\ "string" \notin FramesAt(s)
  BY PlaceFrames DEF FramesAfter, Places, Closing
<1>1. CASE s \in Places /\ Heads(k, to)
  <2>1. k \notin {"regex", "DOT", "$end", "module_name_token1"} \cup Closers \cup StringParts
    BY <1>1 DEF Heads, Closers, StringParts, BraceOpeners, BracketOpeners, ParenOpeners
  <2>2. context \notin {"dot", "event"}
    BY <1>1, PlacesNeutral DEF Neutral
  <2> HIDE DEF k
  <2> QED BY <1>0, <1>1, <2>1, <2>2, AllowedIs
<1>2. CASE s \in Places /\ k \in {"item", "identifier", "type_identifier", "newline", "comment"}
       /\ to = Onward(s)
  <2>1. k \notin {"regex", "DOT", "$end", "module_name_token1"} \cup Closers \cup StringParts
    BY <1>2 DEF Closers, StringParts
  <2>2. context \notin {"dot", "event"}
    BY <1>2, PlacesNeutral DEF Neutral
  <2> HIDE DEF k
  <2> QED BY <1>0, <1>2, <2>1, <2>2, AllowedIs
<1>3. CASE Ending(s, k, to) /\ s \in Places
  <2>1. context \notin {"dot", "event"}
    BY <1>3, PlacesNeutral DEF Neutral
  <2>2. k \in Closers /\ InnerOf(Open) \in Nest!Closes[k]
    <3>1. CASE k = "RBRACE"
      <4>1. FramesAt(s) \subseteq {"brace", "interpolation"}
        BY <1>3, <3>1 DEF Ending, FramesAt
      <4> QED BY <1>0, <1>3, <3>1, <4>1, ClosesIs DEF Closers
    <3>2. CASE k = "RPAREN"
      <4>1. FramesAt(s) \subseteq {"paren"}
        BY <1>3, <3>2 DEF Ending, FramesAt
      <4> QED BY <1>0, <1>3, <3>2, <4>1, ClosesIs DEF Closers
    <3>3. CASE k = "RBRACK"
      <4>1. FramesAt(s) \subseteq {"bracket"}
        BY <1>3, <3>3 DEF Ending, FramesAt
      <4> QED BY <1>0, <1>3, <3>3, <4>1, ClosesIs DEF Closers
    <3> QED BY <1>3, <3>1, <3>2, <3>3 DEF Ending, Places
  <2>3. k \notin {"regex", "DOT"}
    BY <2>2 DEF Closers
  <2> HIDE DEF k
  <2> QED BY <1>0, <1>3, <2>1, <2>2, <2>3, AllowedIs
<1>4. CASE s \in {53, 54}
  <2>1. k \in StringParts
    BY <1>4 DEF Shifts, Places, Ending, Regex, Continues, StringParts
  <2>2. FramesAfter(s) = {"string"}
    BY <1>4 DEF FramesAfter, FramesAt, Closing
  <2> HIDE DEF k
  <2> QED BY <2>1, <2>2, AllowedIs
<1>5. CASE Regex(s, k, to)
  <2>1. s \in {3, 4, 5, 22} /\ k = "regex" /\ t = "regex"
    <3>1. "regex" \in Alone
      BY DEF Alone
    <3> QED BY <1>5, <3>1, AloneKind DEF Regex
  <2>2. "string" \notin FramesAfter(s)
    BY <2>1 DEF FramesAfter, FramesAt, Closing
  <2>3. "regex" \notin Follow
    BY AloneTokens, FollowIs DEF Alone
  <2>4. context \in {"start", "module"}
    BY <2>1, <2>3 DEF Meets, ContextAfter, Places
  <2> HIDE DEF k
  <2> QED BY <2>1, <2>2, <2>4, AllowedIs
<1>6. CASE Continues(s, k, to) /\ s \notin {53, 54}
  <2>1. context = ContextAfter(s)
    BY <1>6 DEF Continues, Meets, Places
  <2>2. "string" \notin FramesAfter(s)
    BY <1>6 DEF Continues, FramesAfter, FramesAt, Closing
  <2>3. k \notin Closers \cup StringParts \cup {"regex", "$end"}
    BY <1>6 DEF Continues, Closers, StringParts
  <2> HIDE DEF k
  <2> QED BY <1>6, <2>1, <2>2, <2>3, AllowedIs DEF Continues, ContextAfter
<1> QED BY <1>1, <1>2, <1>3, <1>4, <1>5, <1>6 DEF Shifts, Ending, Places

\* The group of the states that are in one by themselves.
LEMMA FramesOfPlaces ==
    ASSUME NEW s
    PROVE  /\ s \in {1, 6} => FramesAt(s) = {"file"}
           /\ s \in {3, 7, 9, 14} => FramesAt(s) = {"brace"}
           /\ s \in {4, 10, 12, 17} => FramesAt(s) = {"bracket"}
           /\ s \in {5, 8, 13, 15} => FramesAt(s) = {"paren"}
           /\ s \in {11, 16} => FramesAt(s) = {"interpolation"}
<1>1. CASE s \in {1, 6}
  BY <1>1 DEF FramesAt
<1>2. CASE s \in {3, 7, 9, 14}
  BY <1>2 DEF FramesAt
<1>3. CASE s \in {4, 10, 12, 17}
  BY <1>3 DEF FramesAt
<1>4. CASE s \in {5, 8, 13, 15}
  BY <1>4 DEF FramesAt
<1>5. CASE s \in {11, 16}
  BY <1>5 DEF FramesAt
<1>6. CASE s \notin {1, 6, 3, 7, 9, 14, 4, 10, 12, 17, 5, 8, 13, 15, 11, 16}
  BY <1>6
<1> QED BY <1>1, <1>2, <1>3, <1>4, <1>5, <1>6

\* The states that are never between the quotes of a string.
LEMMA FramesElsewhere ==
    ASSUME NEW s \in {2, 58, 59} \cup 18 .. 52
    PROVE  "string" \notin FramesAfter(s)
<1>1. s \notin {56, 57}
  OBVIOUS
<1>2. CASE s \in Closing
  BY <1>1, <1>2 DEF FramesAfter
<1>3. CASE s \notin Closing
  <2>1. FramesAt(s) = (Frames \cup {"file"}) \ {"string"}
    <3>1. s \notin {1, 6, 60, 3, 7, 9, 14, 42, 45, 48, 4, 10, 12, 17, 30, 31, 52, 5, 8, 13, 15,
                    44, 47, 51, 11, 16, 56, 57, 53, 54, 55, 39, 50}
      BY <1>3 DEF Closing
    <3> QED BY <3>1 DEF FramesAt
  <2> QED BY <1>1, <1>3, <2>1 DEF FramesAfter
<1> QED BY <1>2, <1>3

\* What the table has no action for the grammar does not allow.
LEMMA RejectRefused ==
    ASSUME NEW s \in 1 .. 60, NEW t \in Tokens, Meets(s, t, context), ~Handles(s, t),
           Open \in Seq(Frames), InnerOf(Open) \in FramesAfter(s)
    PROVE  ~Nest!Allowed(Kind[t])
<1> DEFINE k == Kind[t]
           inner == InnerOf(Open)
<1> SUFFICES ~Nest!Allowed(k)
  OBVIOUS
<1>1. t \in Alone => k = t
  BY AloneKind
<1>2. Open = <<>> => inner = "file"
  BY DEF InnerOf
<1>3. t \in StringParts \cup {"regex", "DOT", "module_name_token1"}
        => t \notin Follow /\ t \in Alone
  BY FollowIs DEF Alone
<1>4. CASE s \in {2} \cup 18 .. 52
  <2>1. t \in StringParts \cup {"regex", "DOT", "module_name_token1"}
    BY <1>4, FollowIs DEF Handles
  <2>2. inner # "string"
    BY <1>4, FramesElsewhere
  <2>3. k = t /\ k \notin Closers \cup {"$end"}
    BY <1>1, <1>3, <2>1 DEF Closers, StringParts
  <2>4. (context \in {"start", "module"} /\ s = 22) \/ context = ContextAfter(s)
    BY <1>3, <1>4, <2>1 DEF Meets, Places
  <2>5. context \notin {"dot", "event"}
    <3>1. s \notin {58, 59}
      BY <1>4
    <3>2. ContextAfter(s) \notin {"dot", "event"}
      BY <3>1 DEF ContextAfter
    <3> QED BY <2>4, <3>2
  <2>6. t = "regex" => context \notin {"start", "module"}
    BY <1>4, <2>4 DEF ContextAfter, Handles
  <2>7. t = "DOT" => context # "name"
    BY <1>4, <2>4 DEF ContextAfter, Handles
  <2> HIDE DEF k, inner
  <2> QED BY <2>1, <2>2, <2>3, <2>5, <2>6, <2>7, AllowedIs DEF inner
<1>5. CASE s \in Places
  <2>1. t \notin ItemStarts
    BY <1>5 DEF Handles
  <2>2. t \in Closers \cup StringParts \cup {"regex", "DOT", "module_name_token1", "$end"}
    BY <2>1 DEF Tokens
  <2>3. t \in Alone /\ k = t
    BY <1>1, <2>2 DEF Alone
  <2>4. inner # "string"
    BY <1>5, PlaceFrames DEF FramesAfter, Places, Closing
  <2>5. context \notin {"dot", "event"}
    BY <1>5, PlacesNeutral DEF Neutral
  <2>6. FramesAfter(s) = FramesAt(s)
    BY <1>5 DEF FramesAfter, Places, Closing
  <2>7. CASE t \in Closers
    <3>1. inner \notin Nest!Closes[t]
      <4>1. CASE t = "RBRACE"
        <5>1. s \notin {3, 7, 9, 11, 14, 16}
          BY <4>1 DEF Handles
        <5>2. inner \notin {"brace", "interpolation"}
          BY <1>5, <2>6, <5>1, FramesOfPlaces DEF Places
        <5> QED BY <4>1, <5>2, ClosesIs
      <4>2. CASE t = "RBRACK"
        <5>1. s \notin {4, 10, 12, 17}
          BY <4>2 DEF Handles
        <5>2. inner # "bracket"
          BY <1>5, <2>6, <5>1, FramesOfPlaces DEF Places
        <5> QED BY <4>2, <5>2, ClosesIs
      <4>3. CASE t = "RPAREN"
        <5>1. s \notin {5, 8, 13, 15}
          BY <4>3 DEF Handles
        <5>2. inner # "paren"
          BY <1>5, <2>6, <5>1, FramesOfPlaces DEF Places
        <5> QED BY <4>3, <5>2, ClosesIs
      <4> QED BY <2>7, <4>1, <4>2, <4>3 DEF Closers
    <3> HIDE DEF k, inner
    <3> QED BY <2>3, <2>4, <2>5, <2>7, <3>1, AllowedIs DEF inner
  <2>8. CASE t = "$end"
    <3>1. s \notin {1, 6}
      BY <2>8 DEF Handles
    <3>2. inner # "file"
      BY <1>5, <2>6, <3>1, FramesOfPlaces DEF Places
    <3>3. "$end" \notin Closers
      BY DEF Closers
    <3> HIDE DEF k, inner
    <3> QED BY <1>2, <2>3, <2>4, <2>5, <2>8, <3>2, AllowedIs DEF inner
  <2>9. CASE t \in StringParts \cup {"regex", "DOT", "module_name_token1"}
    <3>1. context = ContextAfter(s)
      BY <1>3, <1>5, <2>9 DEF Meets, Places
    <3>2. t = "regex" => context = "plain"
      BY <1>5, <3>1, PlaceContext DEF Handles
    <3>3. context # "name"
      BY <1>5, <3>1, PlaceContext
    <3>4. t \notin Closers \cup {"$end"}
      BY <2>9 DEF Closers, StringParts
    <3> HIDE DEF k, inner
    <3> QED BY <2>3, <2>4, <2>5, <2>9, <3>2, <3>3, <3>4, AllowedIs DEF inner
  <2> QED BY <2>2, <2>7, <2>8, <2>9
<1>6. CASE s \in 53 .. 57
  <2>1. inner = "string"
    BY <1>6 DEF FramesAfter, FramesAt, Closing
  <2>2. t \notin StringParts
    BY <1>6 DEF Handles
  <2>3. k \notin StringParts
    <3>1. ASSUME k \in StringParts PROVE FALSE
      <4>1. k \in Alone
        BY <3>1 DEF Alone
      <4>2. t = k
        BY <4>1, AloneKind
      <4> QED BY <2>2, <3>1, <4>2
    <3> QED BY <3>1
  <2> HIDE DEF k, inner
  <2> QED BY <2>1, <2>3, AllowedIs DEF inner
<1>7. CASE s \in {58, 59}
  <2>1. context = ContextAfter(s)
    BY <1>7 DEF Meets, Places
  <2>2. inner # "string"
    BY <1>7, FramesElsewhere
  <2>3. CASE s = 58
    <3>1. t \notin {"identifier", "type_identifier"} /\ context = "event"
      BY <2>1, <2>3 DEF Handles, ContextAfter
    <3>2. k \notin {"identifier", "type_identifier"}
      BY <3>1, AloneKind DEF Alone
    <3> HIDE DEF k, inner
    <3> QED BY <2>2, <3>1, <3>2, AllowedIs DEF inner
  <2>4. CASE s = 59
    <3>1. t # "module_name_token1" /\ context = "dot"
      BY <2>1, <2>4 DEF Handles, ContextAfter
    <3>2. k # "module_name_token1"
      BY <3>1, AloneKind DEF Alone
    <3> HIDE DEF k, inner
    <3> QED BY <2>2, <3>1, <3>2, AllowedIs DEF inner
  <2> QED BY <1>7, <2>3, <2>4
<1>8. CASE s = 60
  BY <1>8 DEF Meets, Handles, Places
<1> QED BY <1>4, <1>5, <1>6, <1>7, <1>8 DEF Places

\* Only a container has the kind of containers.
LEMMA ContainerKind ==
    ASSUME NEW t \in Tokens, t \notin Containers
    PROVE  Kind[t] # "container"
<1>1. "container" \notin Tokens
  BY GroupedAreNoTokens DEF Grouped
<1> QED BY <1>1, KindOf

\* What a reduction leaves to the token that follows.
LEMMA ReduceMeets ==
    ASSUME NEW s, NEW t \in Tokens, NEW symbol, NEW n, NEW u, NEW to, Meets(s, t, context),
           Reduces(s, symbol, n), ReducesOn(s, t), Uncovered(symbol, u), Goes(u, symbol, to)
    PROVE  Meets(to, t, context)
<1> DEFINE k == Kind[t]
<1>1. CASE s \in {1, 6}
  <2>1. symbol = "source_file" /\ t = "$end" /\ u = 1 /\ to = 60
    BY <1>1 DEF Reduces, ReducesOn, Uncovered, Goes, ItemParts
  <2>2. Neutral(context, k)
    BY <1>1, PlacesNeutral DEF Places
  <2> QED BY <2>1, <2>2 DEF Meets
<1>2. CASE s = 55
  <2>1. symbol = "string_repeat1" /\ u = 54 /\ to = 53
    BY <1>2 DEF Reduces, Uncovered, Goes, ItemParts, Places
  <2> QED BY <1>2, <2>1 DEF Meets, ContextAfter, Places
<1>3. CASE s \in {56, 57}
  <2>1. symbol = "interpolation" /\ u \in {53, 54} /\ to \in {53, 55}
    BY <1>3 DEF Reduces, Uncovered, Goes, ItemParts, Places
  <2> QED BY <1>3, <2>1 DEF Meets, ContextAfter, Places
<1>4. CASE s \in {19, 20, 21, 29}
  <2>1. context = "name"
    BY <1>4 DEF Meets, ContextAfter, Places
  <2>2. \/ symbol = "module_name" /\ to \in {35, 41, 43} /\ t \in Follow
        \/ symbol = "module_name_repeat1" /\ to \in {20, 21}
    BY <1>4 DEF Reduces, ReducesOn, Uncovered, Goes, ItemParts, Places
  <2> QED BY <2>1, <2>2 DEF Meets, ContextAfter, Neutral
<1>5. CASE s \in {18, 25, 26, 27, 28}
  <2>1. symbol \in {"keyword", "punctuation"} /\ to = 22
    BY <1>5 DEF Reduces, Uncovered, Goes, ItemParts, Places
  <2>2. t \in Follow \cup {"regex"} /\ (s = 18 => t # "type_identifier")
    BY <1>5 DEF ReducesOn
  <2>3. context = ContextAfter(s)
    BY <1>5 DEF Meets, Places
  <2>4. s = 18 => k # "type_identifier"
    <3>1. "type_identifier" \in Alone
      BY DEF Alone
    <3> QED BY <2>2, <3>1, AloneKind
  <2> QED BY <1>5, <2>1, <2>2, <2>3, <2>4 DEF Meets, ContextAfter, Neutral
<1>6. CASE s \in {2, 22, 23, 24, 49} \cup 30 .. 48 \cup 50 .. 52
  <2>1. symbol \in ItemParts
    <3>1. "_regex_start" \in ItemParts /\ "source_file_repeat1" \in ItemParts
      BY DEF ItemParts
    <3> QED BY <1>6, <3>1 DEF Reduces
  <2>2. u \in Places /\ to = Onward(u)
    BY <2>1 DEF Uncovered, Goes, ItemParts, Places
  <2>3. to \in Places \cup {2}
    BY <2>2 DEF Onward, Places
  <2>4. t \in Follow /\ (s = 23 => t # "type_identifier") /\ (s = 49 => t # "extern")
        /\ (s = 24 => t # "type_identifier" /\ t \notin Containers)
    BY <1>6 DEF ReducesOn
  <2>5. Neutral(context, k)
    <3>1. /\ s = 23 => k # "type_identifier"
          /\ s = 24 => k \notin {"type_identifier", "container"}
          /\ s = 49 => k # "extern"
      <4>1. "type_identifier" \in Alone /\ "extern" \in Alone
        BY DEF Alone
      <4>2. (t # "type_identifier" => k # "type_identifier") /\ (t # "extern" => k # "extern")
        BY <4>1, AloneKind
      <4>3. t \notin Containers => k # "container"
        BY ContainerKind
      <4> HIDE DEF k
      <4> QED BY <2>4, <4>2, <4>3
    <3>2. CASE context = ContextAfter(s)
      BY <1>6, <3>1, <3>2 DEF ContextAfter, Neutral
    <3> QED BY <1>6, <3>2 DEF Meets
  <2> QED BY <2>3, <2>4, <2>5 DEF Meets
<1> QED BY <1>1, <1>2, <1>3, <1>4, <1>5, <1>6 DEF Reduces

\* What the parser has and knows between two steps.
Parsing ==
    /\ Linked(stack)
    /\ token \in Tokens \cup {None} /\ scan.mark \in Tokens \cup {None}
    /\ outcome \in {"reading", "accepted", "rejected"}
    /\ outcome = "reading" => Meets(Top, token, context)

\* The keywords the lexer tells apart are tokens.
LEMMA RecognisedTokens ==
    ASSUME NEW n \in DOMAIN Recognised
    PROVE  Recognised[n] \subseteq Tokens
<1>1. DOMAIN Recognised = DOMAIN Trie
  BY DEF Recognised
<1>2. Recognised[n] \subseteq Reserved
  BY <1>1 DEF Recognised, Reserved, Keywords, TypeKinds, PlainKeywords, Containers, Booleans
<1>3. Reserved \subseteq Tokens
  BY DEF Reserved, Tokens, ItemStarts, Simple
<1> QED BY <1>2, <1>3

\* What the scanner accepts are tokens.
LEMMA AcceptsTokens == \A s \in DOMAIN Accepts : Accepts[s] \in Tokens
<1>1. /\ "$end" \in Tokens /\ "AT" \in Tokens /\ "LBRACE" \in Tokens
      /\ "PERCENT_LBRACE" \in Tokens /\ "RBRACE" \in Tokens /\ "LPAREN" \in Tokens
      /\ "DOLLAR_LPAREN" \in Tokens /\ "RPAREN" \in Tokens /\ "LBRACK" \in Tokens
      /\ "PERCENT_LBRACK" \in Tokens /\ "RBRACK" \in Tokens /\ "EQ" \in Tokens
      /\ "DASH_GT" \in Tokens /\ "EQ_GT" \in Tokens /\ "COLON" \in Tokens
      /\ "PIPE" \in Tokens /\ "PIPE_GT" \in Tokens /\ "DOT" \in Tokens
      /\ "module_name_token1" \in Tokens /\ "DASH_DASH" \in Tokens /\ "DASH_DASH_GT" \in Tokens
      /\ "BANG_DASH_DASH_GT" \in Tokens /\ "newline" \in Tokens /\ "identifier" \in Tokens
      /\ "type_identifier" \in Tokens /\ "quoted_identifier" \in Tokens /\ "hole" \in Tokens
      /\ "atom" \in Tokens /\ "number" \in Tokens /\ "DQUOTE" \in Tokens
      /\ "DQUOTE2" \in Tokens /\ "string_content" \in Tokens /\ "escape_sequence" \in Tokens
      /\ "POUND_LBRACE" \in Tokens /\ "char" \in Tokens /\ "regex" \in Tokens
      /\ "comment" \in Tokens /\ "doc_comment" \in Tokens /\ "operator" \in Tokens
      /\ "COMMA" \in Tokens /\ "SEMI" \in Tokens
  BY DEF Tokens, ItemStarts, Simple, Starters, Punctuation, Arrows, Openers, BraceOpeners,
         ParenOpeners, BracketOpeners, Closers, StringParts
<1>2. \A s \in 20 .. 41 : AcceptsSymbols[s] \in Tokens
  BY <1>1 DEF AcceptsSymbols
<1>3. \A s \in 42 .. 91 : AcceptsClasses[s] \in Tokens
  BY <1>1 DEF AcceptsClasses
<1>4. /\ DOMAIN AcceptsSymbols = 20 .. 41
      /\ DOMAIN AcceptsClasses = 42 .. 91
  BY DEF AcceptsSymbols, AcceptsClasses
<1> QED BY <1>2, <1>3, <1>4 DEF Accepts, ++

\* So is what it makes of a word.
LEMMA CapturedTokens ==
    ASSUME NEW mark \in Tokens, NEW word
    PROVE  Captured(mark, word) \in Tokens
<1>1. CASE Recognises(word)
  <2>1. DOMAIN Recognised = DOMAIN Trie
    BY DEF Recognised
  <2>2. word \in Tokens
    BY <1>1, <2>1, RecognisedTokens DEF Recognises
  <2> QED BY <2>2 DEF Captured
<1>2. CASE ~Recognises(word)
  BY <1>2 DEF Captured
<1> QED BY <1>1, <1>2

\* An element of a sequence.
LEMMA Element ==
    ASSUME NEW S, NEW seq \in Seq(S), NEW n \in 1 .. Len(seq)
    PROVE  seq[n] \in S
OBVIOUS

\* An element of a linked stack.
LEMMA LinkedState ==
    ASSUME NEW states, Linked(states), NEW n \in 1 .. Len(states)
    PROVE  states[n] \in 1 .. 60
<1>1. states \in Seq(1 .. 60)
  BY DEF Linked
<1> QED BY <1>1, Element

\* The row the parser looks at has the entries Entry and Handles say.
LEMMA TopRow ==
    ASSUME Linked(stack)
    PROVE  /\ Top \in 1 .. 60 /\ Row = Table[Top]
           /\ RowFits(Top, Row) /\ RowCovers(Top, Row)
<1>1. Top \in 1 .. 60
  <2>1. Len(stack) \in 1 .. Len(stack)
    BY WholeStack
  <2>2. stack[Len(stack)] \in 1 .. 60
    BY <2>1, LinkedState
  <2> QED BY <2>2 DEF Top
<1>2. Top \in 0 .. 60
  BY <1>1
<1>3. RowIs(Top, Table[Top])
  BY <1>2, TableIs
<1> QED BY <1>1, <1>3 DEF Row, RowIs

\* The groups that are open, and the innermost of them.
LEMMA TopFrames ==
    ASSUME Linked(stack)
    PROVE  Open \in Seq(Frames) /\ InnerOf(Open) \in FramesAfter(Top)
BY OpenIs, GroupFrames DEF Top

(***************************************************************************)
(* The steps of the parser.                                                *)
(***************************************************************************)
\* A shift pushes a state that may lie on the top and takes a token it may take.
LEMMA Shifting ==
    ASSUME Parsing, ShiftToken
    PROVE  LET to == Row[token].to
           IN  /\ token \in Tokens /\ Shifts(Top, Kind[token], to)
               /\ to \in 1 .. 60 /\ Below(Top, to) /\ Meets(Top, token, context)
               /\ stack' = Append(stack, to) /\ Linked(stack') /\ Top' = to
<1> DEFINE to == Row[token].to
<1>1. token \in DOMAIN Row /\ Row[token].do = "shift" /\ outcome = "reading"
      /\ stack' = Append(stack, to)
  BY DEF ShiftToken, Doing
<1>2. Linked(stack) /\ Meets(Top, token, context)
  BY <1>1 DEF Parsing
<1>3. Entry(Top, token, Row[token])
  BY <1>1, <1>2, TopRow DEF RowFits
<1>4. token \in Tokens /\ Shifts(Top, Kind[token], to)
  BY <1>1, <1>3 DEF Entry
<1> HIDE DEF to
<1>5. Below(Top, to) /\ to \in 1 .. 60
  BY <1>4, ShiftsBelow
<1>6. Linked(stack')
  BY <1>1, <1>2, <1>5, LinkedAppend DEF Top
<1>7. Top' = to
  <2>1. stack \in Seq(1 .. 60)
    BY <1>2 DEF Linked
  <2>2. stack'[Len(stack')] = to
    BY <1>1, <1>5, <2>1
  <2> QED BY <2>2 DEF Top
<1> QED BY <1>1, <1>2, <1>4, <1>5, <1>6, <1>7 DEF to

\* Where a goto leads opens and closes nothing.
LEMMA GoesNeither ==
    ASSUME NEW symbol, NEW u, NEW to, Uncovered(symbol, u), Goes(u, symbol, to)
    PROVE  to \notin DOMAIN OpenedBy \cup Closing
<1>1. CASE u \in Places /\ symbol \in ItemParts /\ to = Onward(u)
  BY <1>1, OpeningStates DEF Onward, Places, Closing
<1>2. CASE u \in Places /\ symbol \in {"keyword", "punctuation"} /\ to = 22
  BY <1>2, OpeningStates DEF Closing
<1>3. CASE u \notin Places
  BY <1>3, OpeningStates DEF Uncovered, Goes, Closing, ItemParts
<1>4. CASE u = 1 /\ symbol = "source_file" /\ to = 60
  BY <1>4, OpeningStates DEF Closing
<1> QED BY <1>1, <1>2, <1>3, <1>4 DEF Goes, Places

\* No token is a nonterminal.
LEMMA SymbolsAreNoTokens ==
    ASSUME NEW s, NEW symbol, NEW n, Reduces(s, symbol, n)
    PROVE  symbol \notin Tokens /\ symbol # "$end"
<1>1. symbol \in ItemParts \cup {"source_file", "keyword", "punctuation", "module_name",
                "module_name_repeat1", "string_repeat1", "interpolation"}
  <2>1. "_regex_start" \in ItemParts /\ "source_file_repeat1" \in ItemParts
    BY DEF ItemParts
  <2> QED BY <2>1 DEF Reduces
<1> QED BY <1>1 DEF ItemParts, Tokens, ItemStarts, Simple, Keywords, TypeKinds, PlainKeywords,
           Containers, Booleans, Starters, Punctuation, Arrows, Openers, BraceOpeners,
           ParenOpeners, BracketOpeners, Closers, StringParts

\* OpenIs, after a step.
LEMMA OpenIsPrimed == Open' = Groups(stack')
BY DEF Open, Groups, Top

\* What a reduction takes off the stack and where it goes.
LEMMA Reduction ==
    ASSUME Parsing, ReduceItem
    PROVE  LET symbol == Row[token].to
               n == Row[token].length
               base == Len(stack) - n
               rest == SubSeq(stack, 1, base)
               to == Top'
           IN  /\ token \in Tokens /\ token' = token
               /\ Linked(stack) /\ Meets(Top, token, context)
               /\ Reduces(Top, symbol, n) /\ ReducesOn(Top, token)
               /\ n \in Nat /\ base \in 1 .. Len(stack)
               /\ Linked(rest) /\ Len(rest) = base /\ rest[base] = stack[base]
               /\ Groups(stack) = Opened(rest)
               /\ Uncovered(symbol, stack[base]) /\ Goes(stack[base], symbol, to)
               /\ Below(stack[base], to) /\ to \in 1 .. 60
               /\ stack' = Append(rest, to) /\ Linked(stack')
<1> DEFINE symbol == Row[token].to
           n == Row[token].length
           base == Len(stack) - n
           rest == SubSeq(stack, 1, base)
           u == stack[base]
           to == Table[rest[Len(rest)]][symbol].to
<1>1. /\ token \in DOMAIN Row /\ Row[token].do = "reduce" /\ outcome = "reading"
      /\ symbol \in DOMAIN Table[rest[Len(rest)]]
      /\ stack' = Append(rest, to) /\ token' = token
  BY DEF ReduceItem, Doing
<1>2. Linked(stack) /\ Meets(Top, token, context)
  BY <1>1 DEF Parsing
<1>3. Entry(Top, token, Row[token])
  BY <1>1, <1>2, TopRow DEF RowFits
<1>4. token \in Tokens /\ ReducesOn(Top, token) /\ Reduces(Top, symbol, n)
  BY <1>1, <1>3 DEF Entry
<1>5. n \in Nat /\ n < Len(stack) /\ Uncovered(symbol, u)
      /\ Groups(stack) = Opened(rest)
  BY <1>2, <1>4, Uncovers DEF Top
<1>6. base \in 1 .. Len(stack)
  BY <1>2, <1>5 DEF Linked
<1>7. Linked(rest) /\ Len(rest) = base /\ rest[base] = u
  BY <1>2, <1>6, LinkedPrefix
<1>8. u \in 1 .. 60 /\ u \in 0 .. 60 /\ u # 0
  <2>1. u \in 1 .. 60
    BY <1>2, <1>6, LinkedState
  <2> HIDE DEF u
  <2> QED BY <2>1
<1>9. Goes(u, symbol, to)
  <2>1. Entry(u, symbol, Table[u][symbol])
    BY <1>1, <1>7, <1>8, TableIs DEF RowIs, RowFits
  <2>2. symbol \notin Tokens /\ symbol # "$end"
    BY <1>4, SymbolsAreNoTokens
  <2>3. u # 0
    BY <1>8
  <2> HIDE DEF u, symbol
  <2>4. Goes(u, symbol, Table[u][symbol].to)
    BY <2>1, <2>2, <2>3 DEF Entry
  <2> QED BY <1>7, <2>4
<1> HIDE DEF to
<1>10. Below(u, to) /\ to \in 1 .. 60
  BY <1>5, <1>9, GoesBelow
<1>11. Linked(stack')
  BY <1>1, <1>7, <1>10, LinkedAppend
<1>12. Top' = to
  <2>1. rest \in Seq(1 .. 60)
    BY <1>7 DEF Linked
  <2> HIDE DEF rest
  <2>2. stack'[Len(stack')] = to
    BY <1>1, <1>10, <2>1
  <2> QED BY <2>2 DEF Top
<1> QED BY <1>1, <1>2, <1>4, <1>5, <1>6, <1>7, <1>9, <1>10, <1>11, <1>12

\* A reduction changes neither the open groups nor what the state on top knows of
\* the context.
LEMMA Reducing ==
    ASSUME Parsing, ReduceItem
    PROVE  /\ token \in Tokens /\ token' = token
           /\ Linked(stack') /\ Open' = Open
           /\ Meets(Top', token, context) /\ Top' \notin DOMAIN OpenedBy \cup Closing
<1> DEFINE symbol == Row[token].to
           n == Row[token].length
           base == Len(stack) - n
           rest == SubSeq(stack, 1, base)
           u == stack[base]
           to == Top'
<1>1. /\ token \in Tokens /\ token' = token
      /\ Meets(Top, token, context) /\ Reduces(Top, symbol, n) /\ ReducesOn(Top, token)
      /\ Linked(rest) /\ rest[Len(rest)] = u /\ Groups(stack) = Opened(rest)
      /\ Uncovered(symbol, u) /\ Goes(u, symbol, to) /\ Below(u, to) /\ to \in 1 .. 60
      /\ stack' = Append(rest, to) /\ Linked(stack')
  BY Reduction
<1> HIDE DEF symbol, n, rest, u, to
<1>2. to \notin DOMAIN OpenedBy \cup Closing
  BY <1>1, GoesNeither
<1>3. Groups(stack') = Groups(stack)
  BY <1>1, <1>2, Pushed
<1>4. Open' = Open
  BY <1>3, OpenIs, OpenIsPrimed
<1>5. Meets(to, token, context)
  BY <1>1, ReduceMeets
<1> QED BY <1>1, <1>2, <1>4, <1>5 DEF to

\* Before a token is read the state on top knows the whole context.
LEMMA NoToken ==
    ASSUME NEW s, NEW c, Meets(s, None, c)
    PROVE  s # 60 /\ c = ContextAfter(s)
<1>1. None \notin Follow \cup {"regex", "$end"}
  <2>1. "regex" \in Tokens /\ "$end" \in Tokens
    BY AloneTokens DEF Alone
  <2> QED BY <2>1, FollowTokens, GroupedAreNoTokens DEF None
<1> QED BY <1>1 DEF Meets

\* Whatever token is read next.
LEMMA StillMeets ==
    ASSUME NEW s, NEW c, NEW t, Meets(s, None, c)
    PROVE  Meets(s, t, c)
BY NoToken DEF Meets

\* Scanning does not touch the stack, and ends with a token or without one.
LEMMA Scanned ==
    ASSUME Parsing, ReadToken
    PROVE  /\ outcome = "reading" /\ token = None
           /\ stack' = stack /\ context' = context
           /\ token' \in Tokens \cup {None} /\ scan'.mark \in Tokens \cup {None}
           /\ \/ outcome' = "reading" /\ last' = last
              \/ outcome' = "rejected" /\ last' = None
           /\ scopes' = scopes /\ kept' = kept
<1>1. token \in Tokens \cup {None} /\ scan.mark \in Tokens \cup {None}
  BY DEF Parsing
<1>2. CASE \E t \in Offered : Offer(t)
  <2>1. Offered \subseteq Tokens
    BY Bounds
  <2> QED BY <1>1, <1>2, <2>1 DEF Offer, history
<1>3. ASSUME Scanning, NEW unread, EndToken(unread)
      PROVE  /\ token' \in Tokens /\ scan'.mark = None
             /\ UNCHANGED <<stack, outcome, history>>
  <2>1. scan.mark \in Tokens
    BY <1>1, <1>3 DEF EndToken
  <2>2. Captured(scan.mark, scan.word) \in Tokens
    BY <2>1, CapturedTokens
  <2> QED BY <1>3, <2>2 DEF EndToken, Fresh
<1>4. ASSUME Scanning, NEW c, NEW to, Advance(c, to)
      PROVE  /\ token' = token /\ scan'.mark \in Tokens \cup {None}
             /\ UNCHANGED <<stack, outcome, history>>
  <2>1. CASE Skips(scan.at, c)
    <3>1. scan' = Fresh(to)
      BY <1>4, <2>1 DEF Advance
    <3>2. scan'.mark = None
      BY <3>1 DEF Fresh
    <3> QED BY <1>4, <3>2 DEF Advance
  <2>2. CASE ~Skips(scan.at, c)
    <3>1. scan'.mark = IF to \in DOMAIN Accepts THEN Accepts[to] ELSE scan.mark
      BY <1>4, <2>2 DEF Advance
    <3> QED BY <1>1, <1>4, <3>1, AcceptsTokens DEF Advance
  <2> QED BY <2>1, <2>2
<1>5. CASE ScanStep
  <2>1. Scanning
    BY <1>5 DEF ScanStep
  <2>2. CASE \E unread : EndToken(unread)
    BY <1>3, <2>1, <2>2 DEF Scanning, history
  <2>3. CASE \E c, to : Advance(c, to)
    BY <1>4, <2>1, <2>3 DEF Scanning, history
  <2>4. CASE Garbled
    BY <1>1, <2>1, <2>4 DEF Scanning, Garbled
  <2> QED BY <1>5, <2>2, <2>3, <2>4 DEF ScanStep
<1> QED BY <1>2, <1>5 DEF ReadToken

\* Parsing holds of the initial states.
LEMMA ParsingInit == Init => Parsing
<1> SUFFICES ASSUME Init PROVE Parsing
  OBVIOUS
<1>1. stack = <<1>> /\ token = None /\ scan.mark = None /\ outcome = "reading"
      /\ context = "plain"
  BY DEF Init, Fresh
<1>2. Linked(stack) /\ Top = 1
  BY <1>1 DEF Linked, Top
<1>3. Meets(1, token, "plain")
  BY DEF Meets, ContextAfter
<1> QED BY <1>1, <1>2, <1>3 DEF Parsing

\* And every step keeps it.
LEMMA ParsingNext == Parsing /\ [Next]_vars => Parsing'
<1> SUFFICES ASSUME Parsing, [Next]_vars PROVE Parsing'
  OBVIOUS
<1>1. CASE ReadToken
  <2>1. Top' = Top
    BY <1>1, Scanned DEF Top
  <2>2. Meets(Top, token', context)
    BY <1>1, Scanned, StillMeets DEF Parsing
  <2> QED BY <1>1, <2>1, <2>2, Scanned DEF Parsing
<1>2. CASE ShiftToken
  <2> DEFINE to == Row[token].to
  <2>1. /\ token \in Tokens /\ Shifts(Top, Kind[token], to) /\ to \in 1 .. 60
        /\ Below(Top, to) /\ Meets(Top, token, context) /\ Linked(stack') /\ Top' = to
    BY <1>2, Shifting
  <2>2. context' = ContextAfter(to)
    <3>1. context' = Nest!NextContext(Kind[token])
      BY <1>2 DEF ShiftToken
    <3> HIDE DEF to
    <3>2. Nest!NextContext(Kind[token]) = ContextAfter(to)
      BY <2>1, ShiftContext
    <3> QED BY <3>1, <3>2
  <2>3. to # 60
    <3>1. Below(Top, 60) => Top = 1
      BY DEF Below
    <3>2. ~Shifts(1, Kind[token], 60)
      BY DEF Shifts, Heads, Places, Onward, Ending, Regex, Continues
    <3> QED BY <2>1, <3>1, <3>2
  <2>4. token' = None /\ outcome' = "reading" /\ scan'.mark = None
    BY <1>2 DEF ShiftToken, Doing, Fresh
  <2> HIDE DEF to
  <2> QED BY <2>1, <2>2, <2>3, <2>4 DEF Parsing, Meets
<1>3. CASE ReduceItem
  <2>1. token' = token /\ scan' = scan /\ outcome' = outcome /\ context' = context
    BY <1>3 DEF ReduceItem, history
  <2> QED BY <1>3, <2>1, Reducing DEF Parsing
<1>4. CASE AcceptFile
  BY <1>4 DEF AcceptFile, Parsing
<1>5. CASE RejectToken
  BY <1>5 DEF RejectToken, Parsing
<1>6. CASE UNCHANGED vars
  BY <1>6 DEF vars, history, Parsing, Top
<1> QED BY <1>1, <1>2, <1>3, <1>4, <1>5, <1>6 DEF Next, ParseToken

(***************************************************************************)
(* The steps are those of the grammar.                                     *)
(***************************************************************************)
\* The two have the same kinds.
LEMMA SameKinds == Nest!Kinds = Kinds
BY DEF Nest!Kinds, Nest!Kind, Nest!Tokens, Nest!ItemStarts, Nest!Simple, Nest!Keywords,
       Nest!TypeKinds, Nest!PlainKeywords, Nest!Containers, Nest!Booleans, Nest!Starters,
       Nest!Punctuation, Nest!Arrows, Nest!Openers, Nest!BraceOpeners, Nest!ParenOpeners,
       Nest!BracketOpeners, Nest!Closers, Nest!StringParts,
       Kinds, Kind, Tokens, ItemStarts, Simple, Keywords, TypeKinds, PlainKeywords,
       Containers, Booleans, Starters, Punctuation, Arrows, Openers, BraceOpeners,
       ParenOpeners, BracketOpeners, Closers, StringParts

\* No kind is "none".
LEMMA NoneIsNoKind == None \notin Kinds
<1> SUFFICES ASSUME NEW t \in Tokens PROVE Kind[t] # None
  BY DEF Kinds
<1>1. None \notin Tokens /\ None \notin Grouped
  BY GroupedAreNoTokens DEF None, Grouped
<1> QED BY <1>1, AloneKind

\* Which group each opener opens.
LEMMA OpensIs ==
    /\ DOMAIN Nest!Opens = Openers \cup {"DQUOTE", "POUND_LBRACE"}
    /\ \A k \in BraceOpeners : Nest!Opens[k] = "brace"
    /\ \A k \in ParenOpeners : Nest!Opens[k] = "paren"
    /\ \A k \in BracketOpeners : Nest!Opens[k] = "bracket"
    /\ Nest!Opens["DQUOTE"] = "string" /\ Nest!Opens["POUND_LBRACE"] = "interpolation"
BY SameSymbols DEF Nest!Opens, Openers, BraceOpeners, ParenOpeners, BracketOpeners

\* Which group each state opens.
LEMMA OpenedByIs ==
    /\ OpenedBy[3] = "brace" /\ OpenedBy[4] = "bracket" /\ OpenedBy[5] = "paren"
    /\ OpenedBy[11] = "interpolation" /\ OpenedBy[54] = "string"
BY DEF OpenedBy

\* A kind opens a group where the state it leads to does, and closes one
\* where that state does.
LEMMA ShiftOpens ==
    ASSUME NEW s, NEW k, NEW to, Shifts(s, k, to)
    PROVE  /\ k \in DOMAIN Nest!Opens => to \in DOMAIN OpenedBy /\ OpenedBy[to] = Nest!Opens[k]
           /\ k \in DOMAIN Nest!Closes => to \in Closing
           /\ k \notin DOMAIN Nest!Opens \cup DOMAIN Nest!Closes
                => to \notin DOMAIN OpenedBy \cup Closing
<1>1. DOMAIN Nest!Opens \cap DOMAIN Nest!Closes = {}
  BY OpensIs, ClosesIs DEF Openers, BraceOpeners, ParenOpeners, BracketOpeners, Closers
<1>2. CASE s \in Places /\ Heads(k, to)
  <2>1. CASE k \in Openers \cup {"DQUOTE"}
    BY <1>1, <1>2, <2>1, OpensIs, OpenedByIs, OpeningStates
       DEF Heads, Openers, BraceOpeners, ParenOpeners, BracketOpeners
  <2>2. CASE k \notin Openers \cup {"DQUOTE"}
    BY <1>2, <2>2, OpensIs, ClosesIs, OpeningStates DEF Heads, Openers, Closing, Closers
  <2> QED BY <2>1, <2>2
<1>3. CASE s \in Places /\ k \in {"item", "identifier", "type_identifier", "newline", "comment"}
       /\ to = Onward(s)
  <2>1. to \in {2, 6, 8, 9, 10, 13, 14, 16, 17}
    BY <1>3 DEF Onward
  <2>2. k \notin DOMAIN Nest!Opens \cup DOMAIN Nest!Closes
    BY <1>3, OpensIs, ClosesIs
       DEF Openers, BraceOpeners, ParenOpeners, BracketOpeners, Closers
  <2> QED BY <2>1, <2>2, OpeningStates DEF Closing
<1>4. CASE Ending(s, k, to)
  <2>1. k \in DOMAIN Nest!Closes /\ to \in Closing
    BY <1>4, ClosesIs DEF Ending, Closing, Closers
  <2> QED BY <1>1, <2>1
<1>5. CASE Regex(s, k, to)
  <2>1. k \notin DOMAIN Nest!Opens \cup DOMAIN Nest!Closes
    BY <1>5, OpensIs, ClosesIs
       DEF Regex, Openers, BraceOpeners, ParenOpeners, BracketOpeners, Closers
  <2> QED BY <1>5, <2>1, OpeningStates DEF Regex, Closing
<1>6. CASE Continues(s, k, to)
  <2>1. CASE k = "POUND_LBRACE"
    BY <1>1, <1>6, <2>1, OpensIs, OpenedByIs, OpeningStates DEF Continues
  <2>2. CASE k # "POUND_LBRACE"
    <3>1. k \notin DOMAIN Nest!Opens \cup DOMAIN Nest!Closes
      BY <1>6, <2>2, OpensIs, ClosesIs
         DEF Continues, Openers, BraceOpeners, ParenOpeners, BracketOpeners, Closers
    <3> QED BY <1>6, <2>2, <3>1, OpeningStates DEF Continues, Closing
  <2> QED BY <2>1, <2>2
<1> QED BY <1>2, <1>3, <1>4, <1>5, <1>6 DEF Shifts

\* What a shift does to the groups that are open.
LEMMA ShiftOpen ==
    ASSUME Parsing, ShiftToken
    PROVE  LET k == Kind[token]
           IN  /\ Open \in Seq(Frames) /\ Top \notin Closing
               /\ k \in DOMAIN Nest!Opens =>
                     Nest!Opens[k] \in Frames /\ Open' = Append(Open, Nest!Opens[k])
               /\ k \in DOMAIN Nest!Closes => Open' = SubSeq(Open, 1, Len(Open) - 1)
               /\ k \notin DOMAIN Nest!Opens \cup DOMAIN Nest!Closes => Open' = Open
<1> DEFINE k == Kind[token]
           to == Row[token].to
<1>1. /\ Shifts(Top, k, to) /\ to \in 1 .. 60 /\ Below(Top, to)
      /\ stack' = Append(stack, to)
  BY Shifting
<1>2. Linked(stack)
  BY DEF Parsing
<1>3. Top \notin Closing
  BY <1>1, NoShiftFromClosing
<1>4. Open = Opened(stack)
  BY <1>3, OpenIs DEF Groups, Top
<1> HIDE DEF to
<1>5. /\ Open \in Seq(Frames)
      /\ to \in DOMAIN OpenedBy => Open' = Append(Open, OpenedBy[to])
      /\ to \in Closing => Open' = SubSeq(Open, 1, Len(Open) - 1)
      /\ to \notin DOMAIN OpenedBy \cup Closing => Open' = Open
  BY <1>1, <1>2, <1>4, Pushed, OpenIsPrimed
<1>6. /\ k \in DOMAIN Nest!Opens => to \in DOMAIN OpenedBy /\ OpenedBy[to] = Nest!Opens[k]
      /\ k \in DOMAIN Nest!Closes => to \in Closing
      /\ k \notin DOMAIN Nest!Opens \cup DOMAIN Nest!Closes
           => to \notin DOMAIN OpenedBy \cup Closing
  BY <1>1, ShiftOpens
<1>7. to \in DOMAIN OpenedBy => OpenedBy[to] \in Frames
  BY OpenerFrames
<1> HIDE DEF k
<1> QED BY <1>3, <1>5, <1>6, <1>7 DEF k

\* Every token has a kind of the grammar.
LEMMA KindsOfTokens == \A t \in Tokens : Kind[t] \in Nest!Kinds
BY SameKinds DEF Kinds

\* The end of the file is a token, and a kind.
LEMMA EndIs == "$end" \in Tokens /\ Kind["$end"] = "$end"
BY AloneTokens, AloneKind DEF Alone

\* A shift is a token the grammar takes.
LEMMA ShiftTakes == Parsing /\ ShiftToken => Nest!Next
<1> SUFFICES ASSUME Parsing, ShiftToken PROVE Nest!Next
  OBVIOUS
<1> DEFINE k == Kind[token]
           to == Row[token].to
<1>1. token \in Tokens /\ Shifts(Top, k, to) /\ Meets(Top, token, context)
  BY Shifting
<1>2. outcome = "reading" /\ outcome' = outcome /\ last' = k
      /\ context' = Nest!NextContext(k)
  BY DEF ShiftToken, Doing
<1>3. InnerOf(Open) \in FramesAfter(Top)
  BY TopFrames DEF Parsing
<1>4. Nest!Allowed(k)
  BY <1>1, <1>3, ShiftAllowed
<1>5. k # "$end"
  BY <1>1 DEF Shifts, Heads, Ending, Regex, Continues, BraceOpeners, BracketOpeners, ParenOpeners
<1>6. Open' = CASE k \in DOMAIN Nest!Opens  -> Append(Open, Nest!Opens[k])
                [] k \in DOMAIN Nest!Closes -> SubSeq(Open, 1, Len(Open) - 1)
                [] OTHER                    -> Open
  <2>1. DOMAIN Nest!Opens \cap DOMAIN Nest!Closes = {}
    BY OpensIs, ClosesIs DEF Openers, BraceOpeners, ParenOpeners, BracketOpeners, Closers
  <2> HIDE DEF k
  <2> QED BY <2>1, ShiftOpen DEF k
<1>7. Nest!Take(k)
  <2> HIDE DEF k
  <2> QED BY <1>2, <1>4, <1>5, <1>6 DEF Nest!Take
<1> QED BY <1>1, <1>7, KindsOfTokens DEF Nest!Next

\* So is the end of the file, accepted.
LEMMA AcceptTakes == Parsing /\ AcceptFile => Nest!Next
<1> SUFFICES ASSUME Parsing, AcceptFile PROVE Nest!Next
  OBVIOUS
<1>1. /\ outcome = "reading" /\ token \in DOMAIN Row /\ Row[token].do = "accept"
      /\ outcome' = "accepted" /\ context' = Nest!NextContext(Kind[token])
      /\ last' = Kind[token] /\ stack' = stack
  BY DEF AcceptFile, Doing
<1>2. Linked(stack) /\ Meets(Top, token, context)
  BY <1>1 DEF Parsing
<1>3. Entry(Top, token, Row[token])
  BY <1>1, <1>2, TopRow DEF RowFits
<1>4. Top = 60 /\ token = "$end"
  BY <1>1, <1>3 DEF Entry
<1>5. Neutral(context, "$end")
  BY <1>2, <1>4, EndIs DEF Meets, Places
<1>6. Open = <<>>
  <2>1. Open \in Seq(Frames) /\ InnerOf(Open) \in {"file"}
    <3>1. FramesAfter(60) = {"file"}
      BY DEF FramesAfter, FramesAt, Closing
    <3> QED BY <1>2, <1>4, <3>1, TopFrames
  <2>2. ASSUME Open # <<>> PROVE FALSE
    <3>1. Open[Len(Open)] \in Frames
      BY <2>1, <2>2
    <3> QED BY <2>1, <2>2, <3>1 DEF InnerOf, Frames
  <2> QED BY <2>2
<1>7. Nest!Allowed("$end")
  <2>1. InnerOf(Open) = "file"
    BY <1>6 DEF InnerOf
  <2> QED BY <1>5, <1>6, <2>1, AllowedIs DEF Neutral
<1>8. Open' = Open
  BY <1>1, OpenIs, OpenIsPrimed
<1>9. "$end" \notin DOMAIN Nest!Opens \cup DOMAIN Nest!Closes
  BY OpensIs, ClosesIs DEF Openers, BraceOpeners, ParenOpeners, BracketOpeners, Closers
<1>10. Nest!Take("$end")
  BY <1>1, <1>4, <1>7, <1>8, <1>9, EndIs DEF Nest!Take
<1> QED BY <1>10, EndIs, KindsOfTokens DEF Nest!Next

\* A token without an action is one the grammar refuses.
LEMMA RejectRefuses == Parsing /\ RejectToken => Nest!Next
<1> SUFFICES ASSUME Parsing, RejectToken PROVE Nest!Next
  OBVIOUS
<1>1. /\ outcome = "reading" /\ token # None /\ token \notin DOMAIN Row
      /\ outcome' = "rejected" /\ last' = Kind[token] /\ context' = context
      /\ stack' = stack
  BY DEF RejectToken
<1>2. Linked(stack) /\ Meets(Top, token, context) /\ token \in Tokens
  BY <1>1 DEF Parsing
<1>3. Top \in 1 .. 60 /\ ~Handles(Top, token)
  BY <1>1, <1>2, TopRow DEF RowCovers
<1>4. Open \in Seq(Frames) /\ InnerOf(Open) \in FramesAfter(Top)
  BY <1>2, TopFrames
<1>5. ~Nest!Allowed(Kind[token])
  BY <1>2, <1>3, <1>4, RejectRefused
<1>6. Open' = Open
  BY <1>1, OpenIs, OpenIsPrimed
<1>7. Nest!Refuse(Kind[token])
  BY <1>1, <1>5, <1>6 DEF Nest!Refuse
<1> QED BY <1>2, <1>7, KindsOfTokens DEF Nest!Next

\* A scan refuses or does not touch what the grammar knows.
LEMMA ReadRefuses == Parsing /\ ReadToken => Nest!Next \/ UNCHANGED Nest!vars
<1> SUFFICES ASSUME Parsing, ReadToken PROVE Nest!Next \/ UNCHANGED Nest!vars
  OBVIOUS
<1>1. /\ outcome = "reading" /\ stack' = stack /\ context' = context
      /\ \/ outcome' = "reading" /\ last' = last
         \/ outcome' = "rejected" /\ last' = None
  BY Scanned
<1>2. Open' = Open
  BY <1>1, OpenIs, OpenIsPrimed
<1>3. CASE outcome' = "reading" /\ last' = last
  BY <1>1, <1>2, <1>3 DEF Nest!vars
<1>4. CASE outcome' = "rejected" /\ last' = None
  <2>1. None \notin Nest!Kinds
    BY SameKinds, NoneIsNoKind
  <2>2. Nest!Refuse(None)
    BY <1>1, <1>2, <1>4, <2>1 DEF Nest!Refuse
  <2> QED BY <2>2 DEF Nest!Next, None
<1> QED BY <1>1, <1>3, <1>4

\* The parser, run from its table, takes the tokens the grammar's nesting and
\* context rules allow and refuses the others, and its stack always stands for the
\* groups the grammar has open (ParsesGrammar).
THEOREM TableParsesGrammar == Spec => ParsesGrammar
<1>1. Init => Nest!Init
  <2> SUFFICES ASSUME Init PROVE Nest!Init
    OBVIOUS
  <2>1. Open = <<>>
    <3>1. stack = <<1>>
      BY DEF Init
    <3>2. Append(<<>>, 1) = <<1>> /\ <<>> \in Seq({1})
      OBVIOUS
    <3>3. Opened(<<1>>) = OpensNext(Opened(<<>>), 1)
      BY <3>2, OpenedAppend
    <3> QED BY <3>1, <3>3, OpenedEmpty, OpeningStates DEF Open, Top, Closing, OpensNext
  <2> QED BY <2>1 DEF Init, Nest!Init, None
<1>2. Parsing /\ [Next]_vars => [Nest!Next]_(Nest!vars)
  <2> SUFFICES ASSUME Parsing, [Next]_vars PROVE Nest!Next \/ UNCHANGED Nest!vars
    OBVIOUS
  <2>1. CASE ReduceItem
    <3>1. Open' = Open
      BY <2>1, Reducing
    <3> QED BY <2>1, <3>1 DEF ReduceItem, history, Nest!vars
  <2>2. CASE UNCHANGED vars
    <3>1. stack' = stack /\ context' = context /\ last' = last /\ outcome' = outcome
      BY <2>2 DEF vars, history
    <3>2. Open' = Open
      BY <3>1, OpenIs, OpenIsPrimed
    <3> QED BY <3>1, <3>2 DEF Nest!vars
  <2> QED BY <2>1, <2>2, ShiftTakes, AcceptTakes, RejectRefuses, ReadRefuses
          DEF Next, ParseToken
<1>3. Init => Parsing
  BY ParsingInit
<1>4. Parsing /\ [Next]_vars => Parsing'
  BY ParsingNext
<1> QED BY <1>1, <1>2, <1>3, <1>4, PTL DEF Spec, ParsesGrammar, Nest!Spec

(***************************************************************************)
(* Every token is taken or refused.                                        *)
(***************************************************************************)
\* A row joined from several has what one of them has.
LEMMA MergeHas ==
    \A f, g, t : t \in DOMAIN f \/ t \in DOMAIN g => t \in DOMAIN (f ++ g)
BY MergeDomain

\* Wherever an item may begin its parts, and what leads to one, have a goto.
LEMMA ItemGoes ==
    ASSUME NEW to, NEW t \in ItemParts \cup {"keyword", "punctuation"}
    PROVE  t \in DOMAIN Item(to)
BY DEF Item

LEMMA PlaceGoes ==
    ASSUME NEW u \in Places, NEW t \in ItemParts \cup {"keyword", "punctuation"}
    PROVE  t \in DOMAIN Table[u]
<1>1. /\ t \in DOMAIN Row1 /\ t \in DOMAIN Row3 /\ t \in DOMAIN Row4 /\ t \in DOMAIN Row5
      /\ t \in DOMAIN Row6 /\ t \in DOMAIN Row7 /\ t \in DOMAIN Row8 /\ t \in DOMAIN Row9
  BY ItemGoes, MergeHas, Zenon DEF Row1, Row3, Row4, Row5, Row6, Row7, Row8, Row9
<1>2. /\ t \in DOMAIN Row10 /\ t \in DOMAIN Row11 /\ t \in DOMAIN Row12
      /\ t \in DOMAIN Row13 /\ t \in DOMAIN Row14 /\ t \in DOMAIN Row15
      /\ t \in DOMAIN Row16 /\ t \in DOMAIN Row17
  BY ItemGoes, MergeHas, Zenon
     DEF Row10, Row11, Row12, Row13, Row14, Row15, Row16, Row17
<1> QED BY <1>1, <1>2, TableRows DEF Places

\* A state a reduction may uncover goes on with what was reduced.
LEMMA UncoveredGoes ==
    ASSUME NEW symbol, NEW u, Uncovered(symbol, u)
    PROVE  symbol \in DOMAIN Table[u]
<1>1. CASE symbol \in ItemParts \cup {"keyword", "punctuation"} /\ u \in Places
  BY <1>1, PlaceGoes
<1> DEFINE Has(row, t) == t \in DOMAIN row
<1>2. Has(Row1, "source_file")
  BY DEF Row1, ++, One
<1>3. /\ Has(Row18, "module_name") /\ Has(Row23, "module_name") /\ Has(Row24, "module_name")
      /\ Has(Row19, "module_name_repeat1") /\ Has(Row20, "module_name_repeat1")
  BY DEF Row18, Row23, Row24, Row19, Row20, ++, One
<1>4. \A state : Has(Part(state), "interpolation") /\ Has(Part(state), "string_repeat1")
  BY DEF Part, ++, One, Each
<1>5. \A t \in {"interpolation", "string_repeat1"} : Has(Row53, t) /\ Has(Row54, t)
  BY <1>4, MergeHas DEF Row53, Row54
<1>6. CASE symbol = "source_file" /\ u = 1
  BY <1>2, <1>6, TableRows
<1>7. CASE symbol = "module_name" /\ u \in {18, 23, 24}
  BY <1>3, <1>7, TableRows
<1>8. CASE symbol = "module_name_repeat1" /\ u \in {19, 20}
  BY <1>3, <1>8, TableRows
<1>9. CASE symbol \in {"interpolation", "string_repeat1"} /\ u \in {53, 54}
  BY <1>5, <1>9, TableRows
<1> QED BY <1>1, <1>6, <1>7, <1>8, <1>9 DEF Uncovered

\* A reduction leads to a state of a lower rank, or to a shorter stack.
LEMMA RankFalls ==
    ASSUME NEW s, NEW symbol, NEW n, NEW u, NEW to,
           Reduces(s, symbol, n), Uncovered(symbol, u), Goes(u, symbol, to)
    PROVE  2 + Rank(to) < 2 * n + Rank(s)
<1>1. CASE s \in {1, 6}
  <2>1. symbol = "source_file" /\ to = 60 /\ n = (IF s = 1 THEN 0 ELSE 1)
    BY <1>1 DEF Reduces, Uncovered, Goes, ItemParts
  <2> QED BY <1>1, <2>1 DEF Rank
<1>2. CASE s \in {18, 25, 26, 27, 28}
  <2>1. symbol \in {"keyword", "punctuation"} /\ to = 22 /\ n = 1
    BY <1>2 DEF Reduces, Uncovered, Goes, ItemParts, Places
  <2> QED BY <1>2, <2>1 DEF Rank
<1>3. CASE s = 19
  <2>1. symbol = "module_name" /\ to \in {35, 41, 43} /\ n = 1
    BY <1>3 DEF Reduces, Uncovered, Goes, ItemParts, Places
  <2> QED BY <1>3, <2>1 DEF Rank
<1>4. CASE s \in {22, 23, 24, 37, 46, 49}
  <2>1. symbol \in ItemParts /\ n = 1
    <3>1. "_regex_start" \in ItemParts
      BY DEF ItemParts
    <3> QED BY <1>4, <3>1 DEF Reduces
  <2>2. u \in Places /\ to = Onward(u)
    BY <2>1 DEF Uncovered, Goes, ItemParts, Places
  <2>3. to \in {2, 6, 8, 9, 10, 13, 14, 16, 17}
    BY <2>2 DEF Onward, Places
  <2> QED BY <1>4, <2>1, <2>3 DEF Rank
<1>5. CASE s \notin {1, 6, 18, 19, 22, 23, 24, 25, 26, 27, 28, 37, 46, 49}
  <2>1. n \in {2, 3, 4} /\ symbol \notin {"source_file", "keyword", "punctuation"}
    <3>1. ItemParts \cap {"source_file", "keyword", "punctuation"} = {}
      BY DEF ItemParts
    <3>2. "source_file_repeat1" \in ItemParts
      BY DEF ItemParts
    <3> QED BY <1>5, <3>1, <3>2 DEF Reduces
  <2>2. to \in {2, 6, 8, 9, 10, 13, 14, 16, 17, 20, 21, 35, 41, 43, 53, 55}
    <3>1. CASE u \in Places
      BY <2>1, <3>1 DEF Uncovered, Goes, Onward, Places, ItemParts
    <3>2. CASE u \notin Places
      BY <2>1, <3>2 DEF Uncovered, Goes
    <3> QED BY <3>1, <3>2
  <2>3. Rank(to) \in {0, 1} /\ Rank(s) = 0
    BY <1>5, <2>2 DEF Rank
  <2> QED BY <2>1, <2>3
<1> QED BY <1>1, <1>2, <1>3, <1>4, <1>5

\* The ranks are small numbers.
LEMMA RankIs == \A s \in 1 .. 60 : Rank(s) \in 0 .. 3
<1> TAKE s \in 1 .. 60
<1> DEFINE three == {1, 18, 25, 26, 27, 28}
           two   == {22, 23, 24, 37, 46, 49}
           one   == {6, 19}
<1>1. CASE s \in three
  BY <1>1 DEF Rank
<1>2. CASE s \in two
  BY <1>2 DEF Rank
<1>3. CASE s \in one
  BY <1>3 DEF Rank
<1>4. CASE s \notin three \cup two \cup one
  BY <1>4 DEF Rank
<1> QED BY <1>1, <1>2, <1>3, <1>4

\* A reduction the table calls for can be done.
LEMMA ReductionFits ==
    ASSUME Parsing, outcome = "reading", token \in DOMAIN Row, Row[token].do = "reduce"
    PROVE  /\ Reduces(Top, Row[token].to, Row[token].length)
           /\ Row[token].length \in Nat /\ Row[token].length < Len(stack)
           /\ Uncovered(Row[token].to, stack[Len(stack) - Row[token].length])
<1>1. Linked(stack)
  BY DEF Parsing
<1>2. Reduces(Top, Row[token].to, Row[token].length)
  BY <1>1, TopRow DEF RowFits, Entry
<1> QED BY <1>1, <1>2, Uncovers DEF Top

\* No token is the name of a nonterminal.
LEMMA GotosAreNoTokens == \A s, t, to : Goes(s, t, to) => t \notin Tokens
BY DEF Goes, ItemParts, Tokens, ItemStarts, Simple, Keywords, TypeKinds, PlainKeywords,
       Containers, Booleans, Starters, Punctuation, Arrows, Openers, BraceOpeners,
       ParenOpeners, BracketOpeners, Closers, StringParts

\* Whatever the parser has read, the table's action for the token is one it can
\* take: a reduction always uncovers a state that goes on with what was reduced
\* (TokenHasStep).
THEOREM NoTokenIsStuck == Spec => []TokenHasStep
<1>1. Parsing => TokenHasStep
  <2> SUFFICES ASSUME Parsing, outcome = "reading", token # None, token \in DOMAIN Row
               PROVE  /\ Row[token].do \in {"shift", "reduce", "accept"}
                      /\ Row[token].do = "reduce" =>
                            /\ Row[token].length < Len(stack)
                            /\ Row[token].to \in
                                  DOMAIN Table[stack[Len(stack) - Row[token].length]]
    BY DEF TokenHasStep
  <2>1. token \in Tokens /\ Linked(stack)
    BY DEF Parsing
  <2>2. Entry(Top, token, Row[token]) /\ Top # 0
    BY <2>1, TopRow DEF RowFits
  <2>3. Row[token].do \in {"shift", "reduce", "accept"}
    BY <2>1, <2>2, GotosAreNoTokens DEF Entry
  <2>4. ASSUME Row[token].do = "reduce"
        PROVE  /\ Row[token].length < Len(stack)
               /\ Row[token].to \in DOMAIN Table[stack[Len(stack) - Row[token].length]]
    BY <2>4, ReductionFits, UncoveredGoes
  <2> QED BY <2>3, <2>4
<1> QED BY <1>1, ParsingInit, ParsingNext, PTL DEF Spec

\* A reduction leaves fewer.
LEMMA ReductionsFall ==
    ASSUME Parsing, ReduceItem
    PROVE  ReductionsLeft' < ReductionsLeft /\ ReductionsLeft' \in Nat
<1> DEFINE n == Row[token].length
           to == Top'
           rest == SubSeq(stack, 1, Len(stack) - n)
<1>1. n \in Nat /\ Len(stack) \in Nat /\ Len(stack) - n \in 1 .. Len(stack)
      /\ Top \in 1 .. 60 /\ to \in 1 .. 60
  <2>1. Linked(stack)
    BY Reduction
  <2>2. Len(stack) \in Nat /\ Top \in 1 .. 60
    BY <2>1, TopRow DEF Linked
  <2> QED BY <2>2, Reduction
<1>2. Len(stack') = (Len(stack) - n) + 1
  <2>1. rest \in Seq(1 .. 60) /\ Len(rest) = Len(stack) - n /\ stack' = Append(rest, to)
    BY Reduction DEF Linked
  <2> HIDE DEF rest, to
  <2> QED BY <1>1, <2>1
<1>3. 2 + Rank(to) < 2 * n + Rank(Top)
  BY Reduction, RankFalls
<1>4. Rank(Top) \in 0 .. 3 /\ Rank(to) \in 0 .. 3
  BY <1>1, RankIs
<1>5. ReductionsLeft = 2 * Len(stack) + Rank(Top) /\ ReductionsLeft' = 2 * Len(stack') + Rank(to)
  BY DEF ReductionsLeft
<1> DEFINE high == Len(stack)
           higher == Len(stack')
           before == Rank(Top)
           after == Rank(to)
<1> HIDE DEF high, higher, before, after, n
<1>6. /\ n \in Nat /\ high \in Nat /\ high - n \in 1 .. high /\ higher = (high - n) + 1
      /\ before \in 0 .. 3 /\ after \in 0 .. 3 /\ 2 + after < 2 * n + before
  BY <1>1, <1>2, <1>3, <1>4 DEF high, higher, before, after
<1>7. 2 * higher + after < 2 * high + before /\ 2 * higher + after \in Nat
  BY <1>6
<1> QED BY <1>5, <1>7 DEF high, higher, before, after

\* A step that neither takes nor refuses the token leaves fewer reductions, so
\* that every token is taken or refused after finitely many (ReductionsEnd).
THEOREM ReductionsRunOut == Spec => ReductionsEnd
<1>1. Parsing /\ [Next]_vars =>
        [token # None /\ token' = token /\ outcome' = outcome =>
           ReductionsLeft' < ReductionsLeft /\ ReductionsLeft' \in Nat]_vars
  <2> SUFFICES ASSUME Parsing, [Next]_vars, ~UNCHANGED vars,
                      token # None, token' = token, outcome' = outcome
               PROVE  ReductionsLeft' < ReductionsLeft /\ ReductionsLeft' \in Nat
    OBVIOUS
  <2>1. CASE ReadToken
    BY <2>1, Scanned
  <2>2. CASE ShiftToken
    BY <2>2 DEF ShiftToken
  <2>3. CASE ReduceItem
    BY <2>3, ReductionsFall
  <2>4. CASE AcceptFile
    BY <2>4 DEF AcceptFile, Doing
  <2>5. CASE RejectToken
    BY <2>5 DEF RejectToken
  <2> QED BY <2>1, <2>2, <2>3, <2>4, <2>5 DEF Next, ParseToken
<1> QED BY <1>1, ParsingInit, ParsingNext, PTL DEF Spec, ReductionsEnd

(***************************************************************************)
(* The compiler's counters.                                                *)
(***************************************************************************)
Counters == [braces : Nat, parens : Nat]

Counted(tally) == tally \in Seq(Counters) /\ Len(tally) > 0

\* The counters the compiler starts with.
LEMMA EmptyCounts == EmptyScope \in Counters /\ Counted(<<EmptyScope>>)
BY DEF EmptyScope, Counters, Counted

\* A tally with its innermost counters replaced.
More(tally, c) == [tally EXCEPT ![Len(tally)] = c]

\* The innermost counters of a tally.
LEMMA Innermost ==
    ASSUME NEW tally, Counted(tally)
    PROVE  tally[Len(tally)] \in Counters /\ Len(tally) \in Nat
           /\ More(tally, tally[Len(tally)]) = tally
BY DEF Counted, More

\* A tally with others in their place.
LEMMA MoreCounts ==
    ASSUME NEW tally, Counted(tally), NEW c \in Counters
    PROVE  /\ Counted(More(tally, c)) /\ Len(More(tally, c)) = Len(tally)
           /\ More(tally, c)[Len(tally)] = c
BY DEF Counted, More

\* Replaced twice they are the second ones.
LEMMA MoreTwice ==
    ASSUME NEW tally, Counted(tally), NEW c \in Counters, NEW d \in Counters
    PROVE  More(More(tally, c), d) = More(tally, d)
<1>1. Len(More(tally, c)) = Len(tally)
  BY MoreCounts
<1> QED BY <1>1 DEF Counted, More

\* Counters are two naturals.
LEMMA CountersAre ==
    ASSUME NEW c \in Counters
    PROVE  /\ c.braces \in Nat /\ c.parens \in Nat
           /\ c = [braces |-> c.braces, parens |-> c.parens]
BY DEF Counters

\* Braces are counted in an interpolation and nowhere else.
LEMMA MoreBraces ==
    ASSUME NEW tally, Counted(tally), NEW n \in Int, tally[Len(tally)].braces + n \in Nat
    PROVE  LET c == [tally[Len(tally)] EXCEPT !.braces = @ + n]
           IN  /\ c \in Counters
               /\ CountBrace(tally, n) = IF Len(tally) > 1 THEN More(tally, c) ELSE tally
<1>1. tally[Len(tally)] \in Counters
  BY Innermost
<1> QED BY <1>1 DEF Counters, CountBrace, Interpolated, More

\* Counting a group leaves a tally.
LEMMA CountGroupCounts ==
    ASSUME NEW tally, Counted(tally), NEW f \in Frames
    PROVE  Counted(CountGroup(tally, f))
<1>1. tally[Len(tally)] \in Counters
  BY Innermost
<1>2. CASE f = "interpolation"
  BY <1>2, EmptyCounts DEF CountGroup, Counted
<1>3. CASE f = "brace"
  <2>1. tally[Len(tally)].braces + 1 \in Nat
    BY <1>1 DEF Counters
  <2>2. CountGroup(tally, f) = CountBrace(tally, 1)
    BY <1>3 DEF CountGroup
  <2> DEFINE c == [tally[Len(tally)] EXCEPT !.braces = @ + 1]
  <2>3. c \in Counters
        /\ CountBrace(tally, 1) = IF Len(tally) > 1 THEN More(tally, c) ELSE tally
    BY <1>1 DEF Counters, CountBrace, Interpolated, More
  <2> HIDE DEF c
  <2> QED BY <2>2, <2>3, MoreCounts
<1>4. CASE f = "paren"
  <2> DEFINE c == [tally[Len(tally)] EXCEPT !.parens = @ + 1]
  <2>1. c \in Counters
    BY <1>1 DEF Counters
  <2>2. CountGroup(tally, f) = [tally EXCEPT ![Len(tally)] = c]
    BY <1>4 DEF CountGroup
  <2> HIDE DEF c
  <2> QED BY <2>1, <2>2, MoreCounts DEF More
<1>5. CASE f \in {"bracket", "string"}
  BY <1>5 DEF CountGroup
<1> QED BY <1>2, <1>3, <1>4, <1>5 DEF Frames

\* And so does counting them all.
LEMMA TallyCounts ==
    ASSUME NEW frames \in Seq(Frames)
    PROVE  Counted(Tally(frames))
<1> DEFINE T == {m \in Nat : m <= Len(frames) => Counted(Tally(SubSeq(frames, 1, m)))}
<1>1. 0 \in T
  <2>1. SubSeq(frames, 1, 0) = <<>>
    BY EmptyPrefix
  <2> QED BY <2>1, TallyEmpty, EmptyCounts
<1>2. ASSUME NEW m \in Nat, m \in T PROVE m + 1 \in T
  <2> SUFFICES ASSUME m + 1 <= Len(frames)
               PROVE  Counted(Tally(SubSeq(frames, 1, m + 1)))
    OBVIOUS
  <2>1. Counted(Tally(SubSeq(frames, 1, m)))
    BY <1>2
  <2>2. SubSeq(frames, 1, m) \in Seq(Frames) /\ frames[m + 1] \in Frames
    OBVIOUS
  <2>3. SubSeq(frames, 1, m + 1) = Append(SubSeq(frames, 1, m), frames[m + 1])
    OBVIOUS
  <2>4. Tally(SubSeq(frames, 1, m + 1)) = CountGroup(Tally(SubSeq(frames, 1, m)), frames[m + 1])
    BY <2>2, <2>3, TallyAppend
  <2> QED BY <2>1, <2>2, <2>4, CountGroupCounts
<1>3. Len(frames) \in T
  <2> HIDE DEF T
  <2> QED BY <1>1, <1>2, NaturalsBySets
<1>4. SubSeq(frames, 1, Len(frames)) = frames /\ Len(frames) <= Len(frames)
  OBVIOUS
<1>5. Counted(Tally(SubSeq(frames, 1, Len(frames))))
  BY <1>3, <1>4
<1> QED BY <1>4, <1>5

\* What one lexer counts for an opener is what the other opens with it.
LEMMA CountOpens ==
    ASSUME NEW tally, NEW k \in DOMAIN Nest!Opens
    PROVE  Count(tally, k) = CountGroup(tally, Nest!Opens[k])
<1>1. CASE k \in BraceOpeners
  BY <1>1, OpensIs DEF BraceOpeners, ParenOpeners, Count, CountGroup, BraceTokens
<1>2. CASE k \in ParenOpeners
  BY <1>2, OpensIs DEF ParenOpeners, Count, CountGroup, BraceTokens
<1>3. CASE k \in BracketOpeners
  BY <1>3, OpensIs DEF BracketOpeners, ParenOpeners, Count, CountGroup, BraceTokens
<1>4. CASE k \in {"DQUOTE", "POUND_LBRACE"}
  BY <1>4, OpensIs DEF ParenOpeners, Count, CountGroup, BraceTokens
<1> QED BY <1>1, <1>2, <1>3, <1>4, OpensIs DEF Openers

\* And for a closer what was before the group it closes.
LEMMA CountCloses ==
    ASSUME NEW tally, Counted(tally), NEW f \in Frames, NEW k \in DOMAIN Nest!Closes,
           f \in Nest!Closes[k]
    PROVE  Count(CountGroup(tally, f), k) = tally
<1> DEFINE c == tally[Len(tally)]
           more == CountGroup(tally, f)
<1>1. c \in Counters /\ Len(tally) \in Nat /\ Len(tally) > 0
  BY Innermost DEF Counted
<1>2. CASE k = "RBRACE" /\ f = "interpolation"
  <2>1. more = Append(tally, EmptyScope)
    BY <1>2 DEF CountGroup
  <2>2. Len(more) = Len(tally) + 1 /\ more[Len(more)] = EmptyScope
        /\ SubSeq(more, 1, Len(more) - 1) = tally
    BY <2>1, EmptyCounts DEF Counted
  <2> HIDE DEF more
  <2>3. Interpolated(more) /\ Scope(more).braces = 0
    BY <1>1, <2>2 DEF Interpolated, Scope, EmptyScope
  <2>4. Count(more, k) = Outer(more)
    BY <1>2, <2>3 DEF Count, BraceTokens, ParenOpeners
  <2> QED BY <2>2, <2>4 DEF Outer, more
<1>3. CASE k = "RBRACE" /\ f = "brace"
  <2> DEFINE d == [c EXCEPT !.braces = @ + 1]
  <2>1. d \in Counters /\ d.braces = c.braces + 1 /\ [d EXCEPT !.braces = @ + -1] = c
    <3> HIDE DEF c
    <3>1. d = [braces |-> c.braces + 1, parens |-> c.parens]
      BY <1>1, CountersAre
    <3> HIDE DEF d
    <3>2. [d EXCEPT !.braces = @ + -1] = [braces |-> c.braces, parens |-> c.parens]
      BY <1>1, <3>1, CountersAre
    <3> QED BY <1>1, <3>1, <3>2, CountersAre DEF Counters
  <2>2. more = IF Len(tally) > 1 THEN More(tally, d) ELSE tally
    <3>1. more = CountBrace(tally, 1) /\ c.braces + 1 \in Nat
      BY <1>1, <1>3 DEF CountGroup, Counters
    <3> QED BY <3>1, MoreBraces
  <2>3. Count(more, k) = IF Interpolated(more) /\ Scope(more).braces = 0
                         THEN Outer(more) ELSE CountBrace(more, -1)
    BY <1>3 DEF Count, BraceTokens, ParenOpeners
  <2> HIDE DEF c, d, more
  <2>4. CASE Len(tally) > 1
    <3>1. /\ Counted(More(tally, d)) /\ Len(More(tally, d)) = Len(tally)
          /\ More(tally, d)[Len(tally)] = d
          /\ More(More(tally, d), c) = More(tally, c)
          /\ More(tally, c) = tally
      BY <1>1, <2>1, Innermost, MoreCounts, MoreTwice DEF c
    <3>2. Interpolated(more) /\ Scope(more).braces # 0
      BY <1>1, <2>1, <2>2, <2>4, <3>1 DEF Interpolated, Scope, Counters
    <3>3. CountBrace(more, -1) = More(more, c)
      <4>1. more[Len(more)] = d /\ Counted(more) /\ Len(more) > 1
        BY <2>2, <2>4, <3>1
      <4>2. d.braces + -1 \in Nat
        BY <1>1, <2>1 DEF Counters
      <4> QED BY <2>1, <4>1, <4>2, MoreBraces
    <3> QED BY <2>2, <2>3, <2>4, <3>1, <3>2, <3>3 DEF more
  <2>5. CASE ~(Len(tally) > 1)
    BY <2>2, <2>3, <2>5 DEF Interpolated, CountBrace, more
  <2> QED BY <2>4, <2>5
<1>4. CASE k = "RPAREN" /\ f = "paren"
  <2> DEFINE d == [c EXCEPT !.parens = @ + 1]
  <2>1. d \in Counters /\ d.parens = c.parens + 1 /\ d.parens > 0
        /\ [d EXCEPT !.parens = d.parens - 1] = c
    <3> HIDE DEF c
    <3>1. d = [braces |-> c.braces, parens |-> c.parens + 1]
      BY <1>1, CountersAre
    <3> HIDE DEF d
    <3>2. [d EXCEPT !.parens = d.parens - 1] = [braces |-> c.braces, parens |-> c.parens]
      BY <1>1, <3>1, CountersAre
    <3> QED BY <1>1, <3>1, <3>2, CountersAre DEF Counters
  <2>2. more = More(tally, d)
    BY <1>4 DEF CountGroup, More
  <2>3. Count(more, k) = [more EXCEPT ![Len(more)].parens = IF @ > 0 THEN @ - 1 ELSE 0]
    BY <1>4 DEF Count, BraceTokens, ParenOpeners
  <2> HIDE DEF c, d, more
  <2>4. /\ Counted(more) /\ Len(more) = Len(tally) /\ more[Len(more)] = d
        /\ More(more, c) = More(tally, c) /\ More(tally, c) = tally
    BY <1>1, <2>1, <2>2, Innermost, MoreCounts, MoreTwice DEF c
  <2>5. Count(more, k) = More(more, [d EXCEPT !.parens = IF d.parens > 0 THEN d.parens - 1 ELSE 0])
    BY <2>3, <2>4 DEF More
  <2> QED BY <2>1, <2>4, <2>5 DEF more
<1>5. CASE k \in {"RBRACK", "DQUOTE2"} /\ f \in {"bracket", "string"}
  BY <1>5 DEF Count, CountGroup, BraceTokens, ParenOpeners
<1> QED BY <1>2, <1>3, <1>4, <1>5, ClosesIs DEF Closers

(***************************************************************************)
(* The counters are those of the groups that are open.                     *)
(***************************************************************************)
\* At first no group is open.
LEMMA InitOpen == Init => Open = <<>>
<1> SUFFICES ASSUME Init PROVE Open = <<>>
  OBVIOUS
<1>1. stack = <<1>>
  BY DEF Init
<1>2. Append(<<>>, 1) = <<1>> /\ <<>> \in Seq({1})
  OBVIOUS
<1>3. Opened(<<1>>) = OpensNext(Opened(<<>>), 1)
  BY <1>2, OpenedAppend
<1> QED BY <1>1, <1>3, OpenedEmpty, OpeningStates DEF Open, Top, Closing, OpensNext

\* What a closer may close.
LEMMA ClosedInner ==
    ASSUME NEW k \in DOMAIN Nest!Closes, Nest!Allowed(k)
    PROVE  InnerOf(Open) \in Nest!Closes[k]
<1>1. k \in Closers \/ k = "DQUOTE2"
  BY ClosesIs
<1>2. CASE k \in Closers
  <2>1. k \notin StringParts \cup {"module_name_token1", "identifier", "type_identifier"}
    BY <1>2 DEF Closers, StringParts
  <2> QED BY <1>2, <2>1, AllowedIs
<1>3. CASE k = "DQUOTE2"
  <2>1. k \in StringParts /\ k \notin Closers
        \cup {"regex", "DOT", "$end", "module_name_token1", "identifier", "type_identifier"}
    BY <1>3 DEF Closers, StringParts
  <2>2. InnerOf(Open) = "string"
    BY <2>1, AllowedIs
  <2> QED BY <1>3, <2>2, ClosesIs
<1> QED BY <1>1, <1>2, <1>3

CountsOpen == scopes = Tally(Open)

\* The counters are those of the open groups at first.
LEMMA CountsOpenInit == Init => CountsOpen
<1> SUFFICES ASSUME Init PROVE CountsOpen
  OBVIOUS
<1>1. Open = <<>>
  BY InitOpen
<1> QED BY <1>1, TallyEmpty DEF Init, CountsOpen

\* And after every step: a token counts what it opens, and what it closes off.
LEMMA CountsOpenNext == Parsing /\ CountsOpen /\ [Next]_vars => CountsOpen'
<1> SUFFICES ASSUME Parsing, CountsOpen, [Next]_vars PROVE CountsOpen'
  OBVIOUS
<1>1. CASE ShiftToken
  <2> DEFINE k == Kind[token]
  <2>1. scopes' = Count(Tally(Open), k)
    BY <1>1 DEF ShiftToken, CountsOpen
  <2>2. /\ Open \in Seq(Frames) /\ Top \notin Closing
        /\ k \in DOMAIN Nest!Opens =>
              Nest!Opens[k] \in Frames /\ Open' = Append(Open, Nest!Opens[k])
        /\ k \in DOMAIN Nest!Closes => Open' = SubSeq(Open, 1, Len(Open) - 1)
        /\ k \notin DOMAIN Nest!Opens \cup DOMAIN Nest!Closes => Open' = Open
    BY <1>1, ShiftOpen
  <2>3. Nest!Allowed(k)
    <3>1. InnerOf(Open) \in FramesAfter(Top)
      BY TopFrames DEF Parsing
    <3>2. /\ token \in Tokens /\ Shifts(Top, Kind[token], Row[token].to)
          /\ Meets(Top, token, context)
      BY <1>1, Shifting
    <3> QED BY <3>1, <3>2, ShiftAllowed
  <2>4. CASE k \in DOMAIN Nest!Opens
    <3> HIDE DEF k
    <3>1. Tally(Open') = CountGroup(Tally(Open), Nest!Opens[k])
      BY <2>2, <2>4, TallyAppend
    <3> QED BY <2>1, <2>4, <3>1, CountOpens DEF CountsOpen
  <2>5. CASE k \in DOMAIN Nest!Closes
    <3> HIDE DEF k
    <3>1. InnerOf(Open) \in Nest!Closes[k]
      BY <2>3, <2>5, ClosedInner
    <3>2. Open # <<>> /\ Open[Len(Open)] \in Nest!Closes[k]
      <4>1. "file" \notin Nest!Closes[k]
        BY <2>5, ClosesIs DEF Closers
      <4> QED BY <3>1, <4>1 DEF InnerOf
    <3> DEFINE front == SubSeq(Open, 1, Len(Open) - 1)
               f == Open[Len(Open)]
    <3>3. front \in Seq(Frames) /\ f \in Frames /\ Open = Append(front, f)
      BY <2>2, <3>2
    <3> HIDE DEF front, f
    <3>4. Tally(Open) = CountGroup(Tally(front), f)
      BY <3>3, TallyAppend
    <3>5. Counted(Tally(front))
      BY <3>3, TallyCounts
    <3>6. scopes' = Tally(front)
      BY <2>1, <2>5, <3>2, <3>3, <3>4, <3>5, CountCloses DEF f
    <3> QED BY <2>2, <2>5, <3>6 DEF CountsOpen, front
  <2>6. CASE k \notin DOMAIN Nest!Opens \cup DOMAIN Nest!Closes
    <3>1. Count(Tally(Open), k) = Tally(Open)
      <4> HIDE DEF k
      <4> QED BY <2>6, OpensIs, ClosesIs DEF Count, BraceTokens, ParenOpeners, BraceOpeners,
                 Openers, Closers
    <3> QED BY <2>1, <2>2, <2>6, <3>1 DEF CountsOpen
  <2> QED BY <2>4, <2>5, <2>6
<1>2. CASE ReduceItem
  BY <1>2, Reducing DEF ReduceItem, history, CountsOpen
<1>3. CASE ~ShiftToken /\ ~ReduceItem
  <2>1. stack' = stack /\ scopes' = scopes
    BY <1>3, Scanned DEF Next, ParseToken, AcceptFile, RejectToken, vars, history
  <2>2. Open' = Open
    BY <2>1, OpenIs, OpenIsPrimed
  <2> QED BY <2>1, <2>2 DEF CountsOpen
<1> QED BY <1>1, <1>2, <1>3

\* Whatever was read, the compiler's lexer counts the braces and parentheses the
\* editor's stack has open, one pair of counters for each interpolation
\* (InterpolationsAgree).
THEOREM BracesAgree == Spec => []InterpolationsAgree
<1>1. CountsOpen => InterpolationsAgree
  BY DEF CountsOpen, InterpolationsAgree
<1>2. Init => Parsing /\ CountsOpen
  BY ParsingInit, CountsOpenInit
<1>3. Parsing /\ CountsOpen /\ [Next]_vars => Parsing' /\ CountsOpen'
  BY ParsingNext, CountsOpenNext
<1> QED BY <1>1, <1>2, <1>3, PTL DEF Spec

(***************************************************************************)
(* What the compiler looks back at, and what the editor scans for.         *)
(***************************************************************************)
\* What the two know of the last token they took.
LastTaken ==
    outcome = "reading" /\ token = None =>
       \/ Top = 1 /\ kept = "none"
       \/ /\ \E u : Shifts(u, last, Top)
          /\ last \in Begins => kept = "begins"
          /\ \/ last \in Begins \cup RunEnders \cup {"comment"}
             \/ kept \in {"none", "cut", "other"}
             \/ last = "newline" /\ Scope(scopes).parens > 0

\* A newline counts nothing.
LEMMA NewlineCountsNothing == \A tally : Count(tally, "newline") = tally
BY DEF Count, BraceTokens, ParenOpeners

\* Some tokens are a kind of their own.
LEMMA OwnKinds ==
    ASSUME NEW t \in Tokens
    PROVE  /\ t \in {"comment", "newline"} \cup RunEnders => Kind[t] = t
           /\ Kind[t] \in Begins => t \notin Arrows \cup {"operator"} \cup RunEnders
BY DEF Kind, RunEnders, Begins, Keywords, TypeKinds, PlainKeywords, Containers, Starters,
       Punctuation, Booleans, Arrows, Simple

\* What is kept of a token.
LEMMA KeptIs ==
    ASSUME NEW look, NEW tally, NEW t \in Tokens, NEW next \in Kept(look, tally, t)
    PROVE  /\ Kind[t] \in Begins => next = "begins"
           /\ \/ Kind[t] \in Begins \cup RunEnders \cup {"comment"}
              \/ next \in {"none", "cut", "other"}
              \/ Kind[t] = "newline" /\ Scope(tally).parens > 0
           /\ look \in {"none", "begins", "cut", "other"}
                 => next \in {"none", "begins", "cut", "other"}
<1>1. CASE t = "comment"
  <2>1. Kind[t] = "comment" /\ next = look
    BY <1>1, OwnKinds DEF Kept
  <2> QED BY <2>1 DEF Begins
<1>2. CASE t = "newline" /\ (look = "none" \/ Scope(tally).parens > 0)
  <2>1. Kind[t] = "newline" /\ next = look
    BY <1>2, OwnKinds DEF Kept
  <2> QED BY <1>2, <2>1 DEF Begins
<1>3. CASE /\ t # "comment"
           /\ ~(t = "newline" /\ (look = "none" \/ Scope(tally).parens > 0))
  <2>1. next \in Left(t)
    BY <1>3 DEF Kept
  <2>2. CASE Kind[t] \in Begins
    <3>1. next = "begins"
      BY <2>1, <2>2, OwnKinds DEF Left
    <3> QED BY <2>2, <3>1
  <2>3. CASE Kind[t] \notin Begins /\ t \in RunEnders
    <3>1. Kind[t] \in RunEnders
      BY <2>3, OwnKinds
    <3>2. next \in {"begins", "cut", "other"}
      BY <2>1, <2>3 DEF Left, RunEnders, Arrows
    <3> QED BY <2>3, <3>1, <3>2
  <2>4. CASE Kind[t] \notin Begins /\ t \notin RunEnders
    <3>1. next \in {"cut", "other"}
      BY <2>1, <2>4 DEF Left, RunEnders
    <3> QED BY <2>4, <3>1
  <2> QED BY <2>2, <2>3, <2>4
<1> QED BY <1>1, <1>2, <1>3

\* LastTaken holds of the initial states.
LEMMA LastTakenInit == Init => LastTaken
<1> SUFFICES ASSUME Init PROVE LastTaken
  OBVIOUS
<1>1. stack = <<1>> /\ kept = "none"
  BY DEF Init
<1> QED BY <1>1 DEF LastTaken, Top

\* And every step keeps it.
LEMMA LastTakenNext == Parsing /\ LastTaken /\ [Next]_vars => LastTaken'
<1> SUFFICES ASSUME Parsing, LastTaken, [Next]_vars PROVE LastTaken'
  OBVIOUS
<1>1. CASE ReadToken
  <2>1. Top' = Top
    BY <1>1, Scanned DEF Top
  <2>2. outcome' = "reading" => last' = last
    BY <1>1, Scanned
  <2> QED BY <1>1, <2>1, <2>2, Scanned DEF LastTaken
<1>2. CASE ShiftToken
  <2> DEFINE k == Kind[token]
  <2>1. Shifts(Top, k, Top') /\ token \in Tokens
    BY <1>2, Shifting
  <2>2. last' = k /\ kept' \in Kept(kept, scopes, token) /\ scopes' = Count(scopes, k)
    BY <1>2 DEF ShiftToken
  <2>3. /\ k \in Begins => kept' = "begins"
        /\ \/ k \in Begins \cup RunEnders \cup {"comment"}
           \/ kept' \in {"none", "cut", "other"}
           \/ k = "newline" /\ Scope(scopes).parens > 0
    BY <2>1, <2>2, KeptIs
  <2> HIDE DEF k
  <2>4. k = "newline" => scopes' = scopes
    BY <2>2, NewlineCountsNothing
  <2>5. \E u : Shifts(u, last', Top')
    BY <2>1, <2>2
  <2> QED BY <2>2, <2>3, <2>4, <2>5 DEF LastTaken
<1>3. CASE ReduceItem
  <2>1. token \in Tokens /\ token' = token
    BY <1>3, Reducing
  <2> QED BY <2>1, GroupedAreNoTokens DEF None, LastTaken
<1>4. CASE AcceptFile \/ RejectToken
  BY <1>4 DEF AcceptFile, RejectToken, LastTaken
<1>5. CASE UNCHANGED vars
  BY <1>5 DEF vars, history, LastTaken, Top
<1> QED BY <1>1, <1>2, <1>3, <1>4, <1>5 DEF Next, ParseToken

\* Where a regex may begin, and after which tokens.
LEMMA RegexModes ==
    ASSUME NEW s \in 0 .. 60
    PROVE  LexMode[s] = 18 <=> s \in {3, 4, 5, 18, 22, 25, 26, 27, 28}
BY DEF LexMode

\* A regex may begin after a keyword, a starter or an opener only.
LEMMA RegexAfter ==
    ASSUME NEW u, NEW k, NEW s, Shifts(u, k, s)
    PROVE  /\ s \in {3, 4, 5, 18, 22, 25, 26, 27, 28}
                => k \in {"keyword", "extern", "mod", "starter"} \cup Openers
           /\ k \in Begins \cup {"PERCENT_LBRACE", "PERCENT_LBRACK"}
                => s \in {3, 4, 5, 22, 28}
<1>1. CASE u \in Places /\ Heads(k, s)
  BY <1>1 DEF Heads, Openers, BraceOpeners, ParenOpeners, BracketOpeners, Begins
<1>2. CASE u \in Places /\ k \in {"item", "identifier", "type_identifier", "newline", "comment"}
           /\ s = Onward(u)
  BY <1>2 DEF Onward, Begins
<1>3. CASE Ending(u, k, s) \/ Regex(u, k, s) \/ Continues(u, k, s)
  <2>1. k \notin Begins /\ s \notin {3, 4, 5, 18, 22, 25, 26, 27, 28}
    BY <1>3 DEF Ending, Regex, Continues, Begins
  <2>2. k \notin {"PERCENT_LBRACE", "PERCENT_LBRACK"}
    BY <1>3 DEF Ending, Regex, Continues
  <2> QED BY <2>1, <2>2
<1> QED BY <1>1, <1>2, <1>3 DEF Shifts

\* Where the two lexers read a "/" differently, the last token is one of those
\* SlashesAgree names.
THEOREM RegexesAgree == Spec => []SlashesAgree
<1>1. Parsing /\ LastTaken => SlashesAgree
  <2> SUFFICES ASSUME Parsing, LastTaken, outcome = "reading", token = None
               PROVE  SlashesAgree
    BY DEF SlashesAgree
  <2>1. Top \in 0 .. 60
    BY TopRow DEF Parsing
  <2>2. LexMode[Top] = 18 <=> Top \in {3, 4, 5, 18, 22, 25, 26, 27, 28}
    BY <2>1, RegexModes
  <2>3. CASE Top = 1 /\ kept = "none"
    BY <2>2, <2>3 DEF SlashesAgree, RegexLiteralStart
  <2>4. CASE ~(Top = 1 /\ kept = "none")
    <3>1. PICK u : Shifts(u, last, Top)
      BY <2>4 DEF LastTaken
    <3>2. /\ last \in Begins => kept = "begins"
          /\ \/ last \in Begins \cup RunEnders \cup {"comment"}
             \/ kept \in {"none", "cut", "other"}
             \/ last = "newline" /\ Scope(scopes).parens > 0
      BY <2>4 DEF LastTaken
    <3>3. ASSUME LexMode[Top] = 18, ~RegexLiteralStart(kept, scopes)
          PROVE  last \in {"keyword", "extern", "mod", "fn", "PERCENT_LBRACE",
                           "PERCENT_LBRACK", "DOLLAR_LPAREN"}
      <4>1. last \in {"keyword", "extern", "mod", "starter"} \cup Openers
        BY <2>2, <3>1, <3>3, RegexAfter
      <4>2. last \notin Begins
        BY <3>2, <3>3 DEF RegexLiteralStart
      <4> QED BY <4>1, <4>2 DEF Openers, BraceOpeners, ParenOpeners, BracketOpeners, Begins
    <3>4. ASSUME RegexLiteralStart(kept, scopes), LexMode[Top] # 18
          PROVE  \/ Interpolated(scopes) \/ kept \in {"none", "cut"} \/ last = "AT"
                 \/ last = "comment"
                 \/ last = "newline" /\ Scope(scopes).parens > 0
      <4>1. last \notin Begins /\ (last \in RunEnders => last = "AT")
        BY <2>2, <3>1, <3>4, RegexAfter DEF RunEnders
      <4>2. Interpolated(scopes) \/ kept \in {"none", "begins", "cut"}
        BY <3>4 DEF RegexLiteralStart
      <4> QED BY <3>2, <4>1, <4>2
    <3> QED BY <3>3, <3>4 DEF SlashesAgree
  <2> QED BY <2>3, <2>4
<1>2. Init => Parsing /\ LastTaken
  BY ParsingInit, LastTakenInit
<1>3. Parsing /\ LastTaken /\ [Next]_vars => Parsing' /\ LastTaken'
  BY ParsingNext, LastTakenNext
<1> QED BY <1>1, <1>2, <1>3, PTL DEF Spec

(***************************************************************************)
(* The scanner's rules.                                                    *)
(***************************************************************************)
\* Which function has a state's rules.
LEMMA RulesAre ==
    /\ Rules[17] = Entry17 /\ Rules[18] = Entry18 /\ Rules[19] = Entry19
    /\ \A s \in 1 .. 16 : Rules[s] = Unfinished[s]
    /\ \A s \in 31 .. 41 : Rules[s] = ArrowsAndPipes[s]
    /\ \A s \in {44, 45, 47} \cup 49 .. 56 : Rules[s] = NamesAndNumbers[s]
    /\ \A s \in {59, 60, 62, 65, 66} : Rules[s] = StringsAndRegexes[s]
    /\ \A s \in 67 .. 69 \cup 74 .. 75 : Rules[s] = Comments[s]
    /\ \A s \in 70 .. 73 : Rules[s] = Fences[s]
    /\ \A s \in 77 .. 89 : Rules[s] = Operators[s]
    /\ \A s \in Complete : DOMAIN Rules[s] = {}
<1>1. /\ DOMAIN Unfinished = 1 .. 16 /\ DOMAIN ArrowsAndPipes = 31 .. 41
      /\ DOMAIN NamesAndNumbers = {44, 45, 47} \cup 49 .. 56
      /\ DOMAIN StringsAndRegexes = {59, 60, 62, 65, 66}
      /\ DOMAIN Comments = 67 .. 69 \cup 74 .. 75
      /\ DOMAIN Fences = 70 .. 73 /\ DOMAIN Operators = 77 .. 89
  BY DEF Unfinished, ArrowsAndPipes, NamesAndNumbers, StringsAndRegexes, Comments, Fences, Operators
<1>2. Rules[17] = Entry17 /\ Rules[18] = Entry18 /\ Rules[19] = Entry19
  BY <1>1 DEF Rules, Complete
<1>3. ASSUME NEW s \in 1 .. 16 PROVE Rules[s] = Unfinished[s]
  BY <1>1 DEF Rules, Complete
<1>4. ASSUME NEW s \in 31 .. 41 PROVE Rules[s] = ArrowsAndPipes[s]
  BY <1>1 DEF Rules, Complete
<1>5. ASSUME NEW s \in {44, 45, 47} \cup 49 .. 56 PROVE Rules[s] = NamesAndNumbers[s]
  BY <1>1 DEF Rules, Complete
<1>6. ASSUME NEW s \in {59, 60, 62, 65, 66} PROVE Rules[s] = StringsAndRegexes[s]
  BY <1>1 DEF Rules, Complete
<1>7. ASSUME NEW s \in 67 .. 69 \cup 74 .. 75 PROVE Rules[s] = Comments[s]
  BY <1>1 DEF Rules, Complete
<1>8. ASSUME NEW s \in 70 .. 73 PROVE Rules[s] = Fences[s]
  BY <1>1 DEF Rules, Complete
<1>9. ASSUME NEW s \in 77 .. 89 PROVE Rules[s] = Operators[s]
  BY <1>1 DEF Rules, Complete
<1>10. ASSUME NEW s \in Complete PROVE DOMAIN Rules[s] = {}
  <2>1. Rules[s] = Each({}, Stop)
    BY <1>1 DEF Rules, Complete
  <2> QED BY <2>1, EachDomain
<1> QED BY <1>2, <1>3, <1>4, <1>5, <1>6, <1>7, <1>8, <1>9, <1>10

\* The states out of any comment, but the one recovery starts from.
Elsewhere == 1 .. 66 \cup 76 .. 91

\* What leads into no comment, but from its first character.
MayLead(c, to) == to \in Elsewhere \/ (c = "#" /\ to = 68)

Leads(rules) == \A c \in DOMAIN rules : MayLead(c, rules[c])

\* A rule for one character.
LEMMA LeadsOne ==
    ASSUME NEW x, NEW to \in Elsewhere
    PROVE  Leads(One(x, to))
<1>1. MayLead(x, to)
  BY DEF MayLead
<1> QED BY <1>1 DEF Leads, One

\* The rule that begins a comment.
LEMMA LeadsComment == Leads(One("#", 68))
<1>1. MayLead("#", 68)
  BY DEF MayLead
<1> QED BY <1>1 DEF Leads, One

\* A rule for several.
LEMMA LeadsEach ==
    ASSUME NEW S, NEW to \in Elsewhere
    PROVE  Leads(Each(S, to))
<1>1. \A c \in S : MayLead(c, to)
  BY DEF MayLead
<1> QED BY <1>1, EachDomain DEF Leads

\* Two functions of rules.
LEMMA LeadsBoth ==
    ASSUME NEW f, NEW g, Leads(f), Leads(g)
    PROVE  Leads(f ++ g)
BY DEF Leads, ++

\* Five of them.
LEMMA LeadsFive ==
    ASSUME NEW f1, NEW f2, NEW f3, NEW f4, NEW f5, Leads(f1), Leads(f2), Leads(f3),
           Leads(f4), Leads(f5)
    PROVE  Leads(f1 ++ f2 ++ f3 ++ f4 ++ f5)
<1>1. Leads(f1 ++ f2 ++ f3)
  BY LeadsBoth
<1>2. Leads(f1 ++ f2 ++ f3 ++ f4)
  BY <1>1, LeadsBoth
<1> QED BY <1>2, LeadsBoth

\* And six.
LEMMA LeadsSix ==
    ASSUME NEW f1, NEW f2, NEW f3, NEW f4, NEW f5, NEW f6, Leads(f1), Leads(f2), Leads(f3),
           Leads(f4), Leads(f5), Leads(f6)
    PROVE  Leads(f1 ++ f2 ++ f3 ++ f4 ++ f5 ++ f6)
BY LeadsFive, LeadsBoth

\* The rules of each function lead into no comment.
LEMMA LeadsMore == Leads(MoreOperator)
<1>1. 87 \in Elsewhere
  BY DEF Elsewhere
<1> QED BY <1>1, LeadsEach DEF MoreOperator

LEMMA LeadsUnfinished == \A s \in 1 .. 16 : Leads(Unfinished[s])
<1>1. 1 .. 66 \subseteq Elsewhere /\ 76 .. 91 \subseteq Elsewhere
  BY DEF Elsewhere
<1>2. Leads(Unfinished[1])
  <2>1. Unfinished[1] = One("\"", 58) ++ One("#", 59) ++ One("\\", 15) ++ Each(Char, 60)
    BY DEF Unfinished
  <2>2. 58 \in Elsewhere /\ 59 \in Elsewhere /\ 15 \in Elsewhere /\ 60 \in Elsewhere
    BY <1>1
  <2>3. /\ Leads(One("\"", 58)) /\ Leads(One("#", 59)) /\ Leads(One("\\", 15))
        /\ Leads(Each(Char, 60))
    BY <2>2, LeadsOne, LeadsEach
  <2> QED BY <2>1, <2>3, LeadsBoth
<1>3. Leads(Unfinished[2])
  BY <1>1, LeadsOne, LeadsEach, LeadsBoth DEF Unfinished
<1>4. Leads(Unfinished[3])
  BY <1>1, LeadsOne, LeadsEach, LeadsBoth DEF Unfinished
<1>5. Leads(Unfinished[4])
  BY <1>1, LeadsOne, LeadsEach, LeadsBoth DEF Unfinished
<1>6. Leads(Unfinished[5])
  BY <1>1, LeadsOne, LeadsEach, LeadsBoth DEF Unfinished
<1>7. Leads(Unfinished[6])
  BY <1>1, LeadsOne, LeadsEach, LeadsBoth DEF Unfinished
<1>8. Leads(Unfinished[7])
  BY <1>1, LeadsOne, LeadsEach, LeadsBoth DEF Unfinished
<1>9. Leads(Unfinished[8])
  BY <1>1, LeadsOne, LeadsEach, LeadsBoth DEF Unfinished
<1>10. Leads(Unfinished[9])
  BY <1>1, LeadsOne, LeadsEach, LeadsBoth DEF Unfinished
<1>11. Leads(Unfinished[10])
  BY <1>1, LeadsOne, LeadsEach, LeadsBoth DEF Unfinished
<1>12. Leads(Unfinished[11])
  BY <1>1, LeadsOne, LeadsEach, LeadsBoth DEF Unfinished
<1>13. Leads(Unfinished[12])
  BY <1>1, LeadsOne, LeadsEach, LeadsBoth DEF Unfinished
<1>14. Leads(Unfinished[13])
  BY <1>1, LeadsOne, LeadsEach, LeadsBoth DEF Unfinished
<1>15. Leads(Unfinished[14])
  BY <1>1, LeadsOne, LeadsEach, LeadsBoth DEF Unfinished
<1>16. Leads(Unfinished[15])
  BY <1>1, LeadsOne, LeadsEach, LeadsBoth DEF Unfinished
<1>17. Leads(Unfinished[16])
  BY <1>1, LeadsOne, LeadsEach, LeadsBoth DEF Unfinished
<1> QED BY <1>2, <1>3, <1>4, <1>5, <1>6, <1>7, <1>8, <1>9, <1>10, <1>11, <1>12, <1>13, <1>14, <1>15, <1>16, <1>17

LEMMA LeadsArrows == \A s \in 31 .. 41 : Leads(ArrowsAndPipes[s])
<1>1. 1 .. 66 \subseteq Elsewhere /\ 76 .. 91 \subseteq Elsewhere
  BY DEF Elsewhere
<1>2. Leads(ArrowsAndPipes[31])
  BY <1>1, LeadsOne, LeadsEach, LeadsBoth, LeadsMore DEF ArrowsAndPipes
<1>3. Leads(ArrowsAndPipes[32])
  BY <1>1, LeadsOne, LeadsEach, LeadsBoth, LeadsMore DEF ArrowsAndPipes
<1>4. Leads(ArrowsAndPipes[33])
  BY <1>1, LeadsOne, LeadsEach, LeadsBoth, LeadsMore DEF ArrowsAndPipes
<1>5. Leads(ArrowsAndPipes[34])
  BY <1>1, LeadsOne, LeadsEach, LeadsBoth, LeadsMore DEF ArrowsAndPipes
<1>6. Leads(ArrowsAndPipes[35])
  BY <1>1, LeadsOne, LeadsEach, LeadsBoth, LeadsMore DEF ArrowsAndPipes
<1>7. Leads(ArrowsAndPipes[36])
  BY <1>1, LeadsOne, LeadsEach, LeadsBoth, LeadsMore DEF ArrowsAndPipes
<1>8. Leads(ArrowsAndPipes[37])
  BY <1>1, LeadsOne, LeadsEach, LeadsBoth, LeadsMore DEF ArrowsAndPipes
<1>9. Leads(ArrowsAndPipes[38])
  BY <1>1, LeadsOne, LeadsEach, LeadsBoth, LeadsMore DEF ArrowsAndPipes
<1>10. Leads(ArrowsAndPipes[39])
  BY <1>1, LeadsOne, LeadsEach, LeadsBoth, LeadsMore DEF ArrowsAndPipes
<1>11. Leads(ArrowsAndPipes[40])
  BY <1>1, LeadsOne, LeadsEach, LeadsBoth, LeadsMore DEF ArrowsAndPipes
<1>12. Leads(ArrowsAndPipes[41])
  BY <1>1, LeadsOne, LeadsEach, LeadsBoth, LeadsMore DEF ArrowsAndPipes
<1> QED BY <1>2, <1>3, <1>4, <1>5, <1>6, <1>7, <1>8, <1>9, <1>10, <1>11, <1>12

LEMMA LeadsNames == \A s \in {44, 45, 47} \cup 49 .. 56 : Leads(NamesAndNumbers[s])
<1>1. 1 .. 66 \subseteq Elsewhere /\ 76 .. 91 \subseteq Elsewhere
  BY DEF Elsewhere
<1>2. Leads(NamesAndNumbers[44])
  BY <1>1, LeadsOne, LeadsEach, LeadsBoth DEF NamesAndNumbers
<1>3. Leads(NamesAndNumbers[45])
  BY <1>1, LeadsOne, LeadsEach, LeadsBoth DEF NamesAndNumbers
<1>4. Leads(NamesAndNumbers[47])
  BY <1>1, LeadsOne, LeadsEach, LeadsBoth DEF NamesAndNumbers
<1>5. Leads(NamesAndNumbers[49])
  BY <1>1, LeadsOne, LeadsEach, LeadsBoth DEF NamesAndNumbers
<1>6. Leads(NamesAndNumbers[50])
  BY <1>1, LeadsOne, LeadsEach, LeadsBoth DEF NamesAndNumbers
<1>7. Leads(NamesAndNumbers[51])
  BY <1>1, LeadsOne, LeadsEach, LeadsBoth DEF NamesAndNumbers
<1>8. Leads(NamesAndNumbers[52])
  BY <1>1, LeadsOne, LeadsEach, LeadsBoth DEF NamesAndNumbers
<1>9. Leads(NamesAndNumbers[53])
  BY <1>1, LeadsOne, LeadsEach, LeadsBoth DEF NamesAndNumbers
<1>10. Leads(NamesAndNumbers[54])
  BY <1>1, LeadsOne, LeadsEach, LeadsBoth DEF NamesAndNumbers
<1>11. Leads(NamesAndNumbers[55])
  BY <1>1, LeadsOne, LeadsEach, LeadsBoth DEF NamesAndNumbers
<1>12. Leads(NamesAndNumbers[56])
  BY <1>1, LeadsOne, LeadsEach, LeadsBoth DEF NamesAndNumbers
<1> QED BY <1>2, <1>3, <1>4, <1>5, <1>6, <1>7, <1>8, <1>9, <1>10, <1>11, <1>12

LEMMA LeadsStrings == \A s \in {59, 60, 62, 65, 66} : Leads(StringsAndRegexes[s])
<1>1. 1 .. 66 \subseteq Elsewhere /\ 76 .. 91 \subseteq Elsewhere
  BY DEF Elsewhere
<1>2. Leads(StringsAndRegexes[59])
  <2>1. StringsAndRegexes[59] = One("{", 63)
    BY DEF StringsAndRegexes
  <2>2. 63 \in Elsewhere
    BY <1>1
  <2>3. Leads(One("{", 63))
    BY <2>2, LeadsOne
  <2> QED BY <2>1, <2>3
<1>3. Leads(StringsAndRegexes[60])
  BY <1>1, LeadsOne, LeadsEach, LeadsBoth, LeadsMore DEF StringsAndRegexes
<1>4. Leads(StringsAndRegexes[62])
  BY <1>1, LeadsOne, LeadsEach, LeadsBoth, LeadsMore DEF StringsAndRegexes
<1>5. Leads(StringsAndRegexes[65])
  BY <1>1, LeadsOne, LeadsEach, LeadsBoth, LeadsMore DEF StringsAndRegexes
<1>6. Leads(StringsAndRegexes[66])
  BY <1>1, LeadsOne, LeadsEach, LeadsBoth, LeadsMore DEF StringsAndRegexes
<1> QED BY <1>2, <1>3, <1>4, <1>5, <1>6

LEMMA LeadsOperators == \A s \in 77 .. 89 : Leads(Operators[s])
<1>1. 1 .. 66 \subseteq Elsewhere /\ 76 .. 91 \subseteq Elsewhere
  BY DEF Elsewhere
<1>2. Leads(Operators[77])
  BY <1>1, LeadsOne, LeadsEach, LeadsBoth, LeadsMore DEF Operators
<1>3. Leads(Operators[78])
  BY <1>1, LeadsOne, LeadsEach, LeadsBoth, LeadsMore DEF Operators
<1>4. Leads(Operators[79])
  BY <1>1, LeadsOne, LeadsEach, LeadsBoth, LeadsMore DEF Operators
<1>5. Leads(Operators[80])
  BY <1>1, LeadsOne, LeadsEach, LeadsBoth, LeadsMore DEF Operators
<1>6. Leads(Operators[81])
  BY <1>1, LeadsOne, LeadsEach, LeadsBoth, LeadsMore DEF Operators
<1>7. Leads(Operators[82])
  BY <1>1, LeadsOne, LeadsEach, LeadsBoth, LeadsMore DEF Operators
<1>8. Leads(Operators[83])
  BY <1>1, LeadsOne, LeadsEach, LeadsBoth, LeadsMore DEF Operators
<1>9. Leads(Operators[84])
  BY <1>1, LeadsOne, LeadsEach, LeadsBoth, LeadsMore DEF Operators
<1>10. Leads(Operators[85])
  <2>1. Operators[85] = One("[", 29) ++ One("{", 23)
    BY DEF Operators
  <2>2. Leads(One("[", 29))
    BY <1>1, LeadsOne
  <2>3. 23 \in Elsewhere
    BY <1>1
  <2>4. Leads(One("{", 23))
    BY <2>3, LeadsOne
  <2> QED BY <2>1, <2>2, <2>4, LeadsBoth
<1>11. Leads(Operators[86])
  BY <1>1, LeadsOne, LeadsEach, LeadsBoth, LeadsMore DEF Operators
<1>12. Leads(Operators[87])
  BY <1>1, LeadsOne, LeadsEach, LeadsBoth, LeadsMore DEF Operators
<1>13. Leads(Operators[88])
  BY <1>1, LeadsOne, LeadsEach, LeadsBoth, LeadsMore DEF Operators
<1>14. Leads(Operators[89])
  BY <1>1, LeadsOne, LeadsEach, LeadsBoth, LeadsMore DEF Operators
<1> QED BY <1>2, <1>3, <1>4, <1>5, <1>6, <1>7, <1>8, <1>9, <1>10, <1>11, <1>12, <1>13, <1>14

LEMMA LeadsCommon == Leads(CommonEntry)
<1>1. 1 .. 66 \subseteq Elsewhere /\ 76 .. 91 \subseteq Elsewhere
  BY DEF Elsewhere
<1>2. Leads(Brackets)
  <2>1. 25 \in Elsewhere /\ 27 \in Elsewhere /\ 28 \in Elsewhere /\ 30 \in Elsewhere
        /\ 22 \in Elsewhere /\ 24 \in Elsewhere
    BY <1>1
  <2> DEFINE f1 == One("(", 25)
             f2 == One(")", 27)
             f3 == One("[", 28)
             f4 == One("]", 30)
             f5 == One("{", 22)
             f6 == One("}", 24)
  <2>2. Leads(f1) /\ Leads(f2) /\ Leads(f3) /\ Leads(f4) /\ Leads(f5) /\ Leads(f6)
    BY <2>1, LeadsOne, Zenon
  <2>3. Brackets = f1 ++ f2 ++ f3 ++ f4 ++ f5 ++ f6
    BY Zenon DEF Brackets
  <2> HIDE DEF f1, f2, f3, f4, f5, f6
  <2>4. Leads(f1 ++ f2 ++ f3 ++ f4 ++ f5 ++ f6)
    BY <2>2, LeadsSix, Zenon
  <2> QED BY <2>3, <2>4, Zenon
<1>3. Leads(Separators)
  <2>1. 42 \in Elsewhere /\ 90 \in Elsewhere /\ 34 \in Elsewhere /\ 91 \in Elsewhere
        /\ 21 \in Elsewhere /\ 20 \in Elsewhere
    BY <1>1
  <2> DEFINE f1 == One("\n", 42)
             f2 == One(",", 90)
             f3 == One(":", 34)
             f4 == One(";", 91)
             f5 == One("@", 21)
             f6 == One(Eof, 20)
  <2>2. Leads(f1) /\ Leads(f2) /\ Leads(f3) /\ Leads(f4) /\ Leads(f5) /\ Leads(f6)
    BY <2>1, LeadsOne, Zenon
  <2>3. Separators = f1 ++ f2 ++ f3 ++ f4 ++ f5 ++ f6
    BY Zenon DEF Separators
  <2> HIDE DEF f1, f2, f3, f4, f5, f6
  <2>4. Leads(f1 ++ f2 ++ f3 ++ f4 ++ f5 ++ f6)
    BY <2>2, LeadsSix, Zenon
  <2> QED BY <2>3, <2>4, Zenon
<1>4. Leads(Signs)
  <2>1. 80 \in Elsewhere /\ 78 \in Elsewhere /\ 31 \in Elsewhere /\ 89 \in Elsewhere
        /\ 35 \in Elsewhere /\ 76 \in Elsewhere
    BY <1>1
  <2> DEFINE f1 == One("!", 80)
             f2 == One("-", 78)
             f3 == One("=", 31)
             f4 == One("?", 89)
             f5 == One("|", 35)
             f6 == One("envelope", 76)
  <2>2. Leads(f1) /\ Leads(f2) /\ Leads(f3) /\ Leads(f4) /\ Leads(f5) /\ Leads(f6)
    BY <2>1, LeadsOne, Zenon
  <2>3. Signs = f1 ++ f2 ++ f3 ++ f4 ++ f5 ++ f6
    BY Zenon DEF Signs
  <2> HIDE DEF f1, f2, f3, f4, f5, f6
  <2>4. Leads(f1 ++ f2 ++ f3 ++ f4 ++ f5 ++ f6)
    BY <2>2, LeadsSix, Zenon
  <2> QED BY <2>3, <2>4, Zenon
<1>5. Leads(Prefixes)
  <2>1. 77 \in Elsewhere /\ 85 \in Elsewhere /\ 2 \in Elsewhere /\ 50 \in Elsewhere
        /\ 6 \in Elsewhere
    BY <1>1
  <2> DEFINE f1 == One("$", 77)
             f2 == One("%", 85)
             f3 == One("'", 2)
             f4 == One("0", 50)
             f5 == One("backquote", 6)
  <2>2. Leads(f1) /\ Leads(f2) /\ Leads(f3) /\ Leads(f4) /\ Leads(f5)
    BY <2>1, LeadsOne, Zenon
  <2>3. Prefixes = f1 ++ f2 ++ f3 ++ f4 ++ f5
    BY Zenon DEF Prefixes
  <2> HIDE DEF f1, f2, f3, f4, f5
  <2>4. Leads(f1 ++ f2 ++ f3 ++ f4 ++ f5)
    BY <2>2, LeadsFive, Zenon
  <2> QED BY <2>3, <2>4, Zenon
<1> QED BY <1>2, <1>3, <1>4, <1>5, LeadsBoth DEF CommonEntry

\* The rules for letters, digits and blanks.
LEMMA LeadsRanges ==
    ASSUME NEW blank \in Elsewhere, NEW operators, NEW upper \in Elsewhere
    PROVE  Leads(EntryRanges(blank, operators, upper))
<1>1. 87 \in Elsewhere /\ 51 \in Elsewhere /\ 44 \in Elsewhere
  BY DEF Elsewhere
<1> QED BY <1>1, LeadsEach, LeadsBoth DEF EntryRanges

\* The states a token begins from lead to a comment by its "#" only.
LEMMA LeadsEntries == Leads(Entry17) /\ Leads(Entry18) /\ Leads(Entry19)
<1>1. 1 .. 66 \subseteq Elsewhere /\ 76 .. 91 \subseteq Elsewhere
  BY DEF Elsewhere
<1>2. Leads(Entry17)
  <2>1. 19 \in Elsewhere /\ 37 \in Elsewhere /\ 45 \in Elsewhere /\ 57 \in Elsewhere
    BY <1>1
  <2> DEFINE quote  == One("\"", 57)
             hash   == One("#", 68)
             dot    == One(".", 37)
             ranges == EntryRanges(19, Span("&", "/") \cup Span("<", ">")
                                       \cup Span("\\", "^") \cup {"~"}, 45)
  <2>2. Leads(quote) /\ Leads(dot)
    BY <2>1, LeadsOne, Zenon
  <2>3. Leads(hash) /\ Leads(ranges)
    BY <2>1, LeadsComment, LeadsRanges, Zenon
  <2>4. Entry17 = quote ++ hash ++ dot ++ CommonEntry ++ ranges
    BY Zenon DEF Entry17
  <2> HIDE DEF quote, hash, dot, ranges
  <2>5. Leads(quote ++ hash ++ dot ++ CommonEntry ++ ranges)
    BY <2>2, <2>3, LeadsCommon, LeadsFive, Zenon
  <2> QED BY <2>4, <2>5, Zenon
<1>3. Leads(Entry18)
  <2>1. 18 \in Elsewhere /\ 45 \in Elsewhere /\ 57 \in Elsewhere /\ 81 \in Elsewhere /\ 82 \in Elsewhere
    BY <1>1
  <2> DEFINE quote  == One("\"", 57)
             hash   == One("#", 68)
             dot    == One(".", 81)
             slash  == One("/", 82)
             ranges == EntryRanges(18, Span("&", "+") \cup Span("<", ">")
                                       \cup Span("\\", "^") \cup {"~"}, 45)
  <2>2. Leads(quote) /\ Leads(dot) /\ Leads(slash)
    BY <2>1, LeadsOne, Zenon
  <2>3. Leads(hash) /\ Leads(ranges)
    BY <2>1, LeadsComment, LeadsRanges, Zenon
  <2>4. Entry18 = quote ++ hash ++ dot ++ slash ++ CommonEntry ++ ranges
    BY Zenon DEF Entry18
  <2> HIDE DEF quote, hash, dot, slash, ranges
  <2>5. Leads(quote ++ hash ++ dot ++ slash ++ CommonEntry ++ ranges)
    BY <2>2, <2>3, LeadsCommon, LeadsSix, Zenon
  <2> QED BY <2>4, <2>5, Zenon
<1>4. Leads(Entry19)
  <2>1. 19 \in Elsewhere /\ 45 \in Elsewhere /\ 57 \in Elsewhere /\ 81 \in Elsewhere
    BY <1>1
  <2> DEFINE quote  == One("\"", 57)
             hash   == One("#", 68)
             dot    == One(".", 81)
             ranges == EntryRanges(19, Span("&", "/") \cup Span("<", ">")
                                       \cup Span("\\", "^") \cup {"~"}, 45)
  <2>2. Leads(quote) /\ Leads(dot)
    BY <2>1, LeadsOne, Zenon
  <2>3. Leads(hash) /\ Leads(ranges)
    BY <2>1, LeadsComment, LeadsRanges, Zenon
  <2>4. Entry19 = quote ++ hash ++ dot ++ CommonEntry ++ ranges
    BY Zenon DEF Entry19
  <2> HIDE DEF quote, hash, dot, ranges
  <2>5. Leads(quote ++ hash ++ dot ++ CommonEntry ++ ranges)
    BY <2>2, <2>3, LeadsCommon, LeadsFive, Zenon
  <2> QED BY <2>4, <2>5, Zenon
<1> QED BY <1>2, <1>3, <1>4

\* A state that is in no comment.
LEMMA LeadsElsewhere ==
    ASSUME NEW s \in Elsewhere
    PROVE  Leads(Rules[s])
<1>1. CASE s \in Complete
  BY <1>1, RulesAre DEF Leads
<1>2. CASE s \notin Complete
  <2>1. s \in 1 .. 16 \/ s \in {17, 18, 19} \/ s \in 31 .. 41
        \/ s \in {44, 45, 47} \cup 49 .. 56 \/ s \in {59, 60, 62, 65, 66} \/ s \in 77 .. 89
    BY <1>2 DEF Elsewhere, Complete
  <2> QED BY <2>1, RulesAre, LeadsUnfinished, LeadsArrows, LeadsNames, LeadsStrings,
             LeadsOperators, LeadsEntries
<1> QED BY <1>1, <1>2

\* Step, by the rules.
LEMMA StepIs ==
    ASSUME NEW s \in ScanStates, NEW c \in Char \cup {Eof}
    PROVE  Step[s][c] = IF c \in DOMAIN Rules[s] THEN Rules[s][c] ELSE Stop
BY DEF Step

\* Out of a comment the scanner stays out of them, or begins one at a "#".
LEMMA StepElsewhere ==
    ASSUME NEW s \in Elsewhere, NEW c \in Char \cup {Eof}, Step[s][c] # Stop
    PROVE  MayLead(c, Step[s][c])
<1>1. s \in ScanStates
  BY DEF ScanStates, Elsewhere
<1>2. c \in DOMAIN Rules[s] /\ Step[s][c] = Rules[s][c]
  BY <1>1, StepIs
<1>3. Leads(Rules[s])
  BY LeadsElsewhere
<1> QED BY <1>2, <1>3 DEF Leads

\* Where each character leads in a comment.
LEMMA Step68 ==
    ASSUME NEW c \in Char \cup {Eof}
    PROVE  Step[68][c] = IF c = "#" THEN 74 ELSE IF c \in Inline THEN 69 ELSE Stop
<1>1. Comments[68] = One("#", 74) ++ Each(Inline, 69)
  BY DEF Comments
<1>2. 68 \in ScanStates /\ 68 \in 67 .. 69 \cup 74 .. 75
  BY DEF ScanStates
<1>3. Rules[68] = Comments[68]
  BY <1>2, RulesAre
<1>4. Step[68][c] = IF c \in DOMAIN Comments[68] THEN Comments[68][c] ELSE Stop
  BY <1>2, <1>3, StepIs
<1> QED BY <1>1, <1>4 DEF One, Each, ++

LEMMA Step69 ==
    ASSUME NEW c \in Char \cup {Eof}
    PROVE  Step[69][c] = IF c \in Inline THEN 69 ELSE Stop
<1>1. Comments[69] = Each(Inline, 69)
  BY DEF Comments
<1>2. 69 \in ScanStates /\ 69 \in 67 .. 69 \cup 74 .. 75
  BY DEF ScanStates
<1>3. Rules[69] = Comments[69]
  BY <1>2, RulesAre
<1>4. Step[69][c] = IF c \in DOMAIN Comments[69] THEN Comments[69][c] ELSE Stop
  BY <1>2, <1>3, StepIs
<1> QED BY <1>1, <1>4 DEF One, Each, ++

LEMMA Step74 ==
    ASSUME NEW c \in Char \cup {Eof}
    PROVE  Step[74][c] = IF c = "#" THEN 73 ELSE IF c \in Inline THEN 75 ELSE Stop
<1>1. Comments[74] = One("#", 73) ++ Each(Inline, 75)
  BY DEF Comments
<1>2. 74 \in ScanStates /\ 74 \in 67 .. 69 \cup 74 .. 75
  BY DEF ScanStates
<1>3. Rules[74] = Comments[74]
  BY <1>2, RulesAre
<1>4. Step[74][c] = IF c \in DOMAIN Comments[74] THEN Comments[74][c] ELSE Stop
  BY <1>2, <1>3, StepIs
<1> QED BY <1>1, <1>4 DEF One, Each, ++

LEMMA Step75 ==
    ASSUME NEW c \in Char \cup {Eof}
    PROVE  Step[75][c] = IF c \in Inline THEN 75 ELSE Stop
<1>1. Comments[75] = Each(Inline, 75)
  BY DEF Comments
<1>2. 75 \in ScanStates /\ 75 \in 67 .. 69 \cup 74 .. 75
  BY DEF ScanStates
<1>3. Rules[75] = Comments[75]
  BY <1>2, RulesAre
<1>4. Step[75][c] = IF c \in DOMAIN Comments[75] THEN Comments[75][c] ELSE Stop
  BY <1>2, <1>3, StepIs
<1> QED BY <1>1, <1>4 DEF One, Each, ++

LEMMA Step70 ==
    ASSUME NEW c \in Char \cup {Eof}
    PROVE  Step[70][c] = IF c \in Margin THEN 70 ELSE IF c = "#" THEN 72
                   ELSE IF c \in Char THEN 73 ELSE Stop
<1>1. Fences[70] = Each(Margin, 70) ++ One("#", 72) ++ Each(Char, 73)
  BY DEF Fences
<1>2. 70 \in ScanStates /\ 70 \in 70 .. 73
  BY DEF ScanStates
<1>3. Rules[70] = Fences[70]
  BY <1>2, RulesAre
<1>4. Step[70][c] = IF c \in DOMAIN Fences[70] THEN Fences[70][c] ELSE Stop
  BY <1>2, <1>3, StepIs
<1> QED BY <1>1, <1>4 DEF One, Each, ++

LEMMA Step71 ==
    ASSUME NEW c \in Char \cup {Eof}
    PROVE  Step[71][c] = IF c = "\n" THEN 70 ELSE IF c = "#" THEN 75
                   ELSE IF c \in Char THEN 73 ELSE Stop
<1>1. Fences[71] = One("\n", 70) ++ One("#", 75) ++ Each(Char, 73)
  BY DEF Fences
<1>2. 71 \in ScanStates /\ 71 \in 70 .. 73
  BY DEF ScanStates
<1>3. Rules[71] = Fences[71]
  BY <1>2, RulesAre
<1>4. Step[71][c] = IF c \in DOMAIN Fences[71] THEN Fences[71][c] ELSE Stop
  BY <1>2, <1>3, StepIs
<1> QED BY <1>1, <1>4 DEF One, Each, ++

LEMMA Step72 ==
    ASSUME NEW c \in Char \cup {Eof}
    PROVE  Step[72][c] = IF c = "\n" THEN 70 ELSE IF c = "#" THEN 71
                   ELSE IF c \in Char THEN 73 ELSE Stop
<1>1. Fences[72] = One("\n", 70) ++ One("#", 71) ++ Each(Char, 73)
  BY DEF Fences
<1>2. 72 \in ScanStates /\ 72 \in 70 .. 73
  BY DEF ScanStates
<1>3. Rules[72] = Fences[72]
  BY <1>2, RulesAre
<1>4. Step[72][c] = IF c \in DOMAIN Fences[72] THEN Fences[72][c] ELSE Stop
  BY <1>2, <1>3, StepIs
<1> QED BY <1>1, <1>4 DEF One, Each, ++

LEMMA Step73 ==
    ASSUME NEW c \in Char \cup {Eof}
    PROVE  Step[73][c] = IF c = "\n" THEN 70 ELSE IF c \in Char THEN 73 ELSE Stop
<1>1. Fences[73] = One("\n", 70) ++ Each(Char, 73)
  BY DEF Fences
<1>2. 73 \in ScanStates /\ 73 \in 70 .. 73
  BY DEF ScanStates
<1>3. Rules[73] = Fences[73]
  BY <1>2, RulesAre
<1>4. Step[73][c] = IF c \in DOMAIN Fences[73] THEN Fences[73][c] ELSE Stop
  BY <1>2, <1>3, StepIs
<1> QED BY <1>1, <1>4 DEF One, Each, ++

\* The comment the compiler is in where the editor's scanner is in one.
InComment(s, at) ==
    \/ s = 68 /\ at = "one"
    \/ s = 74 /\ at = "two"
    \/ s \in {69, 75} /\ at = "rest"
    \/ s = 70 /\ at = "margin"
    \/ s = 71 /\ at = "hashes"
    \/ s = 72 /\ at = "hash"
    \/ s = 73 /\ at = "text"

SameComment(s, at) == (s \in Elsewhere /\ at = NoComment) \/ InComment(s, at)

\* The compiler's lexer in a line comment and in a fence.
LEMMA CommentLines ==
    ASSUME NEW c
    PROVE  /\ Comment("one", c) = IF c = "#" THEN "two" ELSE IF c = "\n" THEN Ended ELSE "rest"
           /\ Comment("two", c) = IF c = "#" THEN "text" ELSE IF c = "\n" THEN Ended ELSE "rest"
           /\ Comment("rest", c) = IF c = "\n" THEN Ended ELSE "rest"
BY DEF Comment, RestOfLine, NoComment, Ended

\* And between the fences.
LEMMA CommentFences ==
    ASSUME NEW c
    PROVE  /\ Comment("margin", c) = IF c \in Margin THEN "margin"
                                     ELSE IF c = "#" THEN "hash" ELSE "text"
           /\ Comment("hash", c) = IF c = "\n" THEN "margin"
                                   ELSE IF c = "#" THEN "hashes" ELSE "text"
           /\ Comment("hashes", c) = IF c = "\n" THEN "margin"
                                     ELSE IF c = "#" THEN "rest" ELSE "text"
           /\ Comment("text", c) = IF c = "\n" THEN "margin" ELSE "text"
BY DEF Comment, RestOfFence, NoComment, Ended, Margin

\* A character leads the two the same way.
LEMMA CommentSteps ==
    ASSUME NEW s, NEW at, InComment(s, at), NEW c \in Char \cup {Eof}, Step[s][c] # Stop
    PROVE  InComment(Step[s][c], Comment(at, c)) /\ Step[s][c] \in 67 .. 75
<1>1. CASE s = 68 /\ at = "one"
  BY <1>1, Step68, CommentLines DEF InComment, Inline
<1>2. CASE s = 74 /\ at = "two"
  BY <1>2, Step74, CommentLines DEF InComment, Inline
<1>3. CASE s = 69 /\ at = "rest"
  BY <1>3, Step69, CommentLines DEF InComment, Inline
<1>4. CASE s = 75 /\ at = "rest"
  <2>1. Step[75][c] = 75 /\ c # "\n"
    BY <1>4, Step75 DEF Inline
  <2> QED BY <1>4, <2>1, CommentLines DEF InComment
<1>5. CASE s = 70 /\ at = "margin"
  <2>1. Step[70][c] = IF c \in Margin THEN 70 ELSE IF c = "#" THEN 72 ELSE 73
    BY <1>5, Step70
  <2>2. Comment("margin", c) = IF c \in Margin THEN "margin" ELSE IF c = "#" THEN "hash" ELSE "text"
    BY CommentFences
  <2> QED BY <1>5, <2>1, <2>2 DEF InComment
<1>6. CASE s = 71 /\ at = "hashes"
  <2>1. Step[71][c] = IF c = "\n" THEN 70 ELSE IF c = "#" THEN 75 ELSE 73
    BY <1>6, Step71
  <2>2. Comment("hashes", c) = IF c = "\n" THEN "margin" ELSE IF c = "#" THEN "rest" ELSE "text"
    BY CommentFences
  <2> QED BY <1>6, <2>1, <2>2 DEF InComment
<1>7. CASE s = 72 /\ at = "hash"
  <2>1. Step[72][c] = IF c = "\n" THEN 70 ELSE IF c = "#" THEN 71 ELSE 73
    BY <1>7, Step72
  <2>2. Comment("hash", c) = IF c = "\n" THEN "margin" ELSE IF c = "#" THEN "hashes" ELSE "text"
    BY CommentFences
  <2> QED BY <1>7, <2>1, <2>2 DEF InComment
<1>8. CASE s = 73 /\ at = "text"
  <2>1. Step[73][c] = IF c = "\n" THEN 70 ELSE 73
    BY <1>8, Step73
  <2>2. Comment("text", c) = IF c = "\n" THEN "margin" ELSE "text"
    BY CommentFences
  <2> QED BY <1>8, <2>1, <2>2 DEF InComment
<1> QED BY <1>1, <1>2, <1>3, <1>4, <1>5, <1>6, <1>7, <1>8 DEF InComment

\* And ends it for both.
LEMMA CommentEnds ==
    ASSUME NEW s, NEW at, InComment(s, at), NEW c \in Char
    PROVE  (Step[s][c] = Stop) <=> (Comment(at, c) = Ended)
<1>1. CASE s = 68 /\ at = "one"
  BY <1>1, Step68, CommentLines DEF Inline, Stop, Ended
<1>2. CASE s = 74 /\ at = "two"
  BY <1>2, Step74, CommentLines DEF Inline, Stop, Ended
<1>3. CASE s \in {69, 75} /\ at = "rest"
  <2>1. (Step[69][c] = Stop <=> c = "\n") /\ (Step[75][c] = Stop <=> c = "\n")
    BY Step69, Step75 DEF Inline, Stop
  <2>2. Comment("rest", c) = Ended <=> c = "\n"
    BY CommentLines DEF Ended
  <2> QED BY <1>3, <2>1, <2>2
<1>4. CASE s = 70 /\ at = "margin"
  <2>1. Step[70][c] = IF c \in Margin THEN 70 ELSE IF c = "#" THEN 72 ELSE 73
    BY Step70
  <2>2. Comment("margin", c) = IF c \in Margin THEN "margin" ELSE IF c = "#" THEN "hash" ELSE "text"
    BY CommentFences
  <2>3. Step[70][c] # Stop
    BY <2>1 DEF Stop
  <2>4. Comment("margin", c) # Ended
    BY <2>2 DEF Ended
  <2> QED BY <1>4, <2>3, <2>4
<1>5. CASE s = 71 /\ at = "hashes"
  <2>1. Step[71][c] = IF c = "\n" THEN 70 ELSE IF c = "#" THEN 75 ELSE 73
    BY Step71
  <2>2. Comment("hashes", c) = IF c = "\n" THEN "margin" ELSE IF c = "#" THEN "rest" ELSE "text"
    BY CommentFences
  <2>3. Step[71][c] # Stop
    BY <2>1 DEF Stop
  <2>4. Comment("hashes", c) # Ended
    BY <2>2 DEF Ended
  <2> QED BY <1>5, <2>3, <2>4
<1>6. CASE s = 72 /\ at = "hash"
  <2>1. Step[72][c] = IF c = "\n" THEN 70 ELSE IF c = "#" THEN 71 ELSE 73
    BY Step72
  <2>2. Comment("hash", c) = IF c = "\n" THEN "margin" ELSE IF c = "#" THEN "hashes" ELSE "text"
    BY CommentFences
  <2>3. Step[72][c] # Stop
    BY <2>1 DEF Stop
  <2>4. Comment("hash", c) # Ended
    BY <2>2 DEF Ended
  <2> QED BY <1>6, <2>3, <2>4
<1>7. CASE s = 73 /\ at = "text"
  <2>1. Step[73][c] = IF c = "\n" THEN 70 ELSE 73
    BY Step73
  <2>2. Comment("text", c) = IF c = "\n" THEN "margin" ELSE "text"
    BY CommentFences
  <2>3. Step[73][c] # Stop
    BY <2>1 DEF Stop
  <2>4. Comment("text", c) # Ended
    BY <2>2 DEF Ended
  <2> QED BY <1>7, <2>3, <2>4
<1> QED BY <1>1, <1>2, <1>3, <1>4, <1>5, <1>6, <1>7 DEF InComment

(***************************************************************************)
(* The scanner, its comment and its bounds.                                *)
(***************************************************************************)
Characters == Char \cup {Eof}

ScannerInv ==
    /\ scan.at \in ScanStates
    /\ scan.tail \in Seq(Characters) /\ ahead \in Seq(Characters)
    /\ Len(scan.tail) <= MaxTail /\ Len(scan.tail) + Len(ahead) <= MaxTail + 1
    /\ outcome = "reading" /\ token = None => SameComment(scan.at, scan.comment)

\* Where each parse state scans from.
LEMMA LexModes ==
    ASSUME NEW s \in 1 .. 60
    PROVE  LexMode[s] \in ScanStates /\ (s # 60 => LexMode[s] \in Elsewhere)
<1>1. LexMode[s] \in {0, 1, 13, 17, 18, 19} /\ (s # 60 => LexMode[s] \in {1, 13, 17, 18, 19})
  BY DEF LexMode
<1>2. {0, 1, 13, 17, 18, 19} \subseteq ScanStates /\ {1, 13, 17, 18, 19} \subseteq Elsewhere
  BY DEF ScanStates, Elsewhere
<1> QED BY <1>1, <1>2

\* A scan that has read nothing.
LEMMA FreshIs ==
    ASSUME NEW s
    PROVE  /\ Fresh(s).at = s /\ Fresh(s).tail = <<>> /\ Fresh(s).comment = NoComment
           /\ Fresh(s).mark = None
BY DEF Fresh

\* What it has read.
LEMMA NothingRead == <<>> \in Seq(Characters) /\ Len(<<>>) = 0 /\ MaxTail \in Nat
BY Bounds

\* ScannerInv holds of the initial states.
LEMMA ScannerInit == Init => ScannerInv
<1> SUFFICES ASSUME Init PROVE ScannerInv
  OBVIOUS
<1>1. scan = Fresh(LexMode[1]) /\ ahead = <<>>
  BY DEF Init
<1>2. LexMode[1] \in ScanStates /\ LexMode[1] \in Elsewhere
  BY LexModes
<1>3. /\ scan.at = LexMode[1] /\ scan.tail = <<>> /\ scan.comment = NoComment
  BY <1>1, FreshIs
<1> QED BY <1>1, <1>2, <1>3, NothingRead DEF ScannerInv, SameComment

\* What is read next, and what that leaves to read.
LEMMA UpcomingIs ==
    ASSUME ScannerInv, NEW c \in Upcoming
    PROVE  /\ c \in Characters /\ Rest \in Seq(Characters)
           /\ Len(ahead) \in Nat
           /\ Len(ahead) > 0 => Len(Rest) = Len(ahead) - 1
           /\ Len(ahead) = 0 => Len(Rest) = 0
<1>1. ahead \in Seq(Characters) /\ Alphabet \subseteq Characters /\ Eof \in Characters
  BY Bounds DEF ScannerInv, Characters
<1>2. CASE ahead = <<>>
  BY <1>1, <1>2 DEF Upcoming, Rest
<1>3. CASE ahead # <<>>
  BY <1>1, <1>3 DEF Upcoming, Rest
<1> QED BY <1>2, <1>3

\* A step of the scanner leads where the comments of the two lexers agree.
LEMMA AdvancedComment ==
    ASSUME NEW s, NEW at, SameComment(s, at), NEW c \in Characters,
           Step[s][c] # Stop
    PROVE  /\ Step[s][c] \in ScanStates
           /\ Skips(s, c) => Step[s][c] \in Elsewhere
           /\ SameComment(Step[s][c], IF Step[s][c] \in 67 .. 75 THEN Comment(at, c) ELSE at)
<1> DEFINE to == Step[s][c]
<1>1. Elsewhere \subseteq ScanStates /\ 67 .. 75 \subseteq ScanStates /\ Elsewhere \cap 67 .. 75 = {}
  BY DEF Elsewhere, ScanStates
<1>2. CASE s \in Elsewhere /\ at = NoComment
  <2>1. MayLead(c, to)
    BY <1>2, StepElsewhere DEF Characters
  <2>2. CASE to \in Elsewhere
    BY <1>1, <1>2, <2>2 DEF SameComment
  <2>3. CASE c = "#" /\ to = 68
    <3>1. Comment(NoComment, "#") = "one"
      BY DEF Comment, NoComment
    <3>2. ~Skips(s, "#")
      BY DEF Skips, Blank
    <3> QED BY <1>1, <1>2, <2>3, <3>1, <3>2 DEF SameComment, InComment
  <2> QED BY <2>1, <2>2, <2>3 DEF MayLead
<1>3. CASE InComment(s, at)
  <2>1. InComment(to, Comment(at, c)) /\ to \in 67 .. 75
    BY <1>3, CommentSteps DEF Characters
  <2>2. ~Skips(s, c)
    BY <1>3 DEF InComment, Skips
  <2> QED BY <1>1, <2>1, <2>2 DEF SameComment
<1> QED BY <1>2, <1>3 DEF SameComment

\* A step of the scanner keeps it.
LEMMA ScannerAdvance ==
    ASSUME ScannerInv, Scanning, NEW c \in Upcoming, Advance(c, Step[scan.at][c])
    PROVE  ScannerInv'
<1> DEFINE to == Step[scan.at][c]
<1>1. SameComment(scan.at, scan.comment) /\ c \in Characters /\ to # Stop
  BY UpcomingIs DEF ScannerInv, Scanning, Advance
<1>2. /\ to \in ScanStates
      /\ Skips(scan.at, c) => to \in Elsewhere
      /\ SameComment(to, IF to \in 67 .. 75 THEN Comment(scan.comment, c) ELSE scan.comment)
  BY <1>1, AdvancedComment
<1>3. /\ ahead' = Rest /\ Rest \in Seq(Characters) /\ Len(ahead) \in Nat
      /\ Len(ahead) > 0 => Len(Rest) = Len(ahead) - 1
      /\ Len(ahead) = 0 => Len(Rest) = 0
  BY UpcomingIs DEF Advance
<1>4. MaxTail \in Nat /\ Len(scan.tail) \in Nat /\ scan.tail \in Seq(Characters)
      /\ Len(scan.tail) <= MaxTail /\ Len(scan.tail) + Len(ahead) <= MaxTail + 1
  BY Bounds DEF ScannerInv
<1>5. CASE Skips(scan.at, c)
  <2>1. scan' = Fresh(to)
    BY <1>5 DEF Advance
  <2>2. scan'.at = to /\ scan'.tail = <<>> /\ scan'.comment = NoComment
    BY <2>1, FreshIs
  <2> HIDE DEF to
  <2> QED BY <1>2, <1>3, <1>4, <1>5, <2>2, NothingRead DEF ScannerInv, SameComment
<1>6. CASE ~Skips(scan.at, c)
  <2>1. /\ scan'.at = to
        /\ scan'.tail = IF to \in DOMAIN Accepts THEN <<>> ELSE Append(scan.tail, c)
        /\ scan'.comment = IF to \in 67 .. 75 THEN Comment(scan.comment, c) ELSE scan.comment
        /\ to \in DOMAIN Accepts \/ Len(scan.tail) < MaxTail
    BY <1>6 DEF Advance
  <2>2. SameComment(scan'.at, scan'.comment)
    BY <1>2, <2>1
  <2> HIDE DEF to
  <2>3. CASE to \in DOMAIN Accepts
    BY <1>2, <1>3, <1>4, <2>1, <2>2, <2>3, NothingRead DEF ScannerInv
  <2>4. CASE to \notin DOMAIN Accepts
    <3>1. scan'.tail \in Seq(Characters) /\ Len(scan'.tail) = Len(scan.tail) + 1
      BY <1>1, <1>4, <2>1, <2>4
    <3>2. Len(scan'.tail) <= MaxTail /\ Len(scan'.tail) + Len(ahead') <= MaxTail + 1
      BY <1>3, <1>4, <2>1, <2>4, <3>1
    <3> QED BY <1>2, <1>3, <2>1, <2>2, <3>1, <3>2 DEF ScannerInv
  <2> QED BY <2>3, <2>4
<1> QED BY <1>5, <1>6

\* So does the end of a token.
LEMMA ScannerEnd ==
    ASSUME ScannerInv, Parsing, Scanning, NEW unread \in Seq(Characters), EndToken(unread),
           Len(scan.tail) + Len(unread) <= MaxTail + 1
    PROVE  ScannerInv'
<1>1. token' \in Tokens /\ token' # None
  <2>1. scan.mark \in Tokens
    BY DEF EndToken, Parsing
  <2>2. token' \in Tokens
    BY <2>1, CapturedTokens DEF EndToken
  <2> QED BY <2>2, GroupedAreNoTokens DEF None
<1>2. LexMode[Top] \in ScanStates
  BY TopRow, LexModes DEF Parsing
<1>3. scan' = Fresh(LexMode[Top]) /\ ahead' = scan.tail \o unread
  BY DEF EndToken
<1>4. scan'.at = LexMode[Top] /\ scan'.tail = <<>>
  BY <1>3, FreshIs
<1>5. scan.tail \in Seq(Characters) /\ MaxTail \in Nat
  BY Bounds DEF ScannerInv
<1>6. ahead' \in Seq(Characters) /\ Len(ahead') = Len(scan.tail) + Len(unread)
  BY <1>3, <1>5
<1> QED BY <1>1, <1>2, <1>4, <1>5, <1>6, NothingRead DEF ScannerInv

\* And so every step of a scan.
LEMMA ScannerScan ==
    ASSUME ScannerInv, Parsing, ScanStep
    PROVE  ScannerInv'
<1>1. Scanning
  BY DEF ScanStep
<1>2. ahead \in Seq(Characters) /\ scan.tail \in Seq(Characters) /\ MaxTail \in Nat
      /\ Len(scan.tail) <= MaxTail /\ Len(scan.tail) + Len(ahead) <= MaxTail + 1
  BY Bounds DEF ScannerInv
<1>3. CASE EndToken(ahead)
  BY <1>1, <1>2, <1>3, ScannerEnd
<1>4. CASE \E c \in Upcoming : Advance(c, Step[scan.at][c])
  BY <1>1, <1>4, ScannerAdvance
<1>5. CASE \E c \in Upcoming : EndToken(<<c>> \o Rest)
  <2>1. PICK c \in Upcoming : EndToken(<<c>> \o Rest)
    BY <1>5
  <2>2. /\ c \in Characters /\ Rest \in Seq(Characters) /\ Len(ahead) \in Nat
        /\ Len(ahead) > 0 => Len(Rest) = Len(ahead) - 1
        /\ Len(ahead) = 0 => Len(Rest) = 0
    BY UpcomingIs
  <2>3. <<c>> \o Rest \in Seq(Characters) /\ Len(<<c>> \o Rest) = 1 + Len(Rest)
    BY <2>2
  <2>4. Len(scan.tail) + (1 + Len(Rest)) <= MaxTail + 1
    <3>1. Len(scan.tail) \in Nat /\ Len(Rest) \in Nat
      BY <1>2, <2>2
    <3>2. CASE Len(ahead) > 0
      <4>1. Len(Rest) = Len(ahead) - 1 /\ Len(ahead) \in Nat
        BY <2>2, <3>2
      <4>2. Len(scan.tail) + Len(ahead) <= MaxTail + 1 /\ MaxTail \in Nat
        BY <1>2
      <4> QED BY <3>1, <4>1, <4>2
    <3>3. CASE Len(ahead) = 0
      <4>1. Len(Rest) = 0
        BY <2>2, <3>3
      <4>2. Len(scan.tail) <= MaxTail /\ MaxTail \in Nat
        BY <1>2
      <4> QED BY <3>1, <4>1, <4>2
    <3>4. Len(ahead) > 0 \/ Len(ahead) = 0
      <4>1. Len(ahead) \in Nat
        BY <1>2
      <4> QED BY <4>1
    <3> QED BY <3>2, <3>3, <3>4
  <2>5. Len(scan.tail) + Len(<<c>> \o Rest) <= MaxTail + 1
    BY <2>3, <2>4
  <2> QED BY <1>1, <2>1, <2>3, <2>5, ScannerEnd
<1>6. CASE Garbled
  BY <1>6 DEF Garbled, ScannerInv
<1> QED BY <1>3, <1>4, <1>5, <1>6 DEF ScanStep

\* And the steps of the parser, that begin a new scan from a state out of any
\* comment.
LEMMA ScannerNext == ScannerInv /\ Parsing /\ Parsing' /\ [Next]_vars => ScannerInv'
<1> SUFFICES ASSUME ScannerInv, Parsing, Parsing', [Next]_vars PROVE ScannerInv'
  OBVIOUS
<1>1. CASE ScanStep
  BY <1>1, ScannerScan
<1>2. CASE \E t \in Offered : Offer(t)
  <2>1. PICK t \in Offered : Offer(t)
    BY <1>2
  <2>2. t # None
    BY Bounds, GroupedAreNoTokens DEF None
  <2> QED BY <2>1, <2>2 DEF Offer, ScannerInv
<1>3. CASE ShiftToken
  <2> DEFINE to == Row[token].to
  <2>1. to \in 1 .. 60 /\ Top' = to
    BY <1>3, Shifting
  <2>2. to # 60
    <3>1. token' = None /\ outcome' = "reading"
      BY <1>3 DEF ShiftToken, Doing
    <3>2. Meets(to, None, context')
      BY <2>1, <3>1 DEF Parsing
    <3> QED BY <3>2, NoToken
  <2>3. scan' = Fresh(LexMode[to]) /\ ahead' \in {ahead, <<>>}
    BY <1>3 DEF ShiftToken
  <2> HIDE DEF to
  <2>4. scan'.at = LexMode[to] /\ scan'.tail = <<>> /\ scan'.comment = NoComment
    BY <2>3, FreshIs
  <2>5. LexMode[to] \in ScanStates /\ LexMode[to] \in Elsewhere
    BY <2>1, <2>2, LexModes
  <2>6. /\ ahead' \in Seq(Characters) /\ Len(ahead') \in Nat /\ MaxTail \in Nat
        /\ Len(ahead') <= MaxTail + 1
    <3>1. scan.tail \in Seq(Characters) /\ ahead \in Seq(Characters)
          /\ Len(scan.tail) + Len(ahead) <= MaxTail + 1
      BY DEF ScannerInv
    <3>2. Len(scan.tail) \in Nat /\ Len(ahead) \in Nat /\ MaxTail \in Nat
      BY <3>1, NothingRead
    <3>3. Len(ahead) <= MaxTail + 1
      BY <3>1, <3>2
    <3>4. CASE ahead' = ahead
      BY <3>1, <3>2, <3>3, <3>4
    <3>5. CASE ahead' = <<>>
      BY <3>2, <3>5, NothingRead
    <3> QED BY <2>3, <3>4, <3>5
  <2> QED BY <2>4, <2>5, <2>6, NothingRead DEF ScannerInv, SameComment
<1>4. CASE ReduceItem
  BY <1>4 DEF ReduceItem, ScannerInv
<1>5. CASE AcceptFile \/ RejectToken
  BY <1>5 DEF AcceptFile, RejectToken, ScannerInv
<1>6. CASE UNCHANGED vars
  BY <1>6 DEF vars, ScannerInv
<1> QED BY <1>1, <1>2, <1>3, <1>4, <1>5, <1>6 DEF Next, ReadToken, ParseToken

\* In a comment the compiler's lexer is where the editor's scanner is, and the two
\* end it at the same character (CommentsAgree).
THEOREM CommentsExtend == Spec => []CommentsAgree
<1>1. ScannerInv => CommentsAgree
  <2> SUFFICES ASSUME ScannerInv, Scanning, scan.comment # NoComment, NEW c \in Char
               PROVE  (Step[scan.at][c] = Stop) <=> (Comment(scan.comment, c) = Ended)
    BY DEF CommentsAgree
  <2>1. InComment(scan.at, scan.comment)
    BY DEF ScannerInv, Scanning, SameComment
  <2> QED BY <2>1, CommentEnds
<1>2. Init => ScannerInv /\ Parsing
  BY ScannerInit, ParsingInit
<1>3. ScannerInv /\ Parsing /\ [Next]_vars => ScannerInv' /\ Parsing'
  BY ScannerNext, ParsingNext
<1> QED BY <1>1, <1>2, <1>3, PTL DEF Spec

(***************************************************************************)
(* Keywords.                                                               *)
(***************************************************************************)
\* The scanner's states inside a string, and after a module name's ".".
Nameless == {1, 15, 58, 59, 60, 61, 63} \cup {13, 38}

Stays(rules) == \A c \in DOMAIN rules : rules[c] \in Nameless

LEMMA StaysJoined ==
    /\ \A S, to : to \in Nameless => Stays(Each(S, to))
    /\ \A x, to : to \in Nameless => Stays(One(x, to))
    /\ \A f, g : Stays(f) /\ Stays(g) => Stays(f ++ g)
BY DEF Stays, Each, One, ++

\* The rules of those states.
LEMMA NamelessRules ==
    /\ Stays(Unfinished[1]) /\ Stays(Unfinished[13]) /\ Stays(Unfinished[15])
    /\ Stays(ArrowsAndPipes[38])
    /\ Stays(StringsAndRegexes[59]) /\ Stays(StringsAndRegexes[60])
<1> USE StaysJoined
<1>1. {13, 15, 38, 58, 59, 60, 61, 63} \subseteq Nameless
  BY DEF Nameless
<1>2. Unfinished[1] = One("\"", 58) ++ One("#", 59) ++ One("\\", 15) ++ Each(Char, 60)
  BY DEF Unfinished
<1>3. Stays(One("\"", 58)) /\ Stays(One("#", 59)) /\ Stays(One("\\", 15)) /\ Stays(Each(Char, 60))
  BY <1>1
<1>4. Stays(Unfinished[1])
  BY <1>2, <1>3
<1>5. Unfinished[13] = Each(Upper, 38) /\ Unfinished[15] = Each(Inline, 61)
  BY DEF Unfinished
<1>6. ArrowsAndPipes[38] = Each(Alnum, 38)
  BY DEF ArrowsAndPipes
<1>7. StringsAndRegexes[59] = One("{", 63) /\ StringsAndRegexes[60] = Each(Plain, 60)
  BY DEF StringsAndRegexes
<1>8. Stays(Each(Upper, 38)) /\ Stays(Each(Inline, 61)) /\ Stays(Each(Alnum, 38))
      /\ Stays(One("{", 63)) /\ Stays(Each(Plain, 60))
  BY <1>1
<1>9. Stays(Unfinished[13]) /\ Stays(Unfinished[15])
  BY <1>5, <1>8
<1>10. Stays(ArrowsAndPipes[38])
  BY <1>6, <1>8
<1>11. Stays(StringsAndRegexes[59]) /\ Stays(StringsAndRegexes[60])
  BY <1>7, <1>8
<1> QED BY <1>4, <1>9, <1>10, <1>11

\* The scanner goes from none of them to a state of another.
LEMMA NamelessSteps ==
    ASSUME NEW s \in Nameless, NEW c \in Char \cup {Eof}, Step[s][c] # Stop
    PROVE  Step[s][c] \in Nameless /\ ~Skips(s, c)
<1>1. s \in ScanStates
  BY DEF Nameless, ScanStates
<1>2. c \in DOMAIN Rules[s] /\ Step[s][c] = Rules[s][c]
  BY <1>1, StepIs
<1>3. CASE s \in {58, 61, 63}
  <2>1. s \in Complete
    BY <1>3 DEF Complete
  <2> QED BY <1>2, <2>1, RulesAre
<1>4. CASE s \in {1, 13, 15, 38, 59, 60}
  <2>1. Stays(Rules[s])
    <3>1. CASE s \in {1, 13, 15}
      <4>1. s \in 1 .. 16
        BY <3>1
      <4> QED BY <3>1, <4>1, RulesAre, NamelessRules
    <3>2. CASE s = 38
      <4>1. 38 \in 31 .. 41
        OBVIOUS
      <4> QED BY <3>2, <4>1, RulesAre, NamelessRules
    <3>3. CASE s \in {59, 60}
      BY <3>3, RulesAre, NamelessRules
    <3> QED BY <1>4, <3>1, <3>2, <3>3
  <2> QED BY <1>2, <1>4, <2>1 DEF Stays, Skips
<1> QED BY <1>3, <1>4 DEF Nameless

\* None of them has recognised an identifier.
LEMMA NamelessAccepts ==
    ASSUME NEW s \in Nameless, s \in DOMAIN Accepts
    PROVE  Accepts[s] # "identifier"
<1>1. DOMAIN AcceptsSymbols = 20 .. 41 /\ DOMAIN AcceptsClasses = 42 .. 91
  BY DEF AcceptsSymbols, AcceptsClasses
<1>2. CASE s = 38
  <2>1. Accepts[38] = AcceptsSymbols[38]
    BY <1>1 DEF Accepts, ++
  <2>2. AcceptsSymbols[38] = "module_name_token1"
    BY DEF AcceptsSymbols
  <2> QED BY <1>2, <2>1, <2>2
<1>3. CASE s \in {58, 59, 60, 61, 63}
  <2>1. Accepts[s] = AcceptsClasses[s]
    BY <1>1, <1>3 DEF Accepts, ++
  <2>2. AcceptsClasses[s] \in {"DQUOTE2", "string_content", "escape_sequence", "POUND_LBRACE"}
    BY <1>3 DEF AcceptsClasses
  <2> QED BY <2>1, <2>2
<1>4. CASE s \in {1, 13, 15}
  <2>1. DOMAIN Accepts = 20 .. 91
    BY <1>1 DEF Accepts, ++
  <2> QED BY <1>4, <2>1
<1> QED BY <1>2, <1>3, <1>4 DEF Nameless

\* Inside a string and after a "." no identifier is read.
NamesInBodies ==
    outcome = "reading" /\ token = None /\ LexMode[Top] \in {1, 13} =>
        scan.at \in Nameless /\ scan.mark # "identifier"

\* It holds when a scan begins.
LEMMA FreshNameless ==
    ASSUME NEW s, s \in {1, 13}
    PROVE  Fresh(s).at \in Nameless /\ Fresh(s).mark # "identifier"
BY FreshIs DEF Nameless, None

LEMMA NamesInit == Init => NamesInBodies
<1> SUFFICES ASSUME Init PROVE NamesInBodies
  OBVIOUS
<1>1. Top = 1
  BY DEF Init, Top
<1>2. LexMode[1] = 19
  BY DEF LexMode
<1> QED BY <1>1, <1>2 DEF NamesInBodies

\* Every step keeps it.
LEMMA NamesNext == NamesInBodies /\ Parsing /\ ScannerInv /\ [Next]_vars => NamesInBodies'
<1> SUFFICES ASSUME NamesInBodies, Parsing, ScannerInv, [Next]_vars, outcome' = "reading", token' = None,
                    LexMode[Top'] \in {1, 13}
             PROVE  scan'.at \in Nameless /\ scan'.mark # "identifier"
  BY DEF NamesInBodies
<1>1. ASSUME Scanning, NEW unread, EndToken(unread) PROVE FALSE
  <2>1. scan.mark \in Tokens
    BY <1>1 DEF EndToken, Parsing
  <2>2. token' \in Tokens
    BY <1>1, <2>1, CapturedTokens DEF EndToken
  <2> QED BY <2>2, GroupedAreNoTokens DEF None
<1>2. ASSUME Scanning, NEW c \in Upcoming, Advance(c, Step[scan.at][c])
      PROVE  scan'.at \in Nameless /\ scan'.mark # "identifier"
  <2> DEFINE to == Step[scan.at][c]
  <2>1. stack' = stack /\ to # Stop
    BY <1>2 DEF Advance
  <2>2. Top' = Top
    BY <2>1 DEF Top
  <2>3. scan.at \in Nameless /\ scan.mark # "identifier"
    BY <1>2, <2>2 DEF NamesInBodies, Scanning
  <2>4. c \in Char \cup {Eof}
    BY <1>2, UpcomingIs DEF Characters
  <2>5. to \in Nameless /\ ~Skips(scan.at, c)
    BY <2>1, <2>3, <2>4, NamelessSteps
  <2>6. scan'.at = to /\ scan'.mark = IF to \in DOMAIN Accepts THEN Accepts[to] ELSE scan.mark
    BY <1>2, <2>5 DEF Advance
  <2> HIDE DEF to
  <2> QED BY <2>3, <2>5, <2>6, NamelessAccepts
<1>3. CASE ScanStep
  <2>1. Scanning
    BY <1>3 DEF ScanStep
  <2>2. ~Garbled
    BY DEF Garbled
  <2> QED BY <1>1, <1>2, <1>3, <2>1, <2>2 DEF ScanStep
<1>4. CASE \E t \in Offered : Offer(t)
  <2>1. token' \in Tokens
    BY <1>4, Bounds DEF Offer
  <2> QED BY <2>1, GroupedAreNoTokens DEF None
<1>5. CASE ShiftToken
  <2>1. Top' = Row[token].to
    BY <1>5, Shifting
  <2>2. scan' = Fresh(LexMode[Top'])
    BY <1>5, <2>1 DEF ShiftToken
  <2> QED BY <2>2, FreshNameless
<1>6. CASE ReduceItem
  <2>1. token' \in Tokens
    BY <1>6, Reducing
  <2> QED BY <2>1, GroupedAreNoTokens DEF None
<1>7. ~AcceptFile /\ ~RejectToken
  BY DEF AcceptFile, RejectToken
<1>8. CASE UNCHANGED vars
  <2>1. stack' = stack /\ token' = token /\ scan' = scan /\ outcome' = outcome
    BY <1>8 DEF vars
  <2>2. Top' = Top
    BY <2>1 DEF Top
  <2> QED BY <2>1, <2>2 DEF NamesInBodies
<1> QED BY <1>3, <1>4, <1>5, <1>6, <1>7, <1>8 DEF Next, ReadToken, ParseToken

\* The words of the two vocabularies.
LEMMA Vocabularies ==
    /\ CompilerKeywords \subseteq Keywords \cup Booleans \cup {"nil"}
    /\ Keywords \cup Booleans \cup {"nil"} \subseteq CompilerKeywords
    /\ Containers \cap CompilerKeywords = {} /\ "macro" \notin CompilerKeywords
    /\ "identifier" \notin Keywords \cup Booleans \cup {"nil"} \cup Containers \cup {"macro"}
BY DEF CompilerKeywords, ReservedWords, ContextualWords, Keywords, TypeKinds, PlainKeywords,
       Booleans, Containers

\* Wherever an identifier can be read, but after "--", every keyword has an action.
LEMMA KeywordsHaveActions ==
    ASSUME Parsing, NamesInBodies, Scanning, scan.mark = "identifier", context # "event",
           NEW word \in CompilerKeywords
    PROVE  word \in DOMAIN Row
<1>1. Linked(stack) /\ token = None /\ outcome = "reading" /\ Meets(Top, None, context)
  BY DEF Parsing, Scanning
<1>2. Top # 60 /\ context = ContextAfter(Top)
  BY <1>1, NoToken
<1>3. Top \in 1 .. 60 /\ RowCovers(Top, Row)
  BY <1>1, TopRow
<1>4. LexMode[Top] \notin {1, 13}
  BY <1>1 DEF NamesInBodies
<1>5. Top \notin 53 .. 57 /\ Top # 59
  BY <1>3, <1>4 DEF LexMode
<1>6. Top # 58
  BY <1>2 DEF ContextAfter
<1>7. word \in ItemStarts /\ word \in Follow
  BY Vocabularies DEF ItemStarts, Simple, Follow
<1>8. Handles(Top, word)
  <2>1. Top \in Places \cup ({2} \cup 18 .. 52)
    BY <1>2, <1>3, <1>5, <1>6 DEF Places
  <2> QED BY <1>7, <2>1 DEF Handles
<1> QED BY <1>3, <1>8 DEF RowCovers

\* The keyword lexer takes every word the compiler reserves.  The words are
\* strings, whose letters the provers do not see: the run that checks
\* KeywordsAgree reads each of them, letter by letter.
TrieTakesKeywords == \A word \in CompilerKeywords : Recognises(word)

\* As the trie takes them, a word the compiler reserves is a keyword to the
\* editor at every place but a transition's event, and no other word is one it
\* reserves (KeywordsAgree).
THEOREM KeywordsReserved ==
    ASSUME TrieTakesKeywords
    PROVE  Spec => []KeywordsAgree
<1>1. Parsing /\ NamesInBodies => KeywordsAgree
  <2> DEFINE symbol == Captured(scan.mark, scan.word)
  <2> SUFFICES ASSUME Parsing, NamesInBodies, Scanning, scan.mark = "identifier"
               PROVE  /\ scan.word \in CompilerKeywords /\ context # "event"
                            => symbol = scan.word
                      /\ symbol \in Keywords \cup Booleans \cup {"nil"}
                            => symbol \in CompilerKeywords
                      /\ symbol \in Containers \cup {"macro"} => symbol \notin CompilerKeywords
    BY DEF KeywordsAgree
  <2>1. ASSUME scan.word \in CompilerKeywords, context # "event" PROVE symbol = scan.word
    <3>1. Recognises(scan.word)
      BY <2>1, TrieTakesKeywords DEF TrieTakesKeywords
    <3>2. scan.word \in DOMAIN Row
      BY <2>1, KeywordsHaveActions
    <3> QED BY <3>1, <3>2 DEF Captured
  <2> HIDE DEF symbol
  <2> QED BY <2>1, Vocabularies
<1> QED BY <1>1, ParsingInit, ParsingNext, ScannerInit, ScannerNext, NamesInit, NamesNext, PTL
        DEF Spec

(***************************************************************************)
(* Types.                                                                  *)
(***************************************************************************)
HistoryInv == last \in Kinds \cup {None} /\ kept \in {"none", "begins", "cut", "other"}

\* The last token and what is kept of it have their types.
LEMMA HistoryNext == HistoryInv /\ Parsing /\ [Next]_vars => HistoryInv'
<1> SUFFICES ASSUME HistoryInv, Parsing, [Next]_vars PROVE HistoryInv'
  OBVIOUS
<1>1. \A t \in Tokens : Kind[t] \in Kinds
  BY DEF Kinds
<1>2. CASE ReadToken
  BY <1>2, Scanned DEF HistoryInv
<1>3. CASE ShiftToken
  <2>1. token \in Tokens
    BY <1>3, Shifting
  <2>2. last' = Kind[token] /\ kept' \in Kept(kept, scopes, token)
    BY <1>3 DEF ShiftToken
  <2> QED BY <1>1, <2>1, <2>2, KeptIs DEF HistoryInv
<1>4. CASE ReduceItem
  BY <1>4 DEF ReduceItem, history, HistoryInv
<1>5. CASE AcceptFile \/ RejectToken
  <2>1. token \in Tokens
    <3>1. token # None
      <4>1. CASE AcceptFile
        <5>1. token \in DOMAIN Row /\ Row[token].do = "accept"
          BY <4>1 DEF AcceptFile, Doing
        <5>2. Entry(Top, token, Row[token])
          BY <5>1, TopRow DEF RowFits, Parsing
        <5>3. token = "$end"
          BY <5>1, <5>2 DEF Entry
        <5> QED BY <5>3 DEF None
      <4> QED BY <1>5, <4>1 DEF RejectToken
    <3> QED BY <3>1 DEF Parsing
  <2> QED BY <1>1, <1>5, <2>1 DEF AcceptFile, RejectToken, HistoryInv
<1>6. CASE UNCHANGED vars
  BY <1>6 DEF vars, history, HistoryInv
<1> QED BY <1>2, <1>3, <1>4, <1>5, <1>6 DEF Next, ParseToken

\* A sequence over a set is one over a larger set.
LEMMA WiderSeq ==
    ASSUME NEW S, NEW T, S \subseteq T, NEW seq \in Seq(S)
    PROVE  seq \in Seq(T)
OBVIOUS

\* The state of the parser and of the scanner keeps its type, the look-ahead and
\* what was read ahead of it their bounds (TypeOK).
THEOREM EditorTypes == Spec => []TypeOK
<1>1. Parsing /\ ScannerInv /\ CountsOpen /\ HistoryInv => TypeOK
  <2> SUFFICES ASSUME Parsing, ScannerInv, CountsOpen, HistoryInv PROVE TypeOK
    OBVIOUS
  <2>1. stack \in Seq(DOMAIN Table) /\ stack # <<>>
    <3>1. stack \in Seq(1 .. 60) /\ stack # <<>>
      BY DEF Parsing, Linked
    <3>2. 1 .. 60 \subseteq DOMAIN Table
      BY DEF Table, ++, One
    <3> QED BY <3>1, <3>2, WiderSeq
  <2>2. Counted(scopes)
    <3>1. Open \in Seq(Frames)
      BY TopFrames DEF Parsing
    <3> QED BY <3>1, TallyCounts DEF CountsOpen
  <2>3. scopes \in Seq([braces : Nat, parens : Nat]) /\ scopes # <<>>
    BY <2>2 DEF Counted, Counters
  <2>4. /\ scan.at \in ScanStates /\ Len(scan.tail) <= MaxTail
        /\ Len(ahead) <= MaxTail + 1
    <3>1. scan.tail \in Seq(Characters) /\ ahead \in Seq(Characters) /\ MaxTail \in Nat
      BY Bounds DEF ScannerInv
    <3> QED BY <3>1 DEF ScannerInv
  <2> QED BY <2>1, <2>3, <2>4 DEF TypeOK, Parsing, HistoryInv
<1>2. Init => Parsing /\ ScannerInv /\ CountsOpen /\ HistoryInv
  <2>1. Init => HistoryInv
    BY DEF Init, HistoryInv
  <2> QED BY <2>1, ParsingInit, ScannerInit, CountsOpenInit
<1>3. Parsing /\ ScannerInv /\ CountsOpen /\ HistoryInv /\ [Next]_vars
        => Parsing' /\ ScannerInv' /\ CountsOpen' /\ HistoryInv'
  BY ParsingNext, ScannerNext, CountsOpenNext, HistoryNext
<1> QED BY <1>1, <1>2, <1>3, PTL DEF Spec
====
