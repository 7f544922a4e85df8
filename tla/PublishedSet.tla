---------------------------- MODULE PublishedSet -----------------------------
(***************************************************************************)
(* What the artifact store promises to a program that opens it, and all    *)
(* that it promises: at any moment at most one set of compiled modules is  *)
(* named, that set is the faithful image of a state the source tree has    *)
(* been in, and opening returns, if it returns a set, one that was named   *)
(* at some moment during the open.  It is a regular register; a reader may *)
(* fail, and writers may make the named set go backwards.                  *)
(***************************************************************************)
CONSTANTS Reader, Tree, None,
          Image(_)          \* the faithful set of a source tree

VARIABLES trees,            \* the states the source tree has been in
          named,            \* the set a reader is directed to, or None
          opening,          \* the readers that are opening
          window,           \* the sets named since each reader's open began
          answer            \* what each reader's last open returned, or None

vars == <<trees, named, opening, window, answer>>

Sets == {Image(t) : t \in trees}

Init == /\ trees \in SUBSET Tree
        /\ named \in Sets \cup {None}
        /\ opening = {}
        /\ window = [r \in Reader |-> {}]
        /\ answer = [r \in Reader |-> None]

\* The source tree changes.
Grow == /\ trees' \in SUBSET Tree /\ trees \subseteq trees'
        /\ UNCHANGED <<named, opening, window, answer>>

\* Another set, or none, is named: every open under way may return it.
Name == /\ named' \in Sets \cup {None}
        /\ window' = [r \in Reader |-> IF r \in opening
                                       THEN window[r] \cup {named'}
                                       ELSE window[r]]
        /\ UNCHANGED <<trees, opening, answer>>

Start(r) == /\ r \notin opening
            /\ opening' = opening \cup {r}
            /\ window' = [window EXCEPT ![r] = {named}]
            /\ answer' = [answer EXCEPT ![r] = None]
            /\ UNCHANGED <<trees, named>>

Return(r) == /\ r \in opening
             /\ opening' = opening \ {r}
             /\ \E set \in window[r] \cup {None} :
                  answer' = [answer EXCEPT ![r] = set]
             /\ UNCHANGED <<trees, named, window>>

Next == Grow \/ Name \/ \E r \in Reader : Start(r) \/ Return(r)

Spec == Init /\ [][Next]_vars
=============================================================================
