----------------------------- MODULE MCContent -----------------------------
(* Instances of Content for TLC.                                           *)
EXTENDS Content, SequencesExt

T(w) == [word |-> w, dotted |-> FALSE]
Dotted(w) == [word |-> w, dotted |-> TRUE]
LineOf(before, colon, after) == [before |-> before, colon |-> colon, after |-> after]

\* 1 to 3 start headings, 4 and 5 are skills, 6 is a stop word, 7 is short.
Words == [s \in Sections |-> CASE s = "requirements"     -> {1}
                               [] s = "responsibilities" -> {2}
                               [] s = "benefits"         -> {3}]

Lines ==
    {LineOf(<<>>, FALSE, <<>>),
     LineOf(<<>>, TRUE, <<>>),
     LineOf(<<T(1)>>, TRUE, <<>>),
     LineOf(<<T(2)>>, TRUE, <<T(5), Dotted(6)>>),
     LineOf(<<T(3), T(5)>>, FALSE, <<>>),
     LineOf(<<T(4), T(6)>>, FALSE, <<>>),
     LineOf(<<T(7)>>, TRUE, <<T(1), Dotted(7)>>)}

SomeDescriptions == SeqOf(Lines, 4)
SomeTitles == {<<Dotted(5), T(4)>>}
SomeAsked == {<<>>, <<5, 1, 5>>}
Table == <<5, 4>>

=============================================================================
