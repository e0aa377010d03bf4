------------------------------ MODULE Content ------------------------------
(***************************************************************************)
(* The content processing of a job posting (content.py), and the two       *)
(* activities that store what it computes (activities.py), each run again  *)
(* as often as Temporal retries it.                                        *)
(*                                                                         *)
(* A word is a run of letters; a token of the text is a word and whether   *)
(* punctuation that a keyword may contain ("c++", "sql.") is attached to   *)
(* it.  A line is what stands before its first colon and after it; a text  *)
(* is a sequence of lines.  What the code sorts and filters is defined     *)
(* here without recursion, by Sorted and Kept, so that it can be proved    *)
(* about.                                                                  *)
(***************************************************************************)
EXTENDS Integers, FiniteSets, Sequences, FiniteSetsExt

CONSTANTS
    Descriptions,   \* the descriptions: sequences of lines, stripped of bullets
    Titles,         \* the titles: sequences of tokens
    Asked,          \* what recruiters write into required_skills: words
    Triggers,       \* _SECTION_TRIGGERS: the words a heading of a section starts with
    KnownSkills,    \* _KNOWN_SKILLS: words, in the order of the table
    Stopwords, Short,   \* words that are no keywords: listed, or of two letters
    KeywordLimit,   \* the number of keywords kept
    MaxAttempts,    \* runs of an activity that are looked at
    None

ASSUME BoundsAssumption == KeywordLimit \in Nat /\ MaxAttempts \in Nat

Sections == {"requirements", "responsibilities", "benefits"}

\* Words are numbers in alphabetical order.
Token == [word : Int, dotted : BOOLEAN]
Line == [before : Seq(Token), colon : BOOLEAN, after : Seq(Token)]

ASSUME TextAssumption ==
    /\ Descriptions \subseteq Seq(Line) /\ Titles \subseteq Seq(Token)
    /\ Asked \subseteq Seq(Int) /\ KnownSkills \in Seq(Int)
    /\ None \notin Seq(Token)

\* No trigger of one section is a prefix of another's: a line starts with the
\* triggers of one section at most.
ASSUME TriggersAssumption ==
    \A s, q \in Sections : s # q => Triggers[s] \cap Triggers[q] = {}

\* A finite set as a sequence, where before[x] are the elements that come before
\* x in a strict total order: the n-th element has n - 1 before it.
Sorted(S, before) ==
    [n \in 1..Cardinality(S) |-> CHOOSE x \in S : Cardinality(before[x]) = n - 1]

InOrder(P) == Sorted(P, [i \in P |-> {j \in P : j < i}])

\* The elements of s at the positions in P, in their order.
Kept(s, P) == [n \in 1..Cardinality(P) |-> s[InOrder(P)[n]]]

\* w precedes w with punctuation.
ByWord(t, u) == t.word < u.word \/ (t.word = u.word /\ ~t.dotted /\ u.dotted)

VARIABLES
    title, description,
    required_skills, structured_content, extracted_keywords,   \* the row
    line, current, buckets,   \* breakdown_description: its loop
    attempts,                 \* runs of the extract activity so far
    asked                     \* history variable: required_skills at first

job == <<title, description, asked>>
loop == <<line, current, buckets>>
vars == <<job, required_skills, structured_content, extracted_keywords, loop, attempts>>

NoLines == [s \in Sections |-> <<>>]

Init ==
    /\ title \in Titles /\ description \in Descriptions /\ asked \in Asked
    /\ required_skills = asked
    /\ structured_content = None /\ extracted_keywords = None
    /\ line = 1 /\ current = "requirements" /\ buckets = NoLines
    /\ attempts = 0

-----------------------------------------------------------------------------
(* breakdown_description.                                                  *)

_match_section(l) ==
    {s \in Sections : l.before # <<>> /\ Head(l.before).word \in Triggers[s]}

\* Mutant: a heading without a colon does not end the section before it.
OnlyWithColon(l) == IF l.colon THEN _match_section(l) ELSE {}

Heading(l) == _match_section(l)

Blank(l) == l.before = <<>> /\ ~l.colon

\* One line of the loop.  A heading is not kept, but what follows its colon is.
ReadLine ==
    /\ line <= Len(description)
    /\ LET l == description[line] IN
       \/ /\ Blank(l)
          /\ UNCHANGED <<current, buckets>>
       \/ \E s \in Heading(l) :
             /\ current' = s
             /\ buckets' = IF l.after # <<>>
                           THEN [buckets EXCEPT ![s] = Append(@, l.after)] ELSE buckets
       \/ /\ ~Blank(l) /\ Heading(l) = {}
          /\ buckets' = [buckets EXCEPT ![current] = Append(@, l.before \o l.after)]
          /\ UNCHANGED current
    /\ line' = line + 1
    /\ UNCHANGED <<job, required_skills, structured_content, extracted_keywords, attempts>>

\* breakdown_job, at its commit.
BreakDown ==
    /\ line > Len(description)
    /\ structured_content' = buckets
    /\ UNCHANGED <<job, required_skills, extracted_keywords, loop, attempts>>

\* A run that failed, or was lost after its commit, starts over.
Retry ==
    /\ line' = 1 /\ current' = "requirements" /\ buckets' = NoLines
    /\ UNCHANGED <<job, required_skills, structured_content, extracted_keywords, attempts>>

-----------------------------------------------------------------------------
(* extract_skills, extract_keywords.                                       *)

\* The title, and then the lines of the description.
Text == <<title>> \o [i \in DOMAIN description |->
                          description[i].before \o description[i].after]

Places(text) == UNION {{i} \X DOMAIN text[i] : i \in DOMAIN text}

At(text, p) == text[p[1]][p[2]]

Tokens(text) == {At(text, p) : p \in Places(text)}

\* A whole run of letters, whatever is attached to it.
extract_skills(text) ==
    Kept(KnownSkills, {i \in DOMAIN KnownSkills :
                          \E t \in Tokens(text) : t.word = KnownSkills[i]})

\* Mutant: stop words are counted.
AnyWord(t) == t.dotted \/ t.word \notin Short

\* Three characters at least; a stop word with punctuation is not one.
Keyword(t) == t.dotted \/ t.word \notin Short \cup Stopwords

counts(text, t) == Cardinality({p \in Places(text) : At(text, p) = t})

\* sorted(...) by count, the most frequent first, and then by word.
Before(text, t, u) ==
    \/ counts(text, t) > counts(text, u)
    \/ counts(text, t) = counts(text, u) /\ ByWord(t, u)

\* Mutant: one keyword more than the limit.
OneMore == KeywordLimit + 1

limit == KeywordLimit

Keywords(text) == {t \in Tokens(text) : Keyword(t)}

Ranked(text) ==
    LET K == Keywords(text) IN
    Sorted(K, [t \in K |-> {u \in K : Before(text, u, t)}])

extract_keywords(text) ==
    [i \in 1..Min({limit, Cardinality(Keywords(text))}) |-> Ranked(text)[i]]

\* list(dict.fromkeys(...)): every value where it occurs first.
Distinct(s) == Kept(s, {i \in DOMAIN s : \A j \in 1..(i - 1) : s[j] # s[i]})

\* Mutant: the list grows with every run.
Appended(skills, found) == skills \o found

Merged(skills, found) == Distinct(skills \o found)

\* extract_job_skills_keywords, which commits both columns at once.
Extract ==
    /\ structured_content # None
    /\ attempts < MaxAttempts
    /\ required_skills' = Merged(required_skills, extract_skills(Text))
    /\ extracted_keywords' = extract_keywords(Text)
    /\ attempts' = attempts + 1
    /\ UNCHANGED <<job, structured_content, loop>>

Next == ReadLine \/ BreakDown \/ Retry \/ Extract

Spec == Init /\ [][Next]_vars

-----------------------------------------------------------------------------
(* Properties, from definitions of what the results are.                   *)

\* The row's columns, and the loop within the description; there are never more
\* keywords than the limit.
TypeOK ==
    /\ line \in 1..(Len(description) + 1) /\ current \in Sections
    /\ DOMAIN buckets = Sections
    /\ structured_content = None \/ DOMAIN structured_content = Sections
    /\ attempts \in 0..MaxAttempts
    /\ extracted_keywords = None <=> attempts = 0
    /\ extracted_keywords # None => Len(extracted_keywords) <= KeywordLimit

IsHeading(l) ==
    l.before # <<>> /\ \E s \in Sections : Head(l.before).word \in Triggers[s]

\* The last heading at or above line i of d; 0 if there is none.
HeadingOf(d, i) == Max({0} \cup {j \in 1..i : IsHeading(d[j])})

SectionOf(d, i) ==
    IF HeadingOf(d, i) = 0 THEN "requirements"
    ELSE CHOOSE s \in Sections : Head(d[HeadingOf(d, i)].before).word \in Triggers[s]

\* What line i has to say; a heading or a blank line may say nothing.
Said(d, i) == IF IsHeading(d[i]) THEN d[i].after ELSE d[i].before \o d[i].after

Speaks(d, i) == IF IsHeading(d[i]) THEN d[i].after # <<>>
                ELSE d[i].before # <<>> \/ d[i].colon

\* The lines that belong to section s, up to the n-th line of d.
LinesOf(d, s, n) == {i \in 1..n : SectionOf(d, i) = s /\ Speaks(d, i)}

\* week-2-implementation.md: description lines are put into buckets by section
\* headings.  What is stored is, section by section and in order, what the
\* lines under its headings say, however often the run broke off or was retried.
StoredBySection ==
    structured_content # None =>
        \A s \in Sections :
            LET d == description
                Lines == LinesOf(d, s, Len(d)) IN
            /\ Len(structured_content[s]) = Cardinality(Lines)
            /\ \A i \in Lines :
                  structured_content[s][Cardinality(LinesOf(d, s, i))] = Said(d, i)

First(s, x) == CHOOSE i \in DOMAIN s : s[i] = x /\ \A j \in 1..(i - 1) : s[j] # x

Found == {w \in Range(KnownSkills) : \E t \in Tokens(Text) : t.word = w}

\* IMPLEMENTATION.md: the activities are idempotent.  After one run of
\* extract or many, the skills are those asked for, each once and in their
\* order, and then those found, in the order of the table.
SkillsMergedOnce ==
    attempts > 0 =>
        /\ Range(required_skills) = Range(asked) \cup Found
        /\ \A i, j \in DOMAIN required_skills : i < j =>
              LET a == required_skills[i]
                  b == required_skills[j] IN
              IF b \in Range(asked)
              THEN a \in Range(asked) /\ First(asked, a) < First(asked, b)
              ELSE a \in Range(asked) \/ First(KnownSkills, a) < First(KnownSkills, b)

Ranks(t, u) ==
    LET n == Cardinality({p \in Places(Text) : At(Text, p) = t})
        m == Cardinality({p \in Places(Text) : At(Text, p) = u}) IN
    n > m \/ (n = m /\ ByWord(t, u))

\* week-2-implementation.md: keywords are ranked by frequency, minus stop words.
\* Each one is a word of the text, none a bare stop word, and they are ranked;
\* a word left out has no room, and every keyword ranks before it.
KeywordsRanked ==
    extracted_keywords # None =>
        LET K == extracted_keywords IN
        /\ \A i \in DOMAIN K : K[i] \in Tokens(Text) /\ (K[i].dotted \/ K[i].word \notin Stopwords)
        /\ \A i, j \in DOMAIN K : i < j => Ranks(K[i], K[j])
        /\ \A t \in Tokens(Text) \ Range(K) :
              \/ ~t.dotted /\ t.word \in Stopwords \cup Short
              \/ Len(K) = KeywordLimit /\ \A i \in DOMAIN K : Ranks(K[i], t)

=============================================================================
