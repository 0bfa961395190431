------------------------------ MODULE MatchScore ------------------------------
(***************************************************************************)
(* How one candidate record is scored against a citation (scoring.py,      *)
(* layers 1 and 2) and how the best candidate of a service is picked       *)
(* (server.py).  Citations and records are Python dicts: functions on the  *)
(* keys they carry.  Similarities are counted in twentieths, so that the   *)
(* floors 0.70 and 0.95 are 14 and 19, and a score is a numerator over     *)
(* Whole(citation), the score of a perfect candidate.                      *)
(***************************************************************************)
EXTENDS Integers, Sequences, FiniteSets

CONSTANTS
    None,        \* an absent value
    Likeness,    \* token_sort_ratio of two normalized titles, in twentieths
    ShortTitle,  \* the titles of one to four tokens
    BareName,    \* normalize_journal, a function on the names of journals
    Abbreviated, \* _JOURNAL_ABBREV_TO_FULL, on normalized names
    Words        \* what names are made of; initials are all one word

ASSUME LikenessAssumption ==
    \A one \in DOMAIN Likeness : \A other \in DOMAIN Likeness[one] :
        Likeness[one][other] \in 0..20
ASSUME WordsAssumption == "initials" \in Words

\* dict.get; an empty string or list counts as absent, as it does for the
\* code's `not value'.
Get(dict, key) == IF key \in DOMAIN dict THEN dict[key] ELSE None
Has(dict, key) == Get(dict, key) # None

-----------------------------------------------------------------------------
(* Names.  An author is a string, of tokens that know whether they look    *)
(* like initials (one to three capitals) and whether a comma ends them, or *)
(* a dict of family and given name.                                        *)
Token == [word : Words, initial : BOOLEAN, comma : BOOLEAN]
Author == [kind : {"string"}, tokens : Seq(Token)]
          \cup [kind : {"dict"}, family : Seq(Token), given : Seq(Token)]

AuthorToString(author) ==
    IF author.kind = "string" THEN author.tokens
    ELSE IF author.family = <<>> THEN author.given
    ELSE IF author.given = <<>> THEN author.family
    ELSE [author.family EXCEPT ![Len(author.family)].comma = TRUE]
         \o author.given

First(positions) == CHOOSE i \in positions : \A j \in positions : i <= j
Last(positions) == CHOOSE i \in positions : \A j \in positions : i >= j

\* Mutant of SurnameSpan: no branch for a family name followed by initials.
SurnameSpanWestern(name) ==
    LET commas == {i \in DOMAIN name : name[i].comma} IN
    IF commas # {} THEN <<1, First(commas)>> ELSE <<Len(name), Len(name)>>

\* parse_author_string, the tokens of the surname, from the first to the
\* last: what is before a comma; else a lone token; else nothing if all are
\* initials; else what is before the initials at the end; else the last.
SurnameSpan(name) ==
    LET commas == {i \in DOMAIN name : name[i].comma}
        words == {i \in DOMAIN name : ~name[i].initial}
    IN  CASE commas # {} -> <<1, First(commas)>>
          [] commas = {} /\ Len(name) <= 1 -> <<1, Len(name)>>
          [] commas = {} /\ Len(name) > 1 /\ words = {} -> <<1, 0>>
          [] OTHER -> IF Len(name) \in words THEN <<Len(name), Len(name)>>
                      ELSE <<1, Last(words)>>

Surname(name) == SubSeq(name, SurnameSpan(name)[1], SurnameSpan(name)[2])

\* normalize_author_surname: the words of the surname.
NormalizedSurname(author) ==
    LET surname == Surname(AuthorToString(author)) IN
    [i \in DOMAIN surname |-> surname[i].word]

\* _authors_to_surname_list
SurnameList(authors) ==
    SelectSeq([i \in DOMAIN authors |-> NormalizedSurname(authors[i])],
              LAMBDA surname : surname # <<>>)

-----------------------------------------------------------------------------
(* Layer 1.  An identifier knows its canonical form and the prefix, case,  *)
(* zeros or version it is written with, which its normalizer removes.      *)
(* Records of Semantic Scholar call theirs paper_id, so the last key is    *)
(* never in a record.                                                      *)
IdentifierKeys ==
    {"doi", "pmid", "arxiv_id", "openalex_id", "semantic_scholar_id"}

\* check_identifier_match
IdentifierMatch(citation, record) ==
    \E key \in IdentifierKeys :
        /\ Has(citation, key) /\ Has(record, key)
        /\ citation[key].id = record[key].id

-----------------------------------------------------------------------------
(* Layer 2, the five similarities.                                         *)
TitleSim(citation, record) ==
    IF Has(citation, "title") /\ Has(record, "title")
    THEN Likeness[citation.title][record.title] ELSE 0

Distance(m, n) == IF m >= n THEN m - n ELSE n - m

YearScore(citation, record) ==
    IF ~Has(citation, "year") \/ ~Has(record, "year") THEN 0
    ELSE LET delta == Distance(citation.year, record.year) IN
         IF delta = 0 THEN 20 ELSE IF delta = 1 THEN 14 ELSE 0

FirstAuthorMatch(citation, record) ==
    IF /\ Has(citation, "authors") /\ Has(record, "authors")
       /\ NormalizedSurname(citation.authors[1]) # <<>>
       /\ NormalizedSurname(citation.authors[1])
              = NormalizedSurname(record.authors[1])
    THEN 20 ELSE 0

\* The share of the other authors cited that the record names anywhere.
OtherAuthorsMatch(citation, record) ==
    IF ~Has(citation, "authors") \/ ~Has(record, "authors") THEN 0
    ELSE LET surname(i) == NormalizedSurname(citation.authors[i])
             cited == {i \in 2..Len(citation.authors) : surname(i) # <<>>}
             hits == {i \in cited : \E j \in DOMAIN record.authors :
                         NormalizedSurname(record.authors[j]) = surname(i)}
         IN  IF cited = {} THEN 0
             ELSE (20 * Cardinality(hits)) \div Cardinality(cited)

\* journals_match: the same normalized name, or one the table's full form
\* of the other.
JournalsMatch(one, other) ==
    LET a == BareName[one]
        b == BareName[other]
    IN  \/ a = b
        \/ a \in DOMAIN Abbreviated /\ Abbreviated[a] = b
        \/ b \in DOMAIN Abbreviated /\ Abbreviated[b] = a

JournalMatch(citation, record) ==
    IF /\ Has(citation, "journal") /\ Has(record, "journal")
       /\ JournalsMatch(citation.journal, record.journal)
    THEN 20 ELSE 0

Similarities(citation, record) ==
    [title         |-> TitleSim(citation, record),
     first_author  |-> FirstAuthorMatch(citation, record),
     year          |-> YearScore(citation, record),
     journal       |-> JournalMatch(citation, record),
     other_authors |-> OtherAuthorsMatch(citation, record)]

Components == {"title", "first_author", "year", "journal", "other_authors"}

-----------------------------------------------------------------------------
(* Layer 2, the weights.                                                   *)
Applicable(citation) ==
    {k \in Components :
        CASE k = "first_author" -> Has(citation, "authors")
          [] k = "other_authors" -> /\ Has(citation, "authors")
                                    /\ Len(citation.authors) >= 2
          [] OTHER -> Has(citation, k)}

\* _DEFAULT_WEIGHTS in tenths, those of absent fields zero.
DefaultWeight(on) ==
    [k \in Components |->
        IF k \notin on THEN 0
        ELSE IF k = "title" THEN 4
        ELSE IF k \in {"first_author", "year"} THEN 2 ELSE 1]

Total(w) == w.title + w.first_author + w.year + w.journal + w.other_authors

One(b) == IF b THEN 1 ELSE 0

\* How many fields besides the title share the weight a short title frees.
Sharing(on) ==
    One("first_author" \in on) + One("year" \in on)
        + One("journal" \in on) + One("other_authors" \in on)

\* Mutant of Weights: the title keeps its weight when it is short.
WeightsUnreduced(citation) ==
    LET on == Applicable(citation)
        w == DefaultWeight(on)
        n == Sharing(on)
    IN  IF "title" \in on /\ citation.title \in ShortTitle /\ n > 0
        THEN [k \in Components |->
                 IF k \notin on THEN 0
                 ELSE IF k = "title" THEN 5 * n * w[k]
                 ELSE 5 * n * w[k] + (20 - Total(w))]
        ELSE w

\* The weights as integers in proportion: w / Total(w), and for a short
\* title 1/5 for the title, the rest of its share split evenly, over the
\* denominator 5 * n * Total(w).
Weights(citation) ==
    LET on == Applicable(citation)
        w == DefaultWeight(on)
        n == Sharing(on)
    IN  IF "title" \in on /\ citation.title \in ShortTitle /\ n > 0
        THEN [k \in Components |->
                 IF k \notin on THEN 0
                 ELSE IF k = "title" THEN n * Total(w)
                 ELSE 5 * n * w[k] + (20 - Total(w))]
        ELSE w

\* What the weights are shares of.
Denominator(citation) ==
    LET on == Applicable(citation)
        w == DefaultWeight(on)
        n == Sharing(on)
    IN  IF "title" \in on /\ citation.title \in ShortTitle /\ n > 0
        THEN 5 * n * Total(w) ELSE Total(w)

\* Confidence 1.0; with no field to compare every score is zero.
Whole(citation) ==
    IF Denominator(citation) = 0 THEN 1 ELSE 20 * Denominator(citation)

WeightedScore(citation, record) ==
    LET w == Weights(citation)
        s == Similarities(citation, record)
    IN  w.title * s.title + w.first_author * s.first_author
            + w.year * s.year + w.journal * s.journal
            + w.other_authors * s.other_authors

-----------------------------------------------------------------------------
(* Layer 2, guards and grades.                                             *)

Reasons == {"year_off_by_more_than_one", "first_author_mismatch_low_title_sim",
            "title_similarity_below_floor"}

\* The sanity guards, first hit wins.
RejectedBy(citation, record) ==
    IF /\ Has(citation, "year") /\ Has(record, "year")
       /\ Distance(citation.year, record.year) > 1
    THEN "year_off_by_more_than_one"
    ELSE IF /\ Has(citation, "authors") /\ Has(record, "authors")
            /\ FirstAuthorMatch(citation, record) < 20
            /\ TitleSim(citation, record) < 19
    THEN "first_author_mismatch_low_title_sim"
    ELSE IF Has(citation, "title") /\ TitleSim(citation, record) < 14
    THEN "title_similarity_below_floor"
    ELSE None

Quality == {"high", "medium", "low", "none"}

\* Mutant of Grades: high asks for the score alone.
GradesByScore(citation, record) ==
    LET score == 20 * WeightedScore(citation, record)
        whole == Whole(citation)
    IN  {q \in Quality :
            \/ q = "high" /\ score >= 18 * whole
            \/ q = "medium" /\ score >= 15 * whole /\ score <= 18 * whole
            \/ q = "low" /\ score >= 12 * whole /\ score <= 15 * whole
            \/ q = "none" /\ score <= 12 * whole}

\* The grades a score may get.  A weighted sum of doubles that should equal
\* a threshold falls on either side of it: then two grades are possible.
Grades(citation, record) ==
    LET score == 20 * WeightedScore(citation, record)
        whole == Whole(citation)
        near == TitleSim(citation, record) >= 19
    IN  {q \in Quality :
            \/ q = "high" /\ near /\ score >= 18 * whole
            \/ q = "medium" /\ score >= 15 * whole
                   /\ (near => score <= 18 * whole)
            \/ q = "low" /\ score >= 12 * whole /\ score <= 15 * whole
            \/ q = "none" /\ score <= 12 * whole}

\* _count_populated_input_fields
Populated(citation) ==
    One(Has(citation, "title")) + One(Has(citation, "authors"))
        + One(Has(citation, "year")) + One(Has(citation, "journal"))

Score(confidence, quality, rejected, capped, byId) ==
    [confidence |-> confidence, quality |-> quality, rejected |-> rejected,
     capped |-> capped, byId |-> byId]

\* Too few fields are cited for "high".
Capped(citation, grade) == grade = "high" /\ Populated(citation) < 3

\* score_bibliographic_match: the scores a record may get.
BibliographicScores(citation, record) ==
    IF RejectedBy(citation, record) # None
    THEN {Score(0, "none", RejectedBy(citation, record), FALSE, FALSE)}
    ELSE {Score(WeightedScore(citation, record),
                IF Capped(citation, grade) THEN "medium" ELSE grade,
                None, Capped(citation, grade), FALSE) :
             grade \in Grades(citation, record)}

\* score_match: an identifier decides, else the fields do.
ScoreMatch(citation, record) ==
    IF IdentifierMatch(citation, record)
    THEN {Score(Whole(citation), "high", None, FALSE, TRUE)}
    ELSE BibliographicScores(citation, record)

-----------------------------------------------------------------------------
(* _select_best_candidate: sort by confidence, stably, highest first; take *)
(* the first that is not "none", else the first.                           *)
Leads(scores, i, among) ==
    /\ i \in among
    /\ \A j \in among : \/ scores[i].confidence > scores[j].confidence
                        \/ scores[i].confidence = scores[j].confidence /\ i <= j

Best(scores) ==
    LET passed == {i \in DOMAIN scores : scores[i].quality # "none"} IN
    IF passed # {} THEN CHOOSE i \in passed : Leads(scores, i, passed)
    ELSE CHOOSE i \in DOMAIN scores : Leads(scores, i, DOMAIN scores)
=============================================================================
