------------------------------ MODULE MatchProofs ------------------------------
(***************************************************************************)
(* Proofs about Matching: what "high" and "verified" promise holds for     *)
(* every citation, every set of records and every measure of likeness.     *)
(***************************************************************************)
EXTENDS MatchProperties, FiniteSetTheorems, SequenceTheorems,
    WellFoundedInduction, TLAPS

-----------------------------------------------------------------------------
(* Picking the best of a set of scores.                                    *)

\* A nonempty finite set of numbers has a smallest element: what is not
\* above it is least, for strict inclusion, among such finite sets.
LEMMA MinExists ==
    ASSUME NEW T \in SUBSET Int, IsFiniteSet(T), T # {}
    PROVE  \E m \in T : \A n \in T : m <= n
<1> DEFINE UpTo(m) == {n \in T : n <= m}
           segments == {UpTo(m) : m \in T}
<1>1. IsWellFoundedOn(StrictSubsetOrdering(T), FiniteSubsetsOf(T))
  BY FS_StrictSubsetOrderingWellFounded
<1>2. segments \subseteq FiniteSubsetsOf(T) /\ segments # {}
  <2>1. ASSUME NEW m \in T
        PROVE  IsFiniteSet(UpTo(m)) /\ UpTo(m) \subseteq T
    BY FS_Subset
  <2>2. QED
    BY <2>1 DEF FiniteSubsetsOf
<1>3. \E x \in segments : \A y \in segments :
          ~(<<y, x>> \in StrictSubsetOrdering(T))
  <2> HIDE DEF segments
  <2>1. QED
    BY <1>1, <1>2, WFMin
<1>4. PICK m \in T :
          \A n \in T : ~(<<UpTo(n), UpTo(m)>> \in StrictSubsetOrdering(T))
  BY <1>3
<1>5. ASSUME NEW n \in T, n < m
      PROVE  FALSE
  <2>1. UpTo(n) \subseteq UpTo(m) /\ UpTo(n) # UpTo(m) /\ UpTo(m) \subseteq T
    <3>1. n \in Int /\ m \in Int /\ T \subseteq Int
      OBVIOUS
    <3>2. UpTo(n) \subseteq UpTo(m) /\ UpTo(m) \subseteq T
      <4>1. ASSUME NEW i \in T, i <= n
            PROVE  i <= m
        <5>1. i \in Int
          BY <3>1
        <5>2. QED
          BY <1>5, <3>1, <4>1, <5>1
      <4>2. QED
        BY <4>1
    <3>3. m \in UpTo(m) /\ m \notin UpTo(n)
      BY <1>5, <3>1
    <3>4. QED
      BY <3>2, <3>3
  <2>2. <<UpTo(n), UpTo(m)>> \in StrictSubsetOrdering(T)
    BY <2>1 DEF StrictSubsetOrdering
  <2>3. QED
    BY <2>2, <1>4
<1>6. QED
  BY <1>5

LEMMA SmallestExists ==
    ASSUME NEW bound \in Nat, NEW T \in SUBSET (0..bound), T # {}
    PROVE  \E m \in T : \A n \in T : m <= n
<1>1. IsFiniteSet(0..bound)
  BY FS_Interval
<1>2. IsFiniteSet(T) /\ T \in SUBSET Int
  <2>1. T \in SUBSET Int
    OBVIOUS
  <2>2. IsFiniteSet(T)
    BY <1>1, FS_Subset
  <2>3. QED
    BY <2>1, <2>2
<1>3. QED
  BY <1>2, MinExists

\* Some score leads: the sort of _select_best_candidate has a first element.
LEMMA LeaderExists ==
    ASSUME NEW bound \in Nat, NEW S \in SUBSET (0..bound), S # {},
           NEW scores, NEW whole \in Nat,
           \A i \in S : scores[i].confidence \in 0..whole
    PROVE  \E i \in S : Leads(scores, i, S)
<1> DEFINE gap(i) == whole - scores[i].confidence
           gaps == {gap(i) : i \in S}
<1>1. PICK g \in gaps : \A h \in gaps : g <= h
  <2>0. ASSUME NEW i \in S
        PROVE  gap(i) \in 0..whole
    OBVIOUS
  <2>1. gaps \in SUBSET (0..whole) /\ gaps # {}
    BY <2>0
  <2> HIDE DEF gaps
  <2>2. QED
    BY <2>1, SmallestExists
<1> DEFINE top == {i \in S : gap(i) = g}
<1>2. PICK i \in top : \A j \in top : i <= j
  <2>1. top \in SUBSET (0..bound) /\ top # {}
    BY <1>1
  <2>2. QED
    BY <2>1, SmallestExists
<1>3. \A j \in S : gap(i) <= gap(j)
  BY <1>1, <1>2
<1>4. ASSUME NEW j \in S
      PROVE  \/ scores[i].confidence > scores[j].confidence
             \/ scores[i].confidence = scores[j].confidence /\ i <= j
  <2>1. scores[i].confidence >= scores[j].confidence
    BY <1>2, <1>3
  <2>2. CASE scores[i].confidence = scores[j].confidence
    BY <2>2, <1>2
  <2>3. CASE scores[i].confidence > scores[j].confidence
    BY <2>3
  <2>4. QED
    BY <2>1, <2>2, <2>3, <1>2
<1>5. QED
  BY <1>2, <1>4 DEF Leads

-----------------------------------------------------------------------------
(* The weights applied and the score they give.                            *)

\* A share of something between zero and all of it is at most twenty
\* twentieths.
LEMMA ShareInRange ==
    ASSUME NEW hits \in Nat, NEW all \in Nat, hits <= all, all # 0
    PROVE  (20 * hits) \div all \in 0..20
<1> DEFINE q == (20 * hits) \div all
<1>1. q \in Nat /\ all * q <= 20 * hits
  OBVIOUS
<1>2. ASSUME q >= 21
      PROVE  FALSE
  <2>1. all * q >= all * 21
    BY <1>1, <1>2
  <2>2. QED
    BY <1>1, <2>1
<1>3. QED
  BY <1>1, <1>2

\* Every similarity is a number of twentieths.
LEMMA SimilaritiesInRange ==
    ASSUME NEW c \in Citation, NEW r \in Record
    PROVE  Similarities(c, r) \in [Components -> 0..20]
<1>1. TitleSim(c, r) \in 0..20
  BY CitationAssumption, LikenessAssumption DEF TitleSim
<1>2. YearScore(c, r) \in 0..20
  BY DEF YearScore
<1>3. FirstAuthorMatch(c, r) \in 0..20
  BY DEF FirstAuthorMatch
<1>4. JournalMatch(c, r) \in 0..20
  BY DEF JournalMatch
<1>5. OtherAuthorsMatch(c, r) \in 0..20
  <2> DEFINE surname(i) == NormalizedSurname(c.authors[i])
             cited == {i \in 2..Len(c.authors) : surname(i) # <<>>}
             hits == {i \in cited : \E j \in DOMAIN r.authors :
                         NormalizedSurname(r.authors[j]) = surname(i)}
  <2> SUFFICES ASSUME Has(c, "authors"), cited # {}
               PROVE  (20 * Cardinality(hits)) \div Cardinality(cited) \in 0..20
    BY DEF OtherAuthorsMatch
  <2>0. Len(c.authors) \in Nat
    BY AuthorAssumption, LenProperties
  <2>1. IsFiniteSet(2..Len(c.authors))
    BY <2>0, FS_Interval
  <2>2. cited \subseteq 2..Len(c.authors) /\ hits \subseteq cited
    OBVIOUS
  <2> HIDE DEF cited, hits
  <2>3. IsFiniteSet(cited)
    BY <2>1, <2>2, FS_Subset
  <2>4. IsFiniteSet(hits) /\ Cardinality(hits) <= Cardinality(cited)
    BY <2>2, <2>3, FS_Subset
  <2>5. Cardinality(hits) \in Nat /\ Cardinality(cited) \in Nat
    BY <2>3, <2>4, FS_CardinalityType
  <2>6. Cardinality(cited) # 0
    BY <2>3, FS_EmptySet
  <2>7. QED
    BY <2>4, <2>5, <2>6, ShareInRange
<1>6. QED
  BY <1>1, <1>2, <1>3, <1>4, <1>5 DEF Similarities, Components

\* The weights are shares of their denominator: they add up to it, whichever
\* fields are cited and however short the title is, the first author and the
\* year, when cited, each weigh more than a tenth, and the title something.
LEMMA WeightsAddUp ==
    ASSUME NEW c \in Citation
    PROVE  /\ Weights(c) \in [Components -> Nat]
           /\ Total(Weights(c)) = Denominator(c)
           /\ Denominator(c) \in Nat
           /\ Has(c, "authors") =>
                  10 * Weights(c).first_author > Denominator(c)
           /\ Has(c, "year") => 10 * Weights(c).year > Denominator(c)
           /\ Has(c, "title") => Weights(c).title > 0
<1> DEFINE on == Applicable(c)
           w == DefaultWeight(on)
           n == Sharing(on)
<1>1. on \subseteq Components
  BY DEF Applicable
<1>2. /\ "first_author" \in on <=> Has(c, "authors")
      /\ "year" \in on <=> Has(c, "year")
      /\ "title" \in on <=> Has(c, "title")
  BY DEF Applicable, Components
<1>3. /\ w \in [Components -> 0..4]
      /\ w.title = IF "title" \in on THEN 4 ELSE 0
      /\ w.first_author = IF "first_author" \in on THEN 2 ELSE 0
      /\ w.year = IF "year" \in on THEN 2 ELSE 0
      /\ w.journal = IF "journal" \in on THEN 1 ELSE 0
      /\ w.other_authors = IF "other_authors" \in on THEN 1 ELSE 0
  BY <1>1 DEF DefaultWeight, Components
<1>4. /\ n = One("first_author" \in on) + One("year" \in on) + One("journal" \in on)
                 + One("other_authors" \in on)
      /\ n \in 0..4
  BY <1>1 DEF Sharing, One, Components
<1> DEFINE short == "title" \in on /\ c.title \in ShortTitle /\ n > 0
<1>5. CASE ~short
  <2>1. Weights(c) = w /\ Denominator(c) = Total(w)
    BY <1>5 DEF Weights, Denominator
  <2>2. QED
    BY <2>1, <1>1, <1>2, <1>3 DEF Total, Components
<1>6. CASE short
  <2> DEFINE v == Weights(c)
             t == Total(w)
  <2>1. /\ v \in [Components -> Nat]
        /\ v.title = n * t
        /\ v.first_author = IF "first_author" \in on THEN 10 * n + (20 - t) ELSE 0
        /\ v.year = IF "year" \in on THEN 10 * n + (20 - t) ELSE 0
        /\ v.journal = IF "journal" \in on THEN 5 * n + (20 - t) ELSE 0
        /\ v.other_authors = IF "other_authors" \in on THEN 5 * n + (20 - t) ELSE 0
        /\ Denominator(c) = 5 * n * t
    <3>1. v = [k \in Components |->
                  IF k \notin on THEN 0
                  ELSE IF k = "title" THEN n * t
                  ELSE 5 * n * w[k] + (20 - t)]
      BY <1>6 DEF Weights
    <3>2. t \in 0..10
      BY <1>1, <1>3 DEF Total, Components
    <3>3. n * t \in Nat
      BY <1>4, <3>2
    <3>4. \A k \in Components : 5 * n * w[k] \in Nat
      BY <1>3, <1>4
    <3>5. v \in [Components -> Nat]
      BY <3>1, <3>2, <3>3, <3>4
    <3>6. Denominator(c) = 5 * n * t
      BY <1>6 DEF Denominator
    <3>7. QED
      BY <3>1, <3>5, <3>6, <1>1, <1>3, <1>4, <1>6 DEF Components
  <2>2. t = 4 + w.first_author + w.year + w.journal + w.other_authors
    BY <1>3, <1>6 DEF Total
  <2> HIDE DEF v, t, w, n, on
  <2>3. CASE n = 1
    BY <2>1, <2>2, <2>3, <1>1, <1>2, <1>3, <1>4 DEF Total, One, Components, v
  <2>4. CASE n = 2
    BY <2>1, <2>2, <2>4, <1>1, <1>2, <1>3, <1>4 DEF Total, One, Components, v
  <2>5. CASE n = 3
    BY <2>1, <2>2, <2>5, <1>1, <1>2, <1>3, <1>4 DEF Total, One, Components, v
  <2>6. CASE n = 4
    BY <2>1, <2>2, <2>6, <1>1, <1>2, <1>3, <1>4 DEF Total, One, Components, v
  <2>7. n \in 1..4
    BY <1>4, <1>6
  <2>8. QED
    BY <2>3, <2>4, <2>5, <2>6, <2>7
<1>7. QED
  BY <1>5, <1>6

\* A similarity of at most twenty uses at most the whole of its weight.
LEMMA Product ==
    ASSUME NEW a \in Nat, NEW s \in 0..20
    PROVE  a * s \in Nat /\ a * s <= 20 * a
OBVIOUS

LEMMA Short ==
    ASSUME NEW a \in Nat, NEW s \in 0..20, a > 0, s < 20
    PROVE  a * s < 20 * a
OBVIOUS

\* No record scores more than a perfect one, and one without the cited
\* first author, or off by years, lacks at least the weight of that field;
\* one whose title is not the cited one is not perfect.
LEMMA ScoreBound ==
    ASSUME NEW c \in Citation, NEW r \in Record
    PROVE  LET w == Weights(c)
               s == Similarities(c, r)
           IN  /\ WeightedScore(c, r) \in Nat
               /\ WeightedScore(c, r) <= 20 * Denominator(c)
               /\ s.first_author = 0 => WeightedScore(c, r)
                      <= 20 * Denominator(c) - 20 * w.first_author
               /\ s.year = 0 => WeightedScore(c, r)
                      <= 20 * Denominator(c) - 20 * w.year
               /\ w.title > 0 /\ s.title < 20 =>
                      WeightedScore(c, r) < 20 * Denominator(c)
<1> DEFINE w == Weights(c)
           s == Similarities(c, r)
<1>1. /\ w \in [Components -> Nat]
      /\ Denominator(c) = w.title + w.first_author + w.year + w.journal
                              + w.other_authors
  BY WeightsAddUp DEF Total
<1>2. s \in [Components -> 0..20]
  BY SimilaritiesInRange
<1>3. WeightedScore(c, r) = w.title * s.title + w.first_author * s.first_author
          + w.year * s.year + w.journal * s.journal
          + w.other_authors * s.other_authors
  BY DEF WeightedScore
<1> HIDE DEF w, s
<1>4. \A k \in Components : w[k] \in Nat /\ s[k] \in 0..20
  BY <1>1, <1>2
<1>5. \A k \in Components : w[k] * s[k] \in Nat /\ w[k] * s[k] <= 20 * w[k]
  BY <1>4, Product
<1>6. /\ s.first_author = 0 => w.first_author * s.first_author = 0
      /\ s.year = 0 => w.year * s.year = 0
  BY <1>4 DEF Components
<1>6a. w.title > 0 /\ s.title < 20 => w.title * s.title < 20 * w.title
  <2>1. w.title \in Nat /\ s.title \in 0..20
    BY <1>4 DEF Components
  <2>2. QED
    BY <2>1, Short
<1> DEFINE p(k) == w[k] * s[k]
<1>7. /\ w.title \in Nat /\ p("title") \in Nat /\ p("title") <= 20 * w.title
      /\ w.first_author \in Nat /\ p("first_author") \in Nat
      /\ p("first_author") <= 20 * w.first_author
      /\ w.year \in Nat /\ p("year") \in Nat /\ p("year") <= 20 * w.year
      /\ w.journal \in Nat /\ p("journal") \in Nat
      /\ p("journal") <= 20 * w.journal
      /\ w.other_authors \in Nat /\ p("other_authors") \in Nat
      /\ p("other_authors") <= 20 * w.other_authors
  BY <1>4, <1>5 DEF Components
<1>8. /\ WeightedScore(c, r) = p("title") + p("first_author") + p("year")
             + p("journal") + p("other_authors")
      /\ s.first_author = 0 => p("first_author") = 0
      /\ s.year = 0 => p("year") = 0
      /\ w.title > 0 /\ s.title < 20 => p("title") < 20 * w.title
  BY <1>3, <1>6, <1>6a
<1> HIDE DEF p
<1>9. w.title > 0 /\ s.title < 20 => WeightedScore(c, r) < 20 * Denominator(c)
  BY <1>1, <1>7, <1>8
<1>10. /\ WeightedScore(c, r) \in Nat
       /\ WeightedScore(c, r) <= 20 * Denominator(c)
       /\ s.first_author = 0 => WeightedScore(c, r)
              <= 20 * Denominator(c) - 20 * w.first_author
       /\ s.year = 0 => WeightedScore(c, r) <= 20 * Denominator(c) - 20 * w.year
  BY <1>1, <1>7, <1>8
<1>11. QED
  BY <1>9, <1>10 DEF w, s

LEMMA WholeType ==
    ASSUME NEW c \in Citation
    PROVE  Whole(c) \in Nat /\ 20 * Denominator(c) <= Whole(c)
BY WeightsAddUp DEF Whole

\* The scores score_match gives are well formed and at most one.
LEMMA ScoreType ==
    ASSUME NEW c \in Citation, NEW r \in Record, NEW score \in ScoreMatch(c, r)
    PROVE  score \in ScoreOf(Whole(c))
<1>1. WeightedScore(c, r) \in 0..Whole(c) /\ Whole(c) \in 0..Whole(c)
          /\ 0 \in 0..Whole(c)
  BY ScoreBound, WholeType, WeightsAddUp
<1>2. CASE IdentifierMatch(c, r)
  <2>1. score = Score(Whole(c), "high", None, FALSE, TRUE)
    BY <1>2 DEF ScoreMatch
  <2>2. QED
    BY <1>1, <2>1 DEF Score, ScoreOf, Quality
<1>3. CASE ~IdentifierMatch(c, r)
  <2>1. score \in BibliographicScores(c, r)
    BY <1>3 DEF ScoreMatch
  <2>2. CASE RejectedBy(c, r) # None
    <3>1. score = Score(0, "none", RejectedBy(c, r), FALSE, FALSE)
      BY <2>1, <2>2 DEF BibliographicScores
    <3>2. RejectedBy(c, r) \in Reasons \cup {None}
      BY DEF RejectedBy, Reasons
    <3>3. QED
      BY <1>1, <3>1, <3>2 DEF Score, ScoreOf, Quality
  <2>3. CASE RejectedBy(c, r) = None
    <3>1. PICK grade \in Grades(c, r) :
              score = Score(WeightedScore(c, r),
                            IF Capped(c, grade) THEN "medium" ELSE grade,
                            None, Capped(c, grade), FALSE)
      BY <2>1, <2>3 DEF BibliographicScores
    <3>2. grade \in Quality
      BY DEF Grades
    <3>3. Capped(c, grade) \in BOOLEAN
      BY DEF Capped
    <3>4. QED
      BY <1>1, <3>1, <3>2, <3>3 DEF Score, ScoreOf, Quality
  <2>4. QED
    BY <2>2, <2>3
<1>4. QED
  BY <1>2, <1>3

-----------------------------------------------------------------------------
(* What a passing score says of its record.                                *)

\* A score that passed and was not decided by an identifier met no guard.
LEMMA PassedAgrees ==
    ASSUME NEW c \in Citation, NEW r \in Record, NEW score \in ScoreMatch(c, r),
           score.quality # "none", ~IdentifierMatch(c, r), citation = c
    PROVE  Agrees(r)
<1>1. score \in BibliographicScores(c, r)
  BY DEF ScoreMatch
<1>2. RejectedBy(c, r) = None
  <2>1. ASSUME RejectedBy(c, r) # None
        PROVE  FALSE
    <3>1. score = Score(0, "none", RejectedBy(c, r), FALSE, FALSE)
      BY <1>1, <2>1 DEF BibliographicScores
    <3>2. QED
      BY <3>1 DEF Score
  <2>2. QED
    BY <2>1
<1>3. /\ TitleSim(c, r) \in 0..20
      /\ FirstAuthorMatch(c, r) \in {0, 20}
  <2>1. TitleSim(c, r) \in 0..20
    BY CitationAssumption, LikenessAssumption DEF TitleSim
  <2>2. QED
    BY <2>1 DEF FirstAuthorMatch
<1>4. /\ ~(Has(c, "year") /\ Has(r, "year") /\ Distance(c.year, r.year) > 1)
      /\ ~(/\ Has(c, "authors") /\ Has(r, "authors")
           /\ FirstAuthorMatch(c, r) < 20 /\ TitleSim(c, r) < 19)
      /\ ~(Has(c, "title") /\ TitleSim(c, r) < 14)
  BY <1>2, NoneAssumption DEF RejectedBy, Reasons
<1>5. Has(c, "year") /\ Has(r, "year") => c.year - r.year \in {-1, 0, 1}
  <2>1. Has(c, "year") /\ Has(r, "year") => c.year \in Int /\ r.year \in Int
    BY CitationAssumption
  <2>2. QED
    BY <1>4, <2>1 DEF Distance
<1>6. QED
  BY <1>3, <1>4, <1>5 DEF Agrees

\* A "high" score is earned: with first author or year missed, the weight
\* that is lost keeps the score below nine tenths.
LEMMA HighEarned ==
    ASSUME NEW c \in Citation, NEW r \in Record, NEW score \in ScoreMatch(c, r),
           score.quality = "high", citation = c
    PROVE  Earned(r)
<1> SUFFICES ASSUME ~IdentifierMatch(c, r)
             PROVE  Earned(r)
  BY DEF Earned
<1>1. score \in BibliographicScores(c, r)
  BY DEF ScoreMatch
<1>2. RejectedBy(c, r) = None
  <2>1. ASSUME RejectedBy(c, r) # None
        PROVE  FALSE
    <3>1. score = Score(0, "none", RejectedBy(c, r), FALSE, FALSE)
      BY <1>1, <2>1 DEF BibliographicScores
    <3>2. QED
      BY <3>1 DEF Score
  <2>2. QED
    BY <2>1
<1>3. PICK grade \in Grades(c, r) :
          score = Score(WeightedScore(c, r),
                        IF Capped(c, grade) THEN "medium" ELSE grade,
                        None, Capped(c, grade), FALSE)
  BY <1>1, <1>2 DEF BibliographicScores
<1>4. grade = "high" /\ ~Capped(c, grade)
  BY <1>3 DEF Score
<1>5. /\ TitleSim(c, r) >= 19
      /\ 20 * WeightedScore(c, r) >= 18 * Whole(c)
  BY <1>4 DEF Grades
<1>6. ~(Populated(c) < 3) /\ Populated(c) \in Nat
  BY <1>4 DEF Capped, Populated, One
<1> DEFINE w == Weights(c)
<1>7. /\ w.first_author \in Nat /\ w.year \in Nat
      /\ Denominator(c) \in Nat
      /\ Has(c, "authors") => 10 * w.first_author > Denominator(c)
      /\ Has(c, "year") => 10 * w.year > Denominator(c)
  BY WeightsAddUp DEF Components
<1>8. /\ WeightedScore(c, r) \in Nat
      /\ FirstAuthorMatch(c, r) = 0 =>
             WeightedScore(c, r) <= 20 * Denominator(c) - 20 * w.first_author
      /\ YearScore(c, r) = 0 =>
             WeightedScore(c, r) <= 20 * Denominator(c) - 20 * w.year
  BY ScoreBound DEF Similarities
<1>9. Whole(c) \in Nat /\ 20 * Denominator(c) <= Whole(c)
  BY WholeType
<1> HIDE DEF w
<1>10. Has(c, "authors") => FirstAuthorMatch(c, r) # 0
  BY <1>5, <1>7, <1>8, <1>9
<1>11. Has(c, "year") => YearScore(c, r) # 0
  BY <1>5, <1>7, <1>8, <1>9
<1>12. FirstAuthorMatch(c, r) \in {0, 20} /\ YearScore(c, r) \in {0, 14, 20}
  BY DEF FirstAuthorMatch, YearScore
<1>13. QED
  BY <1>5, <1>6, <1>10, <1>11, <1>12 DEF Earned

-----------------------------------------------------------------------------
(* The candidate picked is one of the candidates.                          *)
LEMMA BestIsOne ==
    ASSUME NEW n \in Nat \ {0}, NEW scores, DOMAIN scores = 1..n,
           NEW whole \in Nat, \A i \in 1..n : scores[i].confidence \in 0..whole
    PROVE  Best(scores) \in 1..n
<1> DEFINE passed == {i \in DOMAIN scores : scores[i].quality # "none"}
<1>1. CASE passed # {}
  <2>1. \E i \in passed : Leads(scores, i, passed)
    <3>1. passed \in SUBSET (0..n) /\ \A i \in passed : i \in 1..n
      OBVIOUS
    <3> HIDE DEF passed
    <3>2. QED
      BY <1>1, <3>1, LeaderExists
  <2>2. Best(scores) = CHOOSE i \in passed : Leads(scores, i, passed)
    BY <1>1 DEF Best
  <2>3. QED
    BY <2>1, <2>2
<1>2. CASE passed = {}
  <2>1. \E i \in DOMAIN scores : Leads(scores, i, DOMAIN scores)
    <3>1. DOMAIN scores \in SUBSET (0..n) /\ 1 \in DOMAIN scores
      OBVIOUS
    <3>2. QED
      BY <3>1, LeaderExists
  <2>2. Best(scores) = CHOOSE i \in DOMAIN scores :
                           Leads(scores, i, DOMAIN scores)
    BY <1>2 DEF Best
  <2>3. QED
    BY <2>1, <2>2
<1>3. QED
  BY <1>1, <1>2

\* The scores are those of the records taken.
LEMMA ScoresAre ==
    ASSUME Backed
    PROVE  /\ DOMAIN Scores = {j \in 1..5 : Services[j] \in DOMAIN taken}
           /\ \A j \in DOMAIN Scores : Scores[j] = taken[Services[j]].score
           /\ \A j \in DOMAIN Scores : Scores[j].confidence \in 0..Whole(citation)
           /\ \A t \in DOMAIN taken : \E j \in DOMAIN Scores : Services[j] = t
           /\ Whole(citation) \in Nat
<1>1. DOMAIN Services = 1..5 /\ Len(Services) = 5
  BY DEF Services
<1>2. /\ DOMAIN Scores = {j \in 1..5 : Services[j] \in DOMAIN taken}
      /\ \A j \in DOMAIN Scores : Scores[j] = taken[Services[j]].score
  BY <1>1 DEF Scores
<1>3. ASSUME NEW j \in DOMAIN Scores
      PROVE  Scores[j].confidence \in 0..Whole(citation)
  <2>1. Scores[j] \in ScoreOf(Whole(citation))
    BY <1>2, ScoreType DEF Backed
  <2>2. QED
    BY <2>1 DEF ScoreOf
<1>4. \A t \in DOMAIN taken : \E j \in DOMAIN Scores : Services[j] = t
  BY <1>1, <1>2 DEF Backed
<1>5. Whole(citation) \in Nat
  BY WholeType DEF Backed
<1>6. QED
  BY <1>2, <1>3, <1>4, <1>5

\* The representative score is the first of the highest of a service that
\* confirmed.
LEMMA RepresentativeLeads ==
    ASSUME Backed, DOMAIN taken # {}
    PROVE  \E i \in DOMAIN Scores :
               Representative = Scores[i] /\ Leads(Scores, i, DOMAIN Scores)
<1>1. DOMAIN Scores \in SUBSET (0..5) /\ DOMAIN Scores # {}
  BY ScoresAre
<1>2. \E i \in DOMAIN Scores : Leads(Scores, i, DOMAIN Scores)
  BY <1>1, ScoresAre, LeaderExists
<1>3. QED
  BY <1>2 DEF Representative

-----------------------------------------------------------------------------
(* The invariant.                                                          *)
LEMMA InitBacked == Init => Backed
BY DEF Init, Backed, Answered, Services

\* Looking at a result that confirms nothing keeps what was taken.
LEMMA LookingBacked ==
    ASSUME Backed, NEW service, Looking(service), taken' = taken
    PROVE  Backed'
<1>1. /\ next <= 5 /\ next \in 1..6 /\ next' = next + 1
      /\ citation' = citation /\ answer' = answer /\ ~Answered
  BY DEF Looking, Backed, Answered, Services
<1>2. next' \in 1..Len(Services) + 1
  BY <1>1 DEF Services
<1>3. DOMAIN taken' \subseteq {Services[i] : i \in 1..next' - 1}
  BY <1>1 DEF Backed
<1>4. QED
  BY <1>1, <1>2, <1>3 DEF Backed, Answered

LEMMA CandidatesBacked ==
    ASSUME Backed, NEW service, Candidates(service)
    PROVE  Backed'
<1>1. /\ next <= 5 /\ next \in 1..6 /\ next' = next + 1
      /\ citation' = citation /\ answer' = answer /\ ~Answered
      /\ service = Services[next]
  BY DEF Candidates, Looking, Backed, Answered, Services
<1>2. MostCandidates(service) \in Nat
  BY RowsAssumption DEF MostCandidates
<1> DEFINE Picks(n, records, scores) ==
          LET best == Best(scores) IN
          /\ \A i \in 1..n : scores[i] \in ScoreMatch(citation, records[i])
          /\ IF scores[best].quality # "none"
             THEN /\ taken' = [s \in DOMAIN taken \cup {service} |->
                                  IF s = service
                                  THEN [record |-> records[best],
                                        score |-> scores[best]]
                                  ELSE taken[s]]
                  /\ UNCHANGED rejected
             ELSE /\ rejected' = Append(rejected, scores[best])
                  /\ UNCHANGED taken
           Given(n, records) ==
              [1..n -> UNION {ScoreMatch(citation, records[i]) : i \in 1..n}]
<1>3a. PICK n \in 1..MostCandidates(service) :
          \E records \in [1..n -> Record] :
          \E scores \in Given(n, records) : Picks(n, records, scores)
  BY DEF Candidates
<1>3b. PICK records \in [1..n -> Record] :
          \E scores \in Given(n, records) : Picks(n, records, scores)
  BY <1>3a
<1>3. PICK scores \in Given(n, records) : Picks(n, records, scores)
  BY <1>3b
<1> DEFINE best == Best(scores)
<1>4. best \in 1..n
  <2>1. n \in Nat \ {0} /\ DOMAIN scores = 1..n
    BY <1>2, <1>3
  <2>2. citation \in Citation /\ Whole(citation) \in Nat
    BY WholeType DEF Backed
  <2>3. \A i \in 1..n : scores[i].confidence \in 0..Whole(citation)
    <3> SUFFICES ASSUME NEW i \in 1..n
                 PROVE  scores[i].confidence \in 0..Whole(citation)
      OBVIOUS
    <3>1. records[i] \in Record /\ scores[i] \in ScoreMatch(citation, records[i])
      BY <1>3
    <3>2. scores[i] \in ScoreOf(Whole(citation))
      BY <3>1, <2>2, ScoreType
    <3>3. QED
      BY <3>2 DEF ScoreOf
  <2>4. QED
    BY <2>1, <2>2, <2>3, BestIsOne
<1>5. CASE scores[best].quality = "none"
  <2>1. taken' = taken
    BY <1>3, <1>5
  <2>2. QED
    BY <2>1, LookingBacked DEF Candidates
<1>6. CASE scores[best].quality # "none"
  <2>1. taken' = [s \in DOMAIN taken \cup {service} |->
                     IF s = service THEN [record |-> records[best],
                                          score |-> scores[best]]
                     ELSE taken[s]]
    BY <1>3, <1>6
  <2>2. records[best] \in Record
            /\ scores[best] \in ScoreMatch(citation, records[best])
    BY <1>3, <1>4
  <2> HIDE DEF best
  <2>3. ASSUME NEW s \in DOMAIN taken'
        PROVE  /\ taken'[s].record \in Record
               /\ taken'[s].score \in ScoreMatch(citation, taken'[s].record)
               /\ taken'[s].score.quality # "none"
    <3>1. CASE s = service
      BY <3>1, <2>1, <2>2, <1>6
    <3>2. CASE s # service
      BY <3>2, <2>1 DEF Backed
    <3>3. QED
      BY <3>1, <3>2
  <2>4. DOMAIN taken' \subseteq {Services[i] : i \in 1..next' - 1}
    BY SMTT(30), <2>1, <1>1 DEF Backed
  <2>5. next' \in 1..Len(Services) + 1
    BY <1>1 DEF Services
  <2>6. QED
    BY <1>1, <2>3, <2>4, <2>5 DEF Backed, Answered
<1>7. QED
  BY <1>5, <1>6

LEMMA AnswerBacked ==
    ASSUME Backed, AnswerUnverified \/ AnswerVerified
    PROVE  Backed'
<1>1. UNCHANGED <<citation, next, taken>>
  BY DEF AnswerUnverified, AnswerVerified
<1>2. CASE AnswerUnverified
  <2>1. /\ answer'.confirmed = DOMAIN taken /\ ~answer'.verified
        /\ answer'.quality = "none" /\ answer'.confidence = 0
        /\ DOMAIN taken = {}
    BY <1>2 DEF AnswerUnverified, Answer, Score
  <2>2. QED
    BY <1>1, <2>1 DEF Backed, Answered
<1>3. CASE AnswerVerified
  <2>1. /\ answer'.confirmed = DOMAIN taken
        /\ answer'.quality = Representative.quality
        /\ answer'.confidence = Representative.confidence
        /\ answer'.verified = (Representative.quality # "none")
        /\ DOMAIN taken # {}
    BY <1>3 DEF AnswerVerified, Answer
  <2>2. PICK i \in DOMAIN Scores :
            Representative = Scores[i] /\ Leads(Scores, i, DOMAIN Scores)
    BY <2>1, RepresentativeLeads
  <2>3. Representative.quality # "none"
    BY <2>2, ScoresAre DEF Backed
  <2>4. Scores' = Scores
    BY <1>1 DEF Scores
  <2>5. answer'.verified /\ \E k \in DOMAIN Scores' :
            /\ Leads(Scores', k, DOMAIN Scores')
            /\ answer'.quality = Scores'[k].quality
            /\ answer'.confidence = Scores'[k].confidence
    BY <2>1, <2>2, <2>3, <2>4
  <2>6. QED
    BY <1>1, <2>1, <2>5 DEF Backed, Answered
<1>4. QED
  BY <1>2, <1>3

LEMMA NextBacked == Backed /\ [Next]_vars => Backed'
<1> SUFFICES ASSUME Backed, [Next]_vars
             PROVE  Backed'
  OBVIOUS
<1>1. ASSUME NEW service,
             \/ NotAsked(service) \/ LookupFailed(service)
             \/ RateLimited(service) \/ NoCandidates(service)
      PROVE  Backed'
  BY <1>1, LookingBacked
     DEF NotAsked, LookupFailed, RateLimited, NoCandidates
<1>2. CASE UNCHANGED vars
  <2>1. UNCHANGED <<citation, next, taken, answer>> /\ Scores' = Scores
    BY <1>2 DEF vars, Scores
  <2>2. QED
    BY <2>1 DEF Backed, Answered
<1>3. QED
  BY <1>1, <1>2, CandidatesBacked, AnswerBacked DEF Next

\* Every record taken has a score that score_match gives it, and passed; an
\* answer says verified exactly when one was taken, and then has quality and
\* confidence of the first of the best of them.
THEOREM AnswersBacked == Spec => []Backed
BY InitBacked, NextBacked, PTL DEF Spec

\* "high" is earned, for every citation, every record and every measure of
\* likeness: by an identifier, or by title, first author and year together.
THEOREM HighAlwaysEarned == Spec => []HighIsEarned
<1>1. Backed => HighIsEarned
  <2> SUFFICES ASSUME Backed, Answered, answer.quality = "high"
               PROVE  \E s \in answer.confirmed : Earned(taken[s].record)
    BY DEF HighIsEarned
  <2>1. PICK s \in DOMAIN taken : taken[s].score.quality = "high"
    BY ScoresAre DEF Backed
  <2>2. Earned(taken[s].record)
    BY <2>1, HighEarned DEF Backed
  <2>3. QED
    BY <2>2 DEF Backed
<1>2. QED
  BY <1>1, AnswersBacked, PTL

\* Nothing the guards keep out is behind an answer that says verified.
THEOREM VerifiedAlwaysAgrees == Spec => []VerifiedAgrees
<1>1. Backed => VerifiedAgrees
  <2> SUFFICES ASSUME Backed, Answered, NEW s \in answer.confirmed,
                      ~IdentifierMatch(citation, taken[s].record)
               PROVE  Agrees(taken[s].record)
    BY DEF VerifiedAgrees
  <2>1. s \in DOMAIN taken
    BY DEF Backed
  <2>2. QED
    BY <2>1, PassedAgrees DEF Backed
<1>2. QED
  BY <1>1, AnswersBacked, PTL

\* A record without the identifier that has the confidence of a perfect
\* match is "high", unless too few fields are cited or the title is not.
LEMMA PerfectIsHigh ==
    ASSUME NEW c \in Citation, NEW r \in Record, NEW score \in ScoreMatch(c, r),
           ~IdentifierMatch(c, r), score.quality # "none",
           score.confidence = Whole(c)
    PROVE  /\ WeightedScore(c, r) = Whole(c)
           /\ \/ score.quality = "high"
              \/ Populated(c) < 3 \/ ~Has(c, "title")
<1>1. score \in BibliographicScores(c, r)
  BY DEF ScoreMatch
<1>2. RejectedBy(c, r) = None
  BY <1>1 DEF BibliographicScores, Score
<1>3. PICK grade \in Grades(c, r) :
          score = Score(WeightedScore(c, r),
                        IF Capped(c, grade) THEN "medium" ELSE grade,
                        None, Capped(c, grade), FALSE)
  BY <1>1, <1>2 DEF BibliographicScores
<1>4. WeightedScore(c, r) = Whole(c)
  BY <1>3 DEF Score
<1>5. SUFFICES ASSUME Has(c, "title"), ~(Populated(c) < 3)
               PROVE  score.quality = "high"
  BY <1>4
<1>6. /\ Whole(c) \in Nat /\ 20 * Denominator(c) <= Whole(c)
      /\ Denominator(c) \in Nat
  BY WholeType, WeightsAddUp
<1>7. TitleSim(c, r) >= 20
  <2>1. Weights(c).title > 0
    BY <1>5, WeightsAddUp
  <2>2. TitleSim(c, r) < 20 => WeightedScore(c, r) < 20 * Denominator(c)
    BY <2>1, ScoreBound DEF Similarities
  <2>3. TitleSim(c, r) \in 0..20
    BY CitationAssumption, LikenessAssumption DEF TitleSim
  <2>4. QED
    BY <1>4, <1>6, <2>2, <2>3
<1>8. Whole(c) > 0
  BY <1>6 DEF Whole
<1>9. grade = "high"
  <2> DEFINE score20 == 20 * WeightedScore(c, r)
             whole == Whole(c)
  <2>1. ~(score20 <= 18 * whole) /\ ~(score20 <= 15 * whole) /\ ~(score20 <= 12 * whole)
    BY <1>4, <1>6, <1>8
  <2>2. TitleSim(c, r) >= 19
    <3>1. TitleSim(c, r) \in 0..20
      BY CitationAssumption, LikenessAssumption DEF TitleSim
    <3>2. QED
      BY <1>7, <3>1
  <2> HIDE DEF score20, whole
  <2>3. QED
    BY <2>1, <2>2 DEF Grades, score20, whole
<1>10. QED
  BY <1>3, <1>5, <1>9 DEF Score, Capped

\* An identifier that matched is not outweighed, whichever service found it,
\* and the answer is "high" but for a tie with an earlier, perfect record.
THEOREM IdentifierAlwaysCertain == Spec => []IdentifierIsCertain
<1>1. Backed => IdentifierIsCertain
  <2> SUFFICES ASSUME Backed, Answered, NEW i \in DOMAIN Services,
                      Services[i] \in answer.confirmed,
                      IdentifierMatch(citation, taken[Services[i]].record)
               PROVE  /\ answer.confidence = Whole(citation)
                      /\ \/ answer.quality = "high"
                         \/ /\ Populated(citation) < 3 \/ ~Has(citation, "title")
                            /\ \E j \in 1..i - 1 :
                                   /\ Services[j] \in answer.confirmed
                                   /\ Perfect(taken[Services[j]].record)
    BY DEF IdentifierIsCertain
  <2>1. /\ i \in 1..5 /\ Services[i] \in DOMAIN taken
        /\ answer.confirmed = DOMAIN taken /\ citation \in Citation
    BY DEF Backed, Services
  <2>2. PICK j \in DOMAIN Scores :
            /\ Leads(Scores, j, DOMAIN Scores)
            /\ answer.quality = Scores[j].quality
            /\ answer.confidence = Scores[j].confidence
    BY <2>1 DEF Backed
  <2>3. taken[Services[i]].score = Score(Whole(citation), "high", None, FALSE, TRUE)
    BY <2>1 DEF Backed, ScoreMatch
  <2>4. /\ i \in DOMAIN Scores /\ Scores[i].confidence = Whole(citation)
        /\ Scores[i].quality = "high"
    BY <2>1, <2>3, ScoresAre DEF Score
  <2>5. Scores[j].confidence \in 0..Whole(citation) /\ Whole(citation) \in Nat
    BY ScoresAre
  <2>6. Scores[j].confidence = Whole(citation) /\ j <= i
    BY <2>2, <2>4, <2>5 DEF Leads
  <2>7. SUFFICES ASSUME answer.quality # "high"
                 PROVE  /\ Populated(citation) < 3 \/ ~Has(citation, "title")
                        /\ j \in 1..i - 1 /\ Services[j] \in answer.confirmed
                        /\ Perfect(taken[Services[j]].record)
    BY <2>2, <2>6
  <2>8. /\ j \in 1..5 /\ Services[j] \in DOMAIN taken
        /\ Scores[j] = taken[Services[j]].score
    BY ScoresAre
  <2>9. j # i
    BY <2>2, <2>4, <2>7
  <2> DEFINE record == taken[Services[j]].record
             score == taken[Services[j]].score
  <2>10. /\ record \in Record /\ score \in ScoreMatch(citation, record)
         /\ score.quality # "none" /\ score.quality # "high"
         /\ score.confidence = Whole(citation)
    BY <2>2, <2>6, <2>7, <2>8 DEF Backed
  <2> HIDE DEF record, score
  <2>11. ~IdentifierMatch(citation, record)
    BY <2>10 DEF ScoreMatch, Score
  <2>12. /\ WeightedScore(citation, record) = Whole(citation)
         /\ Populated(citation) < 3 \/ ~Has(citation, "title")
    BY <2>1, <2>10, <2>11, PerfectIsHigh
  <2>13. Perfect(taken[Services[j]].record)
    BY <2>11, <2>12 DEF Perfect, record
  <2>14. QED
    BY <2>1, <2>6, <2>8, <2>9, <2>12, <2>13
<1>2. QED
  BY <1>1, AnswersBacked, PTL

-----------------------------------------------------------------------------
(* Names.                                                                  *)

\* The first and the last of some positions.
LEMMA FirstLast ==
    ASSUME NEW bound \in Nat, NEW S \in SUBSET (1..bound), S # {}
    PROVE  /\ First(S) \in S /\ \A j \in S : First(S) <= j
           /\ Last(S) \in S /\ \A j \in S : Last(S) >= j
<1>1. \E i \in S : \A j \in S : i <= j
  <2>1. S \in SUBSET (0..bound)
    OBVIOUS
  <2>2. QED
    BY <2>1, SmallestExists
<1>2. \E i \in S : \A j \in S : i >= j
  <2> DEFINE T == {bound - i : i \in S}
  <2>0. ASSUME NEW i \in S
        PROVE  bound - i \in 0..bound
    OBVIOUS
  <2>1. T \in SUBSET (0..bound) /\ T # {}
    BY <2>0
  <2>2. PICK m \in T : \A n \in T : m <= n
    <3> HIDE DEF T
    <3>1. QED
      BY <2>1, SmallestExists
  <2>3. PICK i \in S : m = bound - i
    BY <2>2
  <2>4. ASSUME NEW j \in S
        PROVE  i >= j
    <3>1. bound - i <= bound - j
      BY <2>2, <2>3
    <3>2. QED
      BY <3>1
  <2>5. QED
    BY <2>4
<1>3. QED
  BY <1>1, <1>2 DEF First, Last

LEMMA NameIs ==
    ASSUME NEW name \in Seq(Token)
    PROVE  /\ Len(name) \in Nat /\ DOMAIN name = 1..Len(name)
           /\ \A i \in 1..Len(name) :
                  name[i] \in Token /\ name[i].comma \in BOOLEAN
                      /\ name[i].initial \in BOOLEAN
<1>1. Len(name) \in Nat /\ DOMAIN name = 1..Len(name)
  BY LenProperties
<1>2. \A i \in 1..Len(name) : name[i] \in Token
  BY ElementOfSeq
<1>3. QED
  BY <1>1, <1>2 DEF Token

\* A part of a name.
LEMMA PartOf ==
    ASSUME NEW name \in Seq(Token), NEW i \in 1..Len(name) + 1,
           NEW j \in i - 1..Len(name)
    PROVE  /\ SubSeq(name, i, j) \in Seq(Token)
           /\ Len(SubSeq(name, i, j)) = j - i + 1
           /\ \A k \in 1..j - i + 1 : SubSeq(name, i, j)[k] = name[i + k - 1]
<1>1. Len(name) \in Nat /\ \A k \in i..j : name[k] \in Token
  BY NameIs
<1>2. i \in Int /\ j \in Int
  BY <1>1
<1>3. /\ SubSeq(name, i, j) \in Seq(Token)
      /\ Len(SubSeq(name, i, j)) = IF i <= j THEN j - i + 1 ELSE 0
      /\ \A k \in 1..j - i + 1 : SubSeq(name, i, j)[k] = name[i + k - 1]
  BY <1>1, <1>2, SubSeqProperties
<1>4. QED
  BY <1>1, <1>3

\* What the words of two names have to be for the names to be compared equal.
LEMMA SameWords ==
    ASSUME NEW one \in Seq(Token), NEW other \in Seq(Token),
           Len(one) = Len(other),
           \A i \in 1..Len(one) : one[i].word = other[i].word
    PROVE  [i \in DOMAIN one |-> one[i].word]
               = [i \in DOMAIN other |-> other[i].word]
<1>1. DOMAIN one = 1..Len(one) /\ DOMAIN other = 1..Len(one)
  BY NameIs
<1>2. QED
  BY <1>1

\* The branches of parse_author_string.
LEMMA CommaSurname ==
    ASSUME NEW name \in Seq(Token), NEW k \in 1..Len(name), name[k].comma,
           \A i \in 1..k - 1 : ~name[i].comma
    PROVE  SurnameSpan(name) = <<1, k>>
<1> DEFINE commas == {i \in DOMAIN name : name[i].comma}
<1>1. commas \in SUBSET (1..Len(name)) /\ k \in commas /\ Len(name) \in Nat
  BY NameIs
<1>2. First(commas) \in commas /\ \A j \in commas : First(commas) <= j
  <2> HIDE DEF commas
  <2>1. QED
    BY <1>1, FirstLast
<1>3. First(commas) = k
  <2>1. First(commas) \in 1..Len(name) /\ name[First(commas)].comma
    BY <1>1, <1>2
  <2>2. First(commas) <= k
    BY <1>1, <1>2
  <2>3. QED
    BY <1>1, <2>1, <2>2
<1>4. commas # {}
  BY <1>1
<1>5. QED
  BY <1>3, <1>4 DEF SurnameSpan

LEMMA OtherSurnames ==
    ASSUME NEW name \in Seq(Token), \A i \in 1..Len(name) : ~name[i].comma
    PROVE  /\ Len(name) <= 1 => SurnameSpan(name) = <<1, Len(name)>>
           /\ Len(name) > 1 /\ (\A i \in 1..Len(name) : name[i].initial) =>
                  SurnameSpan(name) = <<1, 0>>
           /\ Len(name) > 1 /\ ~name[Len(name)].initial =>
                  SurnameSpan(name) = <<Len(name), Len(name)>>
           /\ \A k \in 1..Len(name) - 1 :
                  ~name[k].initial
                      /\ (\A i \in k + 1..Len(name) : name[i].initial) =>
                          SurnameSpan(name) = <<1, k>>
<1> DEFINE commas == {i \in DOMAIN name : name[i].comma}
           words == {i \in DOMAIN name : ~name[i].initial}
<1>1. commas = {} /\ Len(name) \in Nat /\ words \in SUBSET (1..Len(name))
  BY NameIs
<1>2. Len(name) <= 1 => SurnameSpan(name) = <<1, Len(name)>>
  BY <1>1 DEF SurnameSpan
<1>3. Len(name) > 1 /\ words = {} => SurnameSpan(name) = <<1, 0>>
  BY <1>1 DEF SurnameSpan
<1>4. Len(name) > 1 /\ words # {} =>
          SurnameSpan(name) = IF Len(name) \in words THEN <<Len(name), Len(name)>>
                              ELSE <<1, Last(words)>>
  BY <1>1 DEF SurnameSpan
<1>5. Len(name) > 1 /\ (\A i \in 1..Len(name) : name[i].initial) => words = {}
  BY NameIs
<1>6. Len(name) > 1 /\ ~name[Len(name)].initial => Len(name) \in words
  BY <1>1, NameIs
<1>7. ASSUME NEW k \in 1..Len(name) - 1, ~name[k].initial,
             \A i \in k + 1..Len(name) : name[i].initial
      PROVE  SurnameSpan(name) = <<1, k>>
  <2>1. k \in words /\ Len(name) \notin words /\ \A i \in words : i <= k
    BY <1>1, <1>7, NameIs
  <2>2. Last(words) \in words /\ \A j \in words : Last(words) >= j
    <3> HIDE DEF words
    <3>1. QED
      BY <1>1, <2>1, FirstLast
  <2>3. Last(words) = k
    <3>1. Last(words) \in 1..Len(name) /\ Last(words) >= k /\ Last(words) <= k
      BY <1>1, <2>1, <2>2
    <3>2. QED
      BY <3>1
  <2>4. QED
    BY <1>1, <1>4, <1>7, <2>1, <2>3
<1>8. QED
  BY <1>2, <1>3, <1>4, <1>5, <1>6, <1>7

LEMMA SpanWords ==
    ASSUME NEW name \in Seq(Token), NEW i \in 1..Len(name) + 1,
           NEW j \in i - 1..Len(name), SurnameSpan(name) = <<i, j>>
    PROVE  /\ Surname(name) \in Seq(Token)
           /\ Len(Surname(name)) = j - i + 1
           /\ \A k \in 1..j - i + 1 : Surname(name)[k] = name[i + k - 1]
BY PartOf DEF Surname

\* A family name with a comma at its end, and a given name after it.
WithComma(family) == [family EXCEPT ![Len(family)].comma = TRUE]
Comma(token) == [token EXCEPT !.comma = TRUE]

LEMMA CommaAdded ==
    ASSUME NEW family \in Seq(Token), family # <<>>
    PROVE  /\ Len(family) \in Nat \ {0}
           /\ WithComma(family) \in Seq(Token)
           /\ Len(WithComma(family)) = Len(family)
           /\ \A i \in 1..Len(family) : WithComma(family)[i] =
                  IF i = Len(family) THEN Comma(family[i]) ELSE family[i]
<1> DEFINE n == Len(family)
           last == Comma(family[n])
<1>1. n \in Nat \ {0} /\ n \in 1..n
  BY EmptySeq, LenProperties
<1>2. last \in Token
  <2>1. family[n] \in Token
    BY <1>1, NameIs
  <2>2. QED
    BY <2>1 DEF Token, Comma
<1>3. WithComma(family) = [family EXCEPT ![n] = last]
  BY DEF WithComma, Comma
<1> HIDE DEF last
<1>4. /\ [family EXCEPT ![n] = last] \in Seq(Token)
      /\ Len([family EXCEPT ![n] = last]) = n
      /\ \A i \in 1..n : [family EXCEPT ![n] = last][i] =
             IF i = n THEN last ELSE family[i]
  BY <1>1, <1>2, ExceptSeq
<1>5. QED
  BY <1>1, <1>3, <1>4 DEF last

LEMMA CommaIs ==
    ASSUME NEW token \in Token
    PROVE  Comma(token) \in Token /\ Comma(token).comma
               /\ Comma(token).word = token.word
BY DEF Comma, Token

LEMMA Joined ==
    ASSUME NEW one \in Seq(Token), NEW other \in Seq(Token)
    PROVE  /\ one \o other \in Seq(Token)
           /\ Len(one \o other) = Len(one) + Len(other)
           /\ Len(one) \in Nat /\ Len(other) \in Nat
           /\ \A i \in 1..Len(one) : (one \o other)[i] = one[i]
           /\ \A i \in 1..Len(other) : (one \o other)[Len(one) + i] = other[i]
<1>1. Len(one) \in Nat /\ Len(other) \in Nat
  BY LenProperties
<1>2. /\ one \o other \in Seq(Token)
      /\ Len(one \o other) = Len(one) + Len(other)
      /\ \A i \in 1..Len(one) + Len(other) : (one \o other)[i] =
             IF i <= Len(one) THEN one[i] ELSE other[i - Len(one)]
  BY ConcatProperties
<1>3. ASSUME NEW i \in 1..Len(one)
      PROVE  (one \o other)[i] = one[i]
  <2>1. i \in 1..Len(one) + Len(other) /\ i <= Len(one)
    BY <1>1
  <2>2. QED
    BY <1>2, <2>1
<1>4. ASSUME NEW i \in 1..Len(other)
      PROVE  (one \o other)[Len(one) + i] = other[i]
  <2>1. /\ Len(one) + i \in 1..Len(one) + Len(other)
        /\ ~(Len(one) + i <= Len(one)) /\ Len(one) + i - Len(one) = i
    BY <1>1
  <2>2. (one \o other)[Len(one) + i] = other[Len(one) + i - Len(one)]
    BY <1>2, <2>1
  <2>3. QED
    BY <2>1, <2>2
<1>5. QED
  BY <1>1, <1>2, <1>3, <1>4

\* _author_to_string of a dict with both names.
LEMMA DictIs ==
    ASSUME NEW author \in Author, author.kind = "dict", author.family # <<>>,
           author.given # <<>>
    PROVE  LET full == AuthorToString(author)
               n == Len(author.family)
           IN  /\ author.family \in Seq(Token) /\ author.given \in Seq(Token)
               /\ n \in Nat \ {0} /\ full \in Seq(Token)
               /\ Len(full) = n + Len(author.given) /\ Len(author.given) \in Nat
               /\ full[n].comma /\ full[n].word = author.family[n].word
               /\ \A i \in 1..n - 1 : full[i] = author.family[i]
<1> DEFINE full == AuthorToString(author)
           n == Len(author.family)
           closed == WithComma(author.family)
<1>1. author.family \in Seq(Token) /\ author.given \in Seq(Token)
  BY DEF Author
<1>2. full = closed \o author.given
  BY DEF AuthorToString, WithComma
<1>3. /\ n \in Nat \ {0} /\ closed \in Seq(Token) /\ Len(closed) = n
      /\ \A i \in 1..n : closed[i] =
             IF i = n THEN Comma(author.family[i]) ELSE author.family[i]
  BY <1>1, CommaAdded
<1> HIDE DEF full, n, closed
<1>4. /\ full \in Seq(Token) /\ Len(full) = n + Len(author.given)
      /\ Len(author.given) \in Nat
      /\ \A i \in 1..n : full[i] = closed[i]
  BY <1>1, <1>2, <1>3, Joined
<1>5. n \in 1..n /\ \A i \in 1..n - 1 : i \in 1..n /\ i # n
  BY <1>3
<1>6. full[n] = Comma(author.family[n]) /\ \A i \in 1..n - 1 : full[i] = author.family[i]
  BY <1>3, <1>4, <1>5
<1>7. author.family[n] \in Token
  BY <1>1, <1>5, NameIs DEF n
<1>8. QED
  BY <1>1, <1>3, <1>4, <1>6, <1>7, CommaIs DEF full, n

\* A name with its family name before the comma.
LEMMA DictSurname ==
    ASSUME NEW author \in Author, author.kind = "dict", author.family # <<>>,
           author.given # <<>>
    PROVE  \E k \in 1..Len(author.family) :
               LET full == AuthorToString(author)
               IN  /\ full \in Seq(Token)
                   /\ Surname(full) \in Seq(Token)
                   /\ Len(Surname(full)) = k
                   /\ \A i \in 1..k : Surname(full)[i].word = author.family[i].word
                   /\ \A i \in 1..k - 1 : ~author.family[i].comma
                   /\ k = Len(author.family) \/ author.family[k].comma
<1> DEFINE full == AuthorToString(author)
           n == Len(author.family)
           commas == {i \in DOMAIN full : full[i].comma}
<1>3. /\ author.family \in Seq(Token) /\ author.given \in Seq(Token)
      /\ n \in Nat \ {0} /\ full \in Seq(Token)
      /\ Len(full) = n + Len(author.given) /\ Len(author.given) \in Nat
      /\ full[n].comma /\ full[n].word = author.family[n].word
      /\ \A i \in 1..n - 1 : full[i] = author.family[i]
  BY DictIs
<1> HIDE DEF full, n
<1>4. commas \in SUBSET (1..Len(full)) /\ n \in commas /\ Len(full) \in Nat
  <2>1. DOMAIN full = 1..Len(full) /\ n \in 1..Len(full) /\ Len(full) \in Nat
    BY <1>3, NameIs
  <2>2. QED
    BY <1>3, <2>1
<1> DEFINE k == First(commas)
<1>5. k \in commas /\ \A j \in commas : k <= j
  <2> HIDE DEF commas
  <2>1. QED
    BY <1>4, FirstLast
<1>6. k \in 1..Len(full) /\ full[k].comma /\ k <= n
  BY <1>4, <1>5
<1>7. \A i \in 1..k - 1 : ~full[i].comma
  <2> SUFFICES ASSUME NEW i \in 1..k - 1, full[i].comma
               PROVE  FALSE
    OBVIOUS
  <2> HIDE DEF k
  <2>1. i \in DOMAIN full /\ i < k
    BY <1>3, <1>4, <1>6, NameIs
  <2>2. QED
    BY <1>5, <1>6, <2>1
<1> HIDE DEF commas, k
<1>8. SurnameSpan(full) = <<1, k>>
  BY <1>3, <1>6, <1>7, CommaSurname
<1>9. /\ Surname(full) \in Seq(Token) /\ Len(Surname(full)) = k
      /\ \A i \in 1..k : Surname(full)[i] = full[i]
  <2>1. 1 \in 1..Len(full) + 1 /\ k \in 1 - 1..Len(full) /\ k - 1 + 1 = k
    BY <1>4, <1>6
  <2>2. /\ Surname(full) \in Seq(Token) /\ Len(Surname(full)) = k - 1 + 1
        /\ \A i \in 1..k - 1 + 1 : Surname(full)[i] = full[1 + i - 1]
    BY <1>3, <1>8, <2>1, SpanWords
  <2>3. \A i \in 1..k : 1 + i - 1 = i
    BY <2>1
  <2>4. QED
    BY <2>1, <2>2, <2>3
<1>10. k \in 1..n
  BY <1>3, <1>4, <1>6
<1>11. ASSUME NEW i \in 1..k
       PROVE  full[i].word = author.family[i].word
  BY <1>3, <1>10
<1>12. \A i \in 1..k - 1 : ~author.family[i].comma
  BY <1>3, <1>7, <1>10
<1>13. k = n \/ author.family[k].comma
  BY <1>3, <1>6, <1>10
<1>14. QED
  BY <1>3, <1>9, <1>10, <1>11, <1>12, <1>13 DEF full, n

\* The forms of an author's name have the surname that the name has.
LEMMA FormSurname ==
    ASSUME NEW author \in Author, author.kind = "dict",
           NEW form \in Forms(author)
    PROVE  /\ form \in Author
           /\ NormalizedSurname(form) = NormalizedSurname(author)
           /\ NormalizedSurname(form) # <<>>
<1> DEFINE family == author.family
           given == author.given
           n == Len(family)
           own == AuthorToString(author)
           nlm == Append(family, [word |-> "initials", initial |-> TRUE, comma |-> FALSE])
           western == given \o family
<1>1. n # 0 /\ given # <<>> /\ ~family[n].initial
  BY DEF Forms
<1>2. family # <<>>
  BY <1>1
<1>3. PICK k \in 1..n :
          /\ own \in Seq(Token) /\ Surname(own) \in Seq(Token)
          /\ Len(Surname(own)) = k
          /\ \A i \in 1..k : Surname(own)[i].word = family[i].word
          /\ \A i \in 1..k - 1 : ~family[i].comma
          /\ k = n \/ family[k].comma
  BY <1>1, <1>2, DictSurname
<1>4. family \in Seq(Token) /\ given \in Seq(Token) /\ n \in Nat \ {0}
          /\ Len(given) \in Nat
  BY <1>1, <1>2, DictIs
<1>5. NormalizedSurname(author) = [i \in DOMAIN Surname(own) |-> Surname(own)[i].word]
  BY DEF NormalizedSurname
<1>6. NormalizedSurname(author) # <<>>
  <2>1. DOMAIN Surname(own) = 1..k /\ 1 \in 1..k
    BY <1>3, <1>4, NameIs
  <2>2. QED
    BY <1>5, <2>1
<1>7. form.kind = "string" /\ form = [kind |-> "string", tokens |-> form.tokens]
          /\ \/ form.tokens = own
             \/ form.tokens = nlm
             \/ form.tokens = western /\ n = 1 /\ \A i \in DOMAIN western : ~western[i].comma
  <2> DEFINE string(tokens) == [kind |-> "string", tokens |-> tokens]
             whole == n = 1 /\ \A i \in DOMAIN western : ~western[i].comma
  <2>1. form \in {string(own), string(nlm)} \cup (IF whole THEN {string(western)} ELSE {})
    BY <1>1, <1>2 DEF Forms, AuthorToString
  <2> HIDE DEF own, nlm, western, whole
  <2>2. \/ form = string(own)
        \/ form = string(nlm)
        \/ form = string(western) /\ whole
    BY <2>1
  <2>3. QED
    BY <2>2 DEF whole
<1>7a. form.tokens \in Seq(Token) => form \in Author
  BY <1>7 DEF Author
<1>8. AuthorToString(form) = form.tokens
  BY <1>7 DEF AuthorToString
<1>9. NormalizedSurname(form)
          = [i \in DOMAIN Surname(form.tokens) |-> Surname(form.tokens)[i].word]
  BY <1>8 DEF NormalizedSurname
<1> HIDE DEF own, nlm, western, n, family, given
<1>10. CASE form.tokens = own
  BY <1>3, <1>5, <1>6, <1>7a, <1>9, <1>10
<1>11. CASE form.tokens = nlm
  <2>1. /\ nlm \in Seq(Token) /\ Len(nlm) = n + 1
        /\ nlm[n + 1].initial /\ ~nlm[n + 1].comma
        /\ \A i \in 1..n : nlm[i] = family[i]
    <3> DEFINE last == [word |-> "initials", initial |-> TRUE, comma |-> FALSE]
    <3>1. last \in Token /\ last.initial /\ ~last.comma
      BY WordsAssumption DEF Token
    <3>2. nlm = Append(family, last)
      BY DEF nlm
    <3> HIDE DEF last
    <3>3. QED
      BY <1>4, <3>1, <3>2, AppendProperties DEF n
  <2>2. SurnameSpan(nlm) = <<1, k>>
    <3>1. CASE family[k].comma
      <4>1. k \in 1..Len(nlm) /\ k \in 1..n /\ \A i \in 1..k - 1 : i \in 1..n
        BY <1>3, <1>4, <2>1
      <4>1a. nlm[k].comma /\ \A i \in 1..k - 1 : ~nlm[i].comma
        BY <1>3, <2>1, <3>1, <4>1
      <4>2. QED
        BY <2>1, <4>1, <4>1a, CommaSurname
    <3>2. CASE ~family[k].comma
      <4>1. k = n /\ \A i \in 1..n + 1 : i = n + 1 \/ i = k \/ i \in 1..k - 1
        BY <1>3, <1>4, <3>2
      <4>2. \A i \in 1..Len(nlm) : ~nlm[i].comma
        BY <1>3, <1>4, <2>1, <3>2, <4>1
      <4>3. k \in 1..Len(nlm) - 1 /\ ~nlm[k].initial
        BY <1>1, <1>3, <1>4, <2>1, <4>1 DEF n, family
      <4>4. \A i \in k + 1..Len(nlm) : nlm[i].initial
        <5>1. \A i \in k + 1..Len(nlm) : i = n + 1
          BY <1>4, <2>1, <4>1
        <5>2. QED
          BY <2>1, <5>1
      <4>5. QED
        BY <2>1, <4>2, <4>3, <4>4, OtherSurnames
    <3>3. QED
      BY <3>1, <3>2
  <2>3. /\ Surname(nlm) \in Seq(Token) /\ Len(Surname(nlm)) = k
        /\ \A i \in 1..k : Surname(nlm)[i] = nlm[i]
    <3>1. 1 \in 1..Len(nlm) + 1 /\ k \in 1 - 1..Len(nlm) /\ k - 1 + 1 = k
      BY <1>3, <1>4, <2>1
    <3>2. /\ Surname(nlm) \in Seq(Token) /\ Len(Surname(nlm)) = k - 1 + 1
          /\ \A i \in 1..k - 1 + 1 : Surname(nlm)[i] = nlm[1 + i - 1]
      BY <2>1, <2>2, <3>1, SpanWords
    <3>3. \A i \in 1..k : 1 + i - 1 = i
      OBVIOUS
    <3>4. QED
      BY <3>1, <3>2, <3>3
  <2>4. ASSUME NEW i \in 1..k
        PROVE  Surname(nlm)[i].word = Surname(own)[i].word
    <3>1. i \in 1..n
      BY <1>4
    <3>2. QED
      BY <1>3, <2>1, <2>3, <3>1
  <2>5. QED
    BY <1>3, <1>5, <1>6, <1>7a, <1>9, <1>11, <2>1, <2>3, <2>4, SameWords
<1>12. CASE form.tokens = western /\ n = 1 /\ \A i \in DOMAIN western : ~western[i].comma
  <2> DEFINE m == Len(given)
  <2>1. /\ western \in Seq(Token) /\ Len(western) = m + 1 /\ m \in Nat \ {0}
        /\ western[m + 1] = family[1]
    <3>1. m # 0
      BY <1>1, <1>4, EmptySeq DEF given
    <3>2. /\ given \o family \in Seq(Token)
          /\ Len(given \o family) = m + n
          /\ \A i \in 1..n : (given \o family)[m + i] = family[i]
      BY <1>4, Joined DEF n
    <3>3. QED
      BY <1>4, <1>12, <3>1, <3>2 DEF western
  <2> HIDE DEF m
  <2>2. DOMAIN western = 1..m + 1 /\ \A i \in 1..Len(western) : ~western[i].comma
    BY <1>12, <2>1, NameIs
  <2>3. ~western[m + 1].initial /\ Len(western) > 1
    BY <1>1, <1>12, <2>1 DEF n, family
  <2>4. SurnameSpan(western) = <<m + 1, m + 1>>
    BY <2>1, <2>2, <2>3, OtherSurnames
  <2>5. /\ Surname(western) \in Seq(Token) /\ Len(Surname(western)) = 1
        /\ Surname(western)[1] = family[1]
    <3>1. /\ m + 1 \in 1..Len(western) + 1 /\ m + 1 \in m + 1 - 1..Len(western)
          /\ m + 1 - (m + 1) + 1 = 1 /\ m + 1 + 1 - 1 = m + 1
      BY <2>1
    <3>2. /\ Surname(western) \in Seq(Token)
          /\ Len(Surname(western)) = m + 1 - (m + 1) + 1
          /\ \A i \in 1..m + 1 - (m + 1) + 1 :
                 Surname(western)[i] = western[m + 1 + i - 1]
      BY <2>1, <2>4, <3>1, SpanWords
    <3>3. QED
      BY <2>1, <3>1, <3>2
  <2>6. k = 1 /\ \A i \in 1..1 : Surname(western)[i].word = Surname(own)[i].word
    BY <1>3, <1>12, <2>5
  <2>7. QED
    BY <1>3, <1>5, <1>6, <1>7a, <1>9, <1>12, <2>1, <2>5, <2>6, SameWords
<1>13. QED
  BY <1>7, <1>10, <1>11, <1>12

-----------------------------------------------------------------------------
(* Citing the first author of a record by name.                            *)

\* More of one similarity, and as much of the others, is not a lower score.
LEMMA MoreOfOne ==
    ASSUME NEW c \in Citation, NEW d, NEW r \in Record,
           Weights(d) = Weights(c),
           LET s == Similarities(c, r)
               t == Similarities(d, r)
           IN  /\ t.first_author = 20 /\ t.title = s.title /\ t.year = s.year
               /\ t.journal = s.journal /\ t.other_authors = s.other_authors
    PROVE  /\ WeightedScore(d, r) \in Nat
           /\ WeightedScore(d, r) >= WeightedScore(c, r)
<1> DEFINE w == Weights(c)
           s == Similarities(c, r)
           t == Similarities(d, r)
<1>1. w \in [Components -> Nat] /\ s \in [Components -> 0..20]
  BY WeightsAddUp, SimilaritiesInRange
<1>2. w.first_author \in Nat /\ s.first_author \in 0..20
  BY <1>1 DEF Components
<1>3. WeightedScore(c, r) \in Nat
  BY ScoreBound
<1> DEFINE rest == w.title * s.title + w.year * s.year + w.journal * s.journal
                       + w.other_authors * s.other_authors
<1>4. \A k \in Components : w[k] * s[k] \in Nat
  <2> HIDE DEF w, s
  <2>1. \A k \in Components : w[k] \in Nat /\ s[k] \in 0..20
    BY <1>1
  <2>2. QED
    BY <2>1, Product
<1>5. rest \in Nat
  <2> HIDE DEF w, s
  <2>1. /\ w.title * s.title \in Nat /\ w.year * s.year \in Nat
        /\ w.journal * s.journal \in Nat
        /\ w.other_authors * s.other_authors \in Nat
    BY <1>4 DEF Components
  <2>2. QED
    BY <2>1
<1>6. w.first_author * s.first_author \in Nat
          /\ w.first_author * s.first_author <= w.first_author * 20
          /\ w.first_author * 20 \in Nat
  <2> HIDE DEF w, s
  <2>1. w.first_author * s.first_author \in Nat
            /\ w.first_author * s.first_author <= 20 * w.first_author
    BY <1>2, Product
  <2>2. QED
    BY <1>2, <2>1
<1>7. WeightedScore(c, r) = rest + w.first_author * s.first_author
  <2>1. WeightedScore(c, r) = w.title * s.title + w.first_author * s.first_author
            + w.year * s.year + w.journal * s.journal
            + w.other_authors * s.other_authors
    BY DEF WeightedScore
  <2> DEFINE p(k) == w[k] * s[k]
  <2> HIDE DEF w, s
  <2>2. /\ p("title") \in Nat /\ p("first_author") \in Nat /\ p("year") \in Nat
        /\ p("journal") \in Nat /\ p("other_authors") \in Nat
    BY <1>4 DEF Components
  <2>3. /\ WeightedScore(c, r) = p("title") + p("first_author") + p("year")
               + p("journal") + p("other_authors")
        /\ rest = p("title") + p("year") + p("journal") + p("other_authors")
        /\ w.first_author * s.first_author = p("first_author")
    BY <2>1
  <2> HIDE DEF p, rest
  <2>4. QED
    BY <2>2, <2>3
<1>8. WeightedScore(d, r) = rest + w.first_author * 20
  <2>1. WeightedScore(d, r) = w.title * s.title + w.first_author * 20
            + w.year * s.year + w.journal * s.journal
            + w.other_authors * s.other_authors
    BY DEF WeightedScore
  <2> DEFINE p(k) == w[k] * s[k]
             full == w.first_author * 20
  <2> HIDE DEF w, s
  <2>2. /\ p("title") \in Nat /\ full \in Nat /\ p("year") \in Nat
        /\ p("journal") \in Nat /\ p("other_authors") \in Nat
    BY <1>4, <1>6 DEF Components
  <2>3. /\ WeightedScore(d, r) = p("title") + full + p("year")
               + p("journal") + p("other_authors")
        /\ rest = p("title") + p("year") + p("journal") + p("other_authors")
    BY <2>1
  <2> HIDE DEF p, rest, full
  <2>4. WeightedScore(d, r) = rest + full
    BY <2>2, <2>3
  <2>5. QED
    BY <2>4 DEF full
<1> HIDE DEF w, s, t, rest
<1>9. QED
  BY <1>3, <1>5, <1>6, <1>7, <1>8

\* A citation with another first author is like the citation in all else.
Named(c, form) == [c EXCEPT !.authors[1] = form]

LEMMA NamedIsLike ==
    ASSUME NEW c \in Citation, Has(c, "authors"), NEW form \in Author
    PROVE  LET d == Named(c, form)
           IN  /\ \A k : k # "authors" => Get(d, k) = Get(c, k) /\ (Has(d, k) <=> Has(c, k))
               /\ \A k \in DOMAIN c : k # "authors" => d[k] = c[k]
               /\ DOMAIN d = DOMAIN c
               /\ Has(d, "authors")
               /\ Len(d.authors) = Len(c.authors) /\ d.authors[1] = form
               /\ \A i \in 2..Len(c.authors) : d.authors[i] = c.authors[i]
<1> DEFINE d == Named(c, form)
<1>1. "authors" \in DOMAIN c /\ c.authors \in Seq(Author) /\ c.authors # <<>>
  BY AuthorAssumption DEF Has, Get
<1>2. Len(c.authors) \in Nat /\ DOMAIN c.authors = 1..Len(c.authors)
          /\ Len(c.authors) # 0 /\ c.authors = [i \in 1..Len(c.authors) |-> c.authors[i]]
  BY <1>1, LenProperties, EmptySeq
<1>3. DOMAIN d = DOMAIN c /\ \A k \in DOMAIN c : k # "authors" => d[k] = c[k]
  BY DEF Named
<1>4. d.authors = [c.authors EXCEPT ![1] = form]
  BY <1>1 DEF Named
<1>5. /\ d.authors = [i \in 1..Len(c.authors) |-> IF i = 1 THEN form ELSE c.authors[i]]
      /\ d.authors[1] = form
      /\ \A i \in 2..Len(c.authors) : d.authors[i] = c.authors[i]
  BY <1>2, <1>4
<1>6. Len(d.authors) = Len(c.authors)
  BY <1>2, <1>5
<1>7. d.authors # None
  <2>1. d.authors \in Seq(Author)
    BY <1>1, <1>2, <1>4, ExceptSeq
  <2>2. QED
    BY <2>1, NoneAssumption
<1>8. QED
  BY <1>1, <1>3, <1>5, <1>6, <1>7 DEF Has, Get

LEMMA NamedScore ==
    ASSUME NEW c \in Citation, NEW r \in Record, Has(c, "authors"), Has(r, "authors"),
           r.authors[1].kind = "dict", NEW form \in Forms(r.authors[1]),
           NEW score \in ScoreMatch(c, r), score.quality # "none",
           NEW named \in ScoreMatch(Named(c, form), r)
    PROVE  named.rejected = None /\ named.confidence >= score.confidence
<1> DEFINE d == Named(c, form)
<1>1. r.authors[1] \in Author /\ r.authors \in Seq(Author) /\ r.authors # <<>>
  <2>1. r.authors \in Seq(Author) /\ r.authors # <<>>
    BY AuthorAssumption
  <2>2. 1 \in 1..Len(r.authors)
    BY <2>1, EmptySeq, LenProperties
  <2>3. QED
    BY <2>1, <2>2, ElementOfSeq
<1>2. /\ form \in Author
      /\ NormalizedSurname(form) = NormalizedSurname(r.authors[1])
      /\ NormalizedSurname(form) # <<>>
  BY <1>1, FormSurname
<1>3. /\ \A k : k # "authors" => Get(d, k) = Get(c, k) /\ (Has(d, k) <=> Has(c, k))
      /\ \A k \in DOMAIN c : k # "authors" => d[k] = c[k]
      /\ DOMAIN d = DOMAIN c
      /\ Has(d, "authors")
      /\ Len(d.authors) = Len(c.authors) /\ d.authors[1] = form
      /\ \A i \in 2..Len(c.authors) : d.authors[i] = c.authors[i]
  BY <1>2, NamedIsLike
<1>4. \A k : k # "authors" /\ Has(c, k) => d[k] = c[k]
  BY <1>3 DEF Has, Get
<1> HIDE DEF d
<1>5. FirstAuthorMatch(d, r) = 20
  BY <1>2, <1>3 DEF FirstAuthorMatch
<1>6. TitleSim(d, r) = TitleSim(c, r)
  BY <1>3, <1>4 DEF TitleSim
<1>7. YearScore(d, r) = YearScore(c, r)
  BY <1>3, <1>4 DEF YearScore
<1>8. JournalMatch(d, r) = JournalMatch(c, r)
  BY <1>3, <1>4 DEF JournalMatch
<1>9. OtherAuthorsMatch(d, r) = OtherAuthorsMatch(c, r)
  <2>1. \A i \in 2..Len(c.authors) :
            NormalizedSurname(d.authors[i]) = NormalizedSurname(c.authors[i])
    BY <1>3
  <2> DEFINE cited(e) == {i \in 2..Len(e.authors) : NormalizedSurname(e.authors[i]) # <<>>}
             hits(e) == {i \in cited(e) : \E j \in DOMAIN r.authors :
                            NormalizedSurname(r.authors[j]) = NormalizedSurname(e.authors[i])}
  <2>2. cited(d) = cited(c)
    BY <1>3, <2>1
  <2>3. hits(d) = hits(c)
    BY <2>1, <2>2
  <2>4. /\ OtherAuthorsMatch(d, r) = IF cited(d) = {} THEN 0
               ELSE (20 * Cardinality(hits(d))) \div Cardinality(cited(d))
        /\ OtherAuthorsMatch(c, r) = IF cited(c) = {} THEN 0
               ELSE (20 * Cardinality(hits(c))) \div Cardinality(cited(c))
    BY <1>3 DEF OtherAuthorsMatch
  <2> HIDE DEF cited, hits
  <2>5. QED
    BY <2>2, <2>3, <2>4
<1>10. Applicable(d) = Applicable(c)
  BY <1>3 DEF Applicable, Components
<1>11. "title" \in Applicable(c) => d.title = c.title
  BY <1>4 DEF Applicable
<1>12. Weights(d) = Weights(c) /\ Whole(d) = Whole(c)
  BY <1>10, <1>11 DEF Weights, Whole, Denominator
<1>13. IdentifierMatch(d, r) <=> IdentifierMatch(c, r)
  <2>1. \A key \in IdentifierKeys : key # "authors"
    BY DEF IdentifierKeys
  <2>2. QED
    BY <1>3, <1>4, <2>1 DEF IdentifierMatch
<1>14. CASE IdentifierMatch(c, r)
  <2>1. /\ score = Score(Whole(c), "high", None, FALSE, TRUE)
        /\ named = Score(Whole(c), "high", None, FALSE, TRUE)
    BY <1>12, <1>13, <1>14 DEF ScoreMatch, d
  <2>2. QED
    BY <2>1, WholeType DEF Score
<1>15. CASE ~IdentifierMatch(c, r)
  <2>1. score \in BibliographicScores(c, r) /\ named \in BibliographicScores(d, r)
    BY <1>13, <1>15 DEF ScoreMatch, d
  <2>2. RejectedBy(c, r) = None
    <3>1. RejectedBy(c, r) # None => score = Score(0, "none", RejectedBy(c, r), FALSE, FALSE)
      BY <2>1 DEF BibliographicScores
    <3>2. QED
      BY <3>1 DEF Score
  <2>3. RejectedBy(d, r) = None
    <3>1. /\ ~(Has(c, "year") /\ Has(r, "year") /\ Distance(c.year, r.year) > 1)
          /\ ~(Has(c, "title") /\ TitleSim(c, r) < 14)
      BY <2>2, NoneAssumption DEF RejectedBy, Reasons
    <3>2. /\ ~(Has(d, "year") /\ Has(r, "year") /\ Distance(d.year, r.year) > 1)
          /\ ~(Has(d, "title") /\ TitleSim(d, r) < 14)
      BY <1>3, <1>4, <1>6, <3>1
    <3>3. QED
      BY <1>5, <3>2 DEF RejectedBy
  <2>4. score.confidence = WeightedScore(c, r)
    BY <2>1, <2>2 DEF BibliographicScores, Score
  <2>5. named.confidence = WeightedScore(d, r) /\ named.rejected = None
    BY <2>1, <2>3 DEF BibliographicScores, Score
  <2>6. WeightedScore(d, r) >= WeightedScore(c, r)
    BY <1>5, <1>6, <1>7, <1>8, <1>9, <1>12, MoreOfOne DEF Similarities
  <2>7. QED
    BY <2>4, <2>5, <2>6
<1>16. QED
  BY <1>14, <1>15

\* Whatever the names and the records are: to name the first author of a
\* record that was taken, in a form parse_author_string promises to read,
\* does not lower the score of the record, and no guard rejects it.
THEOREM OwnAuthorAlwaysHelps == Spec => []OwnAuthorHelps
<1>1. Backed => OwnAuthorHelps
  <2> SUFFICES ASSUME Backed, NEW s \in DOMAIN taken,
                      Has(citation, "authors"), Has(taken[s].record, "authors"),
                      taken[s].record.authors[1].kind = "dict",
                      NEW form \in Forms(taken[s].record.authors[1]),
                      NEW score \in ScoreMatch([citation EXCEPT !.authors[1] = form],
                                               taken[s].record)
               PROVE  /\ score.rejected = None
                      /\ score.confidence >= taken[s].score.confidence
    BY DEF OwnAuthorHelps
  <2>1. /\ citation \in Citation /\ taken[s].record \in Record
        /\ taken[s].score \in ScoreMatch(citation, taken[s].record)
        /\ taken[s].score.quality # "none"
    BY DEF Backed
  <2>2. score \in ScoreMatch(Named(citation, form), taken[s].record)
    BY DEF Named
  <2>3. QED
    BY <2>1, <2>2, NamedScore
<1>2. QED
  BY <1>1, AnswersBacked, PTL

-----------------------------------------------------------------------------
(* What an unverified answer gives back.                                   *)

Cleared(surname) == [i \in DOMAIN surname |-> [surname[i] EXCEPT !.comma = FALSE]]

LEMMA ClearedIs ==
    ASSUME NEW name \in Seq(Token)
    PROVE  /\ Cleared(name) \in Seq(Token) /\ Len(Cleared(name)) = Len(name)
           /\ \A i \in 1..Len(name) : /\ Cleared(name)[i].word = name[i].word
                                      /\ ~Cleared(name)[i].comma
<1> DEFINE n == Len(name)
           plain(i) == [name[i] EXCEPT !.comma = FALSE]
<1>1. n \in Nat /\ DOMAIN name = 1..n
  BY NameIs
<1>2. ASSUME NEW i \in 1..n
      PROVE  plain(i) \in Token /\ plain(i).word = name[i].word /\ ~plain(i).comma
  <2>1. name[i] \in Token
    BY NameIs
  <2>2. QED
    BY <2>1 DEF Token
<1>3. Cleared(name) = [i \in 1..n |-> plain(i)]
  BY <1>1 DEF Cleared
<1> HIDE DEF plain
<1>4. Cleared(name) \in [1..n -> Token]
  BY <1>2, <1>3
<1>5. Cleared(name) \in Seq(Token) /\ Len(Cleared(name)) = n
  BY <1>1, <1>4, SeqDef, LenProperties
<1>6. QED
  BY <1>2, <1>3, <1>5

\* A name whose surname leaves something for the given name comes back as a
\* dict with both, whose surname is the same.
LEMMA EchoedInParts ==
    ASSUME NEW name \in Seq(Token), NEW author,
           author = [kind |-> "string", tokens |-> name],
           NEW i \in 1..Len(name), NEW j \in i..Len(name),
           SurnameSpan(name) = <<i, j>>,
           (i = 1 /\ j < Len(name)) \/ (i = Len(name) /\ i > 1)
    PROVE  NormalizedSurname(Echoed(author)) = NormalizedSurname(author)
<1> DEFINE surname == Surname(name)
           family == Cleared(surname)
           given == IF i = 1 THEN SubSeq(name, j + 1, Len(name))
                    ELSE SubSeq(name, 1, i - 1)
           echoed == [kind |-> "dict", family |-> family, given |-> given]
           m == j - i + 1
<1>1. Len(name) \in Nat /\ i \in Nat /\ j \in Nat /\ m \in Nat \ {0}
  BY LenProperties
<1>2. surname \in Seq(Token) /\ Len(surname) = m
  <2>1. i \in 1..Len(name) + 1 /\ j \in i - 1..Len(name)
    BY <1>1
  <2>2. QED
    BY <2>1, SpanWords
<1>3. /\ family \in Seq(Token) /\ Len(family) = m
      /\ \A k \in 1..m : family[k].word = surname[k].word /\ ~family[k].comma
  BY <1>2, ClearedIs
<1>4. Echoed(author) = echoed
  <2>1. author.kind = "string" /\ author.tokens = name
    OBVIOUS
  <2>2. SurnameSpan(name)[1] = i /\ SurnameSpan(name)[2] = j
    OBVIOUS
  <2> DEFINE rest == IF SurnameSpan(name)[1] = 1
                     THEN SubSeq(name, SurnameSpan(name)[2] + 1, Len(name))
                     ELSE SubSeq(name, 1, SurnameSpan(name)[1] - 1)
  <2>3. Echoed(author) = [kind |-> "dict", family |-> family, given |-> rest]
    BY <2>1 DEF Echoed, Cleared
  <2>4. rest = given
    BY <2>2
  <2> HIDE DEF rest, given, family
  <2>5. QED
    BY <2>3, <2>4
<1>5. given \in Seq(Token) /\ Len(given) \in Nat \ {0}
  <2>1. CASE i = 1
    <3>1. j + 1 \in 1..Len(name) + 1 /\ Len(name) \in j + 1 - 1..Len(name)
              /\ Len(name) - (j + 1) + 1 \in Nat \ {0}
      BY <1>1, <2>1
    <3>2. SubSeq(name, j + 1, Len(name)) \in Seq(Token)
              /\ Len(SubSeq(name, j + 1, Len(name))) = Len(name) - (j + 1) + 1
      BY <3>1, PartOf
    <3>3. QED
      BY <2>1, <3>1, <3>2
  <2>2. CASE i # 1
    <3>1. 1 \in 1..Len(name) + 1 /\ i - 1 \in 1 - 1..Len(name)
              /\ i - 1 - 1 + 1 \in Nat \ {0}
      BY <1>1, <2>2
    <3>2. SubSeq(name, 1, i - 1) \in Seq(Token)
              /\ Len(SubSeq(name, 1, i - 1)) = i - 1 - 1 + 1
      BY <3>1, PartOf
    <3>3. QED
      BY <2>2, <3>1, <3>2
  <2>3. QED
    BY <2>1, <2>2
<1> HIDE DEF surname, family, given, m
<1>6. echoed \in Author /\ echoed.kind = "dict" /\ echoed.family # <<>> /\ echoed.given # <<>>
  BY <1>1, <1>3, <1>5, EmptySeq DEF Author
<1>7. PICK k \in 1..Len(echoed.family) :
          /\ Surname(AuthorToString(echoed)) \in Seq(Token)
          /\ Len(Surname(AuthorToString(echoed))) = k
          /\ \A l \in 1..k : Surname(AuthorToString(echoed))[l].word = echoed.family[l].word
          /\ k = Len(echoed.family) \/ echoed.family[k].comma
  BY <1>6, DictSurname
<1>8. k = m
  BY <1>1, <1>3, <1>7
<1>9. \A l \in 1..m : Surname(AuthorToString(echoed))[l].word = surname[l].word
  BY <1>3, <1>7, <1>8
<1>10. AuthorToString(author) = name
  BY DEF AuthorToString
<1>11. NormalizedSurname(author) = [l \in DOMAIN surname |-> surname[l].word]
  BY <1>10 DEF NormalizedSurname, surname
<1>12. NormalizedSurname(echoed) = [l \in DOMAIN Surname(AuthorToString(echoed)) |->
                                       Surname(AuthorToString(echoed))[l].word]
  BY DEF NormalizedSurname
<1> HIDE DEF echoed
<1>13. Len(Surname(AuthorToString(echoed))) = Len(surname)
           /\ \A l \in 1..Len(Surname(AuthorToString(echoed))) :
                  Surname(AuthorToString(echoed))[l].word = surname[l].word
  BY <1>2, <1>7, <1>8, <1>9
<1>14. QED
  BY <1>2, <1>4, <1>7, <1>11, <1>12, <1>13, SameWords

\* A name that is all surname comes back as a family name, read as before.
LEMMA EchoedWhole ==
    ASSUME NEW name \in Seq(Token), NEW author,
           author = [kind |-> "string", tokens |-> name], Len(name) <= 1
    PROVE  NormalizedSurname(Echoed(author)) = NormalizedSurname(author)
<1> DEFINE surname == Surname(name)
           family == Cleared(surname)
           given == SubSeq(name, Len(name) + 1, Len(name))
           echoed == [kind |-> "dict", family |-> family, given |-> given]
<1>1. Len(name) \in 0..1
  <2>1. Len(name) \in Nat
    BY NameIs
  <2>2. \A n \in Nat : n <= 1 => n \in 0..1
    OBVIOUS
  <2>3. QED
    BY <2>1, <2>2
<1>2. SurnameSpan(name) = <<1, Len(name)>>
  <2>1. CASE \A i \in 1..Len(name) : ~name[i].comma
    BY <2>1, OtherSurnames
  <2>2. CASE ~ \A i \in 1..Len(name) : ~name[i].comma
    <3>1. Len(name) = 1 /\ name[1].comma
      BY <1>1, <2>2
    <3>2. QED
      BY <3>1, CommaSurname
  <2>3. QED
    BY <2>1, <2>2
<1>3. surname \in Seq(Token) /\ Len(surname) = Len(name)
  <2>1. 1 \in 1..Len(name) + 1 /\ Len(name) \in 1 - 1..Len(name)
            /\ Len(name) - 1 + 1 = Len(name)
    BY <1>1
  <2>2. QED
    BY <1>2, <2>1, SpanWords
<1>4. /\ family \in Seq(Token) /\ Len(family) = Len(name)
      /\ \A k \in 1..Len(name) : family[k].word = surname[k].word /\ ~family[k].comma
  BY <1>3, ClearedIs
<1>5. Echoed(author) = echoed
  <2>1. author.kind = "string" /\ author.tokens = name
    OBVIOUS
  <2>2. SurnameSpan(name)[1] = 1 /\ SurnameSpan(name)[2] = Len(name)
    BY <1>2
  <2> DEFINE rest == IF SurnameSpan(name)[1] = 1
                     THEN SubSeq(name, SurnameSpan(name)[2] + 1, Len(name))
                     ELSE SubSeq(name, 1, SurnameSpan(name)[1] - 1)
  <2>3. Echoed(author) = [kind |-> "dict", family |-> family, given |-> rest]
    BY <2>1 DEF Echoed, Cleared
  <2>4. rest = given
    BY <2>2
  <2> HIDE DEF rest, given, family
  <2>5. QED
    BY <2>3, <2>4
<1>6. given = <<>>
  <2>1. Len(name) + 1 \in 1..Len(name) + 1 /\ Len(name) \in Len(name) + 1 - 1..Len(name)
            /\ Len(name) - (Len(name) + 1) + 1 = 0
    BY <1>1
  <2>2. given \in Seq(Token) /\ Len(given) = 0
    BY <2>1, PartOf
  <2> HIDE DEF given
  <2>3. QED
    BY <2>2, EmptySeq
<1> HIDE DEF surname, family, given
<1>7. AuthorToString(echoed) = family
  BY <1>6 DEF AuthorToString
<1>8. SurnameSpan(family) = <<1, Len(name)>>
  BY <1>4, OtherSurnames
<1>9. /\ Surname(family) \in Seq(Token) /\ Len(Surname(family)) = Len(name)
      /\ \A k \in 1..Len(name) : Surname(family)[k] = family[k]
  <2>1. 1 \in 1..Len(family) + 1 /\ Len(name) \in 1 - 1..Len(family)
            /\ Len(name) - 1 + 1 = Len(name) /\ \A k \in 1..Len(name) : 1 + k - 1 = k
    BY <1>1, <1>4
  <2>2. /\ Surname(family) \in Seq(Token) /\ Len(Surname(family)) = Len(name) - 1 + 1
        /\ \A k \in 1..Len(name) - 1 + 1 : Surname(family)[k] = family[1 + k - 1]
    BY <1>4, <1>8, <2>1, SpanWords
  <2>3. QED
    BY <2>1, <2>2
<1>10. AuthorToString(author) = name
  BY DEF AuthorToString
<1>11. NormalizedSurname(author) = [l \in DOMAIN surname |-> surname[l].word]
  BY <1>10 DEF NormalizedSurname, surname
<1>12. NormalizedSurname(echoed) = [l \in DOMAIN Surname(family) |-> Surname(family)[l].word]
  BY <1>7 DEF NormalizedSurname
<1>13. \A k \in 1..Len(name) : Surname(family)[k].word = surname[k].word
  BY <1>4, <1>9
<1> HIDE DEF echoed
<1>14. QED
  BY <1>3, <1>5, <1>9, <1>11, <1>12, <1>13, SameWords

LEMMA EchoSurname ==
    ASSUME NEW author \in Author, ~Unfinished(author)
    PROVE  NormalizedSurname(Echoed(author)) = NormalizedSurname(author)
<1>1. CASE author.kind = "dict"
  BY <1>1 DEF Echoed
<1>2. CASE author.kind # "dict"
  <2> DEFINE name == author.tokens
             n == Len(name)
  <2>1. name \in Seq(Token) /\ author = [kind |-> "string", tokens |-> name]
    BY <1>2 DEF Author
  <2>2. n \in Nat /\ DOMAIN name = 1..n
    BY <2>1, NameIs
  <2>3. CASE n <= 1
    BY <2>1, <2>3, EchoedWhole
  <2> SUFFICES ASSUME n > 1
               PROVE  NormalizedSurname(Echoed(author)) = NormalizedSurname(author)
    BY <2>2, <2>3
  <2>4. ASSUME NEW i \in 1..n, NEW j \in i..n, SurnameSpan(name) = <<i, j>>,
               (i = 1 /\ j < n) \/ (i = n /\ i > 1)
        PROVE  NormalizedSurname(Echoed(author)) = NormalizedSurname(author)
    BY <2>1, <2>4, EchoedInParts
  <2>4a. ASSUME NEW j \in 1..n, j < n, SurnameSpan(name) = <<1, j>>
         PROVE  NormalizedSurname(Echoed(author)) = NormalizedSurname(author)
    <3> DEFINE i == 1
    <3>1. /\ i \in 1..n /\ j \in i..n /\ SurnameSpan(name) = <<i, j>>
          /\ (i = 1 /\ j < n) \/ (i = n /\ i > 1)
      BY <2>2, <2>4a
    <3> HIDE DEF i
    <3>2. QED
      BY <2>4, <3>1
  <2>5. CASE \E i \in 1..n : name[i].comma
    <3> DEFINE commas == {i \in 1..n : name[i].comma}
               k == First(commas)
    <3>1. commas \in SUBSET (1..n) /\ commas # {}
      BY <2>5
    <3>2. k \in commas /\ \A j \in commas : k <= j
      <4> HIDE DEF commas
      <4>1. QED
        BY <2>2, <3>1, FirstLast
    <3>3. k \in 1..n /\ name[k].comma /\ \A i \in 1..k - 1 : ~name[i].comma
      <4>1. k \in 1..n /\ name[k].comma
        BY <3>2
      <4> HIDE DEF k
      <4>2. ASSUME NEW i \in 1..k - 1, name[i].comma
            PROVE  FALSE
        <5>1. i \in commas /\ i < k
          BY <2>2, <4>1, <4>2
        <5>2. QED
          BY <2>2, <3>2, <4>1, <5>1
      <4>3. QED
        BY <4>1, <4>2
    <3> HIDE DEF k, commas
    <3>4. SurnameSpan(name) = <<1, k>>
      BY <2>1, <3>3, CommaSurname
    <3>5. k < n
      <4>1. k = n => Unfinished(author)
        BY <2>1, <2>2, <3>3 DEF Unfinished
      <4>2. QED
        BY <2>2, <3>3, <4>1
    <3>6. QED
      BY <2>4a, <3>3, <3>4, <3>5
  <2>6. CASE \A i \in 1..n : ~name[i].comma
    <3>1. CASE \A i \in 1..n : name[i].initial
      <4>1. SurnameSpan(name) = <<1, 0>>
        BY <2>1, <2>6, <3>1, OtherSurnames
      <4>2. Surname(name) \in Seq(Token) /\ Len(Surname(name)) = 0
        <5>1. 1 \in 1..n + 1 /\ 0 \in 1 - 1..n /\ 0 - 1 + 1 = 0
          BY <2>2
        <5>2. QED
          BY <2>1, <4>1, <5>1, SpanWords
      <4>3. Cleared(Surname(name)) = <<>>
        <5>1. Cleared(Surname(name)) \in Seq(Token) /\ Len(Cleared(Surname(name))) = 0
          BY <4>2, ClearedIs
        <5>2. QED
          BY <5>1, EmptySeq
      <4>4. Echoed(author) = [kind |-> "dict", family |-> <<>>, given |-> name]
        <5>1. author.kind = "string" /\ SurnameSpan(name)[1] = 1 /\ SurnameSpan(name)[2] = 0
          BY <2>1, <4>1
        <5>2. SubSeq(name, SurnameSpan(name)[2] + 1, Len(name)) = name
          <6>1. SurnameSpan(name)[2] + 1 = 1
            BY <5>1
          <6>2. SubSeq(name, 1, Len(name)) = name
            BY <2>1, SubSeqFull
          <6>3. QED
            BY <6>1, <6>2
        <5>3. Echoed(author) = [kind |-> "dict", family |-> Cleared(Surname(name)),
                  given |-> SubSeq(name, SurnameSpan(name)[2] + 1, Len(name))]
          BY <5>1 DEF Echoed, Cleared
        <5>4. QED
          BY <4>3, <5>2, <5>3
      <4>5. AuthorToString(Echoed(author)) = name /\ AuthorToString(author) = name
        BY <2>1, <4>4 DEF AuthorToString
      <4>6. QED
        BY <4>5 DEF NormalizedSurname
    <3>2. CASE ~name[n].initial
      <4>1. SurnameSpan(name) = <<n, n>>
        BY <2>1, <2>6, <3>2, OtherSurnames
      <4>2. n \in 1..n /\ n \in n..n
        BY <2>2
      <4>3. QED
        BY <2>4, <4>1, <4>2
    <3>3. CASE name[n].initial /\ ~ \A i \in 1..n : name[i].initial
      <4> DEFINE words == {i \in 1..n : ~name[i].initial}
                 k == Last(words)
      <4>1. words \in SUBSET (1..n) /\ words # {}
        BY <3>3
      <4>2. k \in words /\ \A j \in words : k >= j
        <5> HIDE DEF words
        <5>1. QED
          BY <2>2, <4>1, FirstLast
      <4>3. k \in 1..n /\ ~name[k].initial /\ k # n
        BY <3>3, <4>2
      <4> HIDE DEF k
      <4>4. ASSUME NEW i \in k + 1..n, ~name[i].initial
            PROVE  FALSE
        <5>1. i \in words /\ i > k
          BY <2>2, <4>3, <4>4
        <5>2. QED
          BY <2>2, <4>2, <4>3, <5>1
      <4>5. k \in 1..n - 1 /\ 1 \in 1..n /\ k < n
        BY <2>2, <4>3
      <4>6. SurnameSpan(name) = <<1, k>>
        BY <2>1, <2>6, <4>3, <4>4, <4>5, OtherSurnames
      <4>7. QED
        BY <2>4a, <4>3, <4>5, <4>6
    <3>4. QED
      BY <3>1, <3>2, <3>3
  <2>7. QED
    BY <2>5, <2>6
<1>3. QED
  BY <1>1, <1>2

\* A name survives being parsed and given back, unless it was unfinished.
THEOREM EchoAlwaysKeepsSurnames == Spec => []EchoKeepsSurnames
<1> DEFINE EchoInv ==
          /\ citation \in Citation
          /\ Answered => answer.verified \/ answer.canonical = EmptyCanonical
<1>1. Init => EchoInv
  BY DEF Init, Answered
<1>2. EchoInv /\ [Next]_vars /\ Backed' => EchoInv'
  <2> SUFFICES ASSUME EchoInv, [Next]_vars, Backed'
               PROVE  EchoInv'
    OBVIOUS
  <2>1. citation' = citation
    BY DEF Next, vars, NotAsked, LookupFailed, RateLimited, NoCandidates, Candidates,
           Looking, AnswerUnverified, AnswerVerified
  <2>2. EmptyCanonical' = EmptyCanonical
    BY <2>1 DEF EmptyCanonical
  <2>3. Answered' => \/ answer' = answer \/ answer'.verified
                     \/ answer'.canonical = EmptyCanonical
    <3>1. CASE AnswerUnverified
      BY <3>1 DEF AnswerUnverified, Answer
    <3>2. CASE AnswerVerified
      <4>1. DOMAIN taken' # {}
        BY <3>2 DEF AnswerVerified
      <4>2. QED
        BY <4>1 DEF Backed
    <3>3. CASE ~AnswerUnverified /\ ~AnswerVerified
      BY <3>3 DEF Next, vars, NotAsked, LookupFailed, RateLimited, NoCandidates,
           Candidates, Looking
    <3>4. QED
      BY <3>1, <3>2, <3>3
  <2> HIDE DEF EmptyCanonical
  <2>4. QED
    BY <2>1, <2>2, <2>3 DEF Answered
<1>3. EchoInv => EchoKeepsSurnames
  <2> SUFFICES ASSUME EchoInv, Answered, ~answer.verified, Has(citation, "authors")
               PROVE  /\ DOMAIN answer.canonical.authors = DOMAIN citation.authors
                      /\ \A i \in DOMAIN citation.authors :
                             ~Unfinished(citation.authors[i]) =>
                             NormalizedSurname(answer.canonical.authors[i])
                                 = NormalizedSurname(citation.authors[i])
    BY DEF EchoKeepsSurnames
  <2>1. answer.canonical.authors
            = [i \in DOMAIN citation.authors |-> Echoed(citation.authors[i])]
    BY DEF EmptyCanonical, Fields, Authority
  <2>2. ASSUME NEW i \in DOMAIN citation.authors
        PROVE  citation.authors[i] \in Author
    BY AuthorAssumption, ElementOfSeq, LenProperties
  <2>3. QED
    BY <2>1, <2>2, EchoSurname
<1> HIDE DEF EchoInv
<1>4. QED
  BY <1>1, <1>2, <1>3, AnswersBacked, PTL DEF Spec

-----------------------------------------------------------------------------
(* Types.                                                                  *)

\* The services whose result has been looked at.
Seen == {Services[i] : i \in 1..next - 1}

\* What TypeOK needs besides Backed.  A service is in one of the three at
\* most because each is looked at once: so that the rate limit of arXiv and
\* a record of it exclude each other, limited must be among those seen.
KeptInv ==
    /\ rejected \in Seq(ScoreOf(Whole(citation)))
    /\ failed \subseteq Seen \ DOMAIN taken
    /\ limited \subseteq (Seen \cap {"arxiv"}) \ DOMAIN taken

\* The service looked at has not been looked at before.
LEMMA LookedAtOnce ==
    ASSUME Backed, NEW service, Looking(service)
    PROVE  /\ service \notin Seen /\ Seen' = Seen \cup {service}
           /\ DOMAIN taken \subseteq Seen
<1>1. /\ next \in 1..5 /\ next' = next + 1 /\ service = Services[next]
  BY DEF Backed, Looking, Services
<1>2. \A i, j \in 1..5 : Services[i] = Services[j] => i = j
  BY DEF Services
<1>3. service \notin Seen
  <2> SUFFICES ASSUME NEW i \in 1..next - 1, service = Services[i]
               PROVE  FALSE
    BY DEF Seen
  <2>1. i \in 1..5 /\ i # next
    BY <1>1
  <2>2. QED
    BY <1>1, <1>2, <2>1
<1>4. Seen' = Seen \cup {service}
  <2>1. 1..next' - 1 = (1..next - 1) \cup {next}
    BY <1>1
  <2>2. Seen' = {Services[i] : i \in 1..next' - 1}
    BY DEF Seen, Services
  <2>3. QED
    BY <1>1, <2>1, <2>2 DEF Seen
<1>5. QED
  BY <1>3, <1>4 DEF Backed, Seen

\* The first of the best scores of a service is one score_match gives.
LEMMA PickedType ==
    ASSUME Backed, NEW service, Candidates(service)
    PROVE  \/ /\ rejected' = rejected
              /\ DOMAIN taken' = DOMAIN taken \cup {service}
           \/ /\ taken' = taken
              /\ \E score \in ScoreOf(Whole(citation)) :
                     rejected' = Append(rejected, score)
<1>2. MostCandidates(service) \in Nat
  BY RowsAssumption DEF MostCandidates
<1> DEFINE Picks(n, records, scores) ==
          LET best == Best(scores) IN
          /\ \A i \in 1..n : scores[i] \in ScoreMatch(citation, records[i])
          /\ IF scores[best].quality # "none"
             THEN /\ taken' = [s \in DOMAIN taken \cup {service} |->
                                  IF s = service
                                  THEN [record |-> records[best],
                                        score |-> scores[best]]
                                  ELSE taken[s]]
                  /\ UNCHANGED rejected
             ELSE /\ rejected' = Append(rejected, scores[best])
                  /\ UNCHANGED taken
           Given(n, records) ==
              [1..n -> UNION {ScoreMatch(citation, records[i]) : i \in 1..n}]
<1>3a. PICK n \in 1..MostCandidates(service) :
          \E records \in [1..n -> Record] :
          \E scores \in Given(n, records) : Picks(n, records, scores)
  BY DEF Candidates
<1>3b. PICK records \in [1..n -> Record] :
          \E scores \in Given(n, records) : Picks(n, records, scores)
  BY <1>3a
<1>3. PICK scores \in Given(n, records) : Picks(n, records, scores)
  BY <1>3b
<1> DEFINE best == Best(scores)
<1>4. n \in Nat \ {0} /\ DOMAIN scores = 1..n
  BY <1>2, <1>3
<1>5. citation \in Citation /\ Whole(citation) \in Nat
  BY WholeType DEF Backed
<1>6. ASSUME NEW i \in 1..n
      PROVE  scores[i] \in ScoreOf(Whole(citation))
  <2>1. records[i] \in Record /\ scores[i] \in ScoreMatch(citation, records[i])
    BY <1>3
  <2>2. QED
    BY <2>1, <1>5, ScoreType
<1>7. best \in 1..n
  <2>1. \A i \in 1..n : scores[i].confidence \in 0..Whole(citation)
    BY <1>6 DEF ScoreOf
  <2>2. QED
    BY <1>4, <1>5, <2>1, BestIsOne
<1>8. CASE scores[best].quality = "none"
  <2>1. taken' = taken /\ rejected' = Append(rejected, scores[best])
    BY <1>3, <1>8
  <2>2. scores[best] \in ScoreOf(Whole(citation))
    <3> HIDE DEF best
    <3>1. QED
      BY <1>6, <1>7
  <2>3. QED
    BY <2>1, <2>2
<1>9. CASE scores[best].quality # "none"
  BY <1>3, <1>9
<1>10. QED
  BY <1>8, <1>9

LEMMA NextKept == Backed /\ KeptInv /\ [Next]_vars => KeptInv'
<1> SUFFICES ASSUME Backed, KeptInv, [Next]_vars
             PROVE  KeptInv'
  OBVIOUS
<1>1. /\ rejected \in Seq(ScoreOf(Whole(citation)))
      /\ failed \subseteq Seen \ DOMAIN taken
      /\ limited \subseteq (Seen \cap {"arxiv"}) \ DOMAIN taken
  BY DEF KeptInv
<1>2. /\ citation' = citation
      /\ ScoreOf(Whole(citation))' = ScoreOf(Whole(citation))
  <2>1. citation' = citation
    BY DEF Next, vars, NotAsked, LookupFailed, RateLimited, NoCandidates, Candidates,
           Looking, AnswerUnverified, AnswerVerified
  <2>2. QED
    BY <2>1 DEF Whole, Denominator, ScoreOf
<1>3. ASSUME NEW service, NotAsked(service) \/ NoCandidates(service)
      PROVE  KeptInv'
  <2>1. Looking(service) /\ UNCHANGED <<taken, rejected, failed, limited>>
    BY <1>3 DEF NotAsked, NoCandidates
  <2>2. QED
    BY <1>1, <1>2, <2>1, LookedAtOnce DEF KeptInv
<1>4. ASSUME NEW service, LookupFailed(service)
      PROVE  KeptInv'
  <2>1. Looking(service) /\ UNCHANGED <<taken, rejected, limited>>
            /\ failed' = failed \cup {service}
    BY <1>4 DEF LookupFailed
  <2>2. QED
    BY <1>1, <1>2, <2>1, LookedAtOnce DEF KeptInv
<1>5. ASSUME NEW service, RateLimited(service)
      PROVE  KeptInv'
  <2>1. Looking(service) /\ UNCHANGED <<taken, rejected, failed>>
            /\ service = "arxiv" /\ limited' = limited \cup {service}
    BY <1>5 DEF RateLimited
  <2>2. QED
    BY <1>1, <1>2, <2>1, LookedAtOnce DEF KeptInv
<1>6. ASSUME NEW service, Candidates(service)
      PROVE  KeptInv'
  <2>1. Looking(service) /\ UNCHANGED <<failed, limited>>
    BY <1>6 DEF Candidates
  <2>2. service \notin Seen /\ Seen' = Seen \cup {service}
    BY <2>1, LookedAtOnce
  <2>3. CASE rejected' = rejected /\ DOMAIN taken' = DOMAIN taken \cup {service}
    <3>1. failed' \subseteq Seen' \ DOMAIN taken'
      BY <1>1, <2>1, <2>2, <2>3
    <3>2. limited' \subseteq (Seen' \cap {"arxiv"}) \ DOMAIN taken'
      BY <1>1, <2>1, <2>2, <2>3
    <3>3. QED
      BY <1>1, <1>2, <2>3, <3>1, <3>2 DEF KeptInv
  <2>4. CASE taken' = taken /\ \E score \in ScoreOf(Whole(citation)) :
                                   rejected' = Append(rejected, score)
    <3>1. PICK score \in ScoreOf(Whole(citation)) : rejected' = Append(rejected, score)
      BY <2>4
    <3>2. rejected' \in Seq(ScoreOf(Whole(citation)))
      BY <1>1, <3>1, AppendProperties
    <3>3. QED
      BY <1>1, <1>2, <2>1, <2>2, <2>4, <3>2 DEF KeptInv
  <2>5. QED
    BY <1>6, <2>3, <2>4, PickedType
<1>7. CASE AnswerUnverified \/ AnswerVerified \/ UNCHANGED vars
  <2>1. UNCHANGED <<next, taken, rejected, failed, limited>>
    BY <1>7 DEF AnswerUnverified, AnswerVerified, vars
  <2>2. Seen' = Seen
    BY <2>1 DEF Seen
  <2>3. QED
    BY <1>1, <1>2, <2>1, <2>2 DEF KeptInv
<1>8. QED
  BY <1>3, <1>4, <1>5, <1>6, <1>7 DEF Next

\* The confidence of every score taken or rejected, and of the answer, is
\* within that of a perfect match; no score taken is "none", and no service is
\* taken and failed or limited at once.
THEOREM MatchTypes == Spec => []TypeOK
<1>1. Init => KeptInv
  <2> SUFFICES ASSUME Init
               PROVE  KeptInv
    OBVIOUS
  <2>1. rejected \in Seq(ScoreOf(Whole(citation)))
    BY EmptySeq DEF Init
  <2>2. QED
    BY <2>1 DEF Init, KeptInv
<1>2. Backed /\ KeptInv => TypeOK
  <2> SUFFICES ASSUME Backed, KeptInv
               PROVE  TypeOK
    OBVIOUS
  <2>1. ASSUME NEW s \in DOMAIN taken
        PROVE  /\ taken[s].record \in Record
               /\ taken[s].score \in ScoreOf(Whole(citation))
               /\ taken[s].score.quality # "none"
    BY ScoreType DEF Backed
  <2>2. \A i \in DOMAIN rejected : rejected[i] \in ScoreOf(Whole(citation))
    BY ElementOfSeq, LenProperties DEF KeptInv
  <2>3. answer # None => /\ answer.quality \in Quality
                          /\ answer.confidence \in 0..Whole(citation)
    <3> SUFFICES ASSUME answer # None
                 PROVE  /\ answer.quality \in Quality
                        /\ answer.confidence \in 0..Whole(citation)
      OBVIOUS
    <3>1. CASE ~answer.verified
      <4>1. answer.quality = "none" /\ answer.confidence = 0
        BY <3>1 DEF Backed, Answered
      <4>2. QED
        BY <4>1, ScoresAre DEF Quality
    <3>2. CASE answer.verified
      <4>1. PICK i \in DOMAIN Scores :
                /\ answer.quality = Scores[i].quality
                /\ answer.confidence = Scores[i].confidence
        BY <3>2 DEF Backed, Answered
      <4>2. Scores[i] \in ScoreOf(Whole(citation))
        BY ScoresAre, <2>1
      <4>3. QED
        BY <4>1, <4>2 DEF ScoreOf
    <3>3. QED
      BY <3>1, <3>2
  <2>4. /\ failed \subseteq {Services[i] : i \in 1..next - 1} \ DOMAIN taken
        /\ limited \subseteq {"arxiv"} \ DOMAIN taken
    BY DEF KeptInv, Seen
  <2>5. /\ citation \in Citation /\ next \in 1..Len(Services) + 1
        /\ DOMAIN taken \subseteq {Services[i] : i \in 1..next - 1}
    BY DEF Backed
  <2>6. QED
    BY <2>1, <2>2, <2>3, <2>4, <2>5 DEF TypeOK
<1>3. QED
  BY <1>1, <1>2, InitBacked, NextBacked, NextKept, PTL DEF Spec

-----------------------------------------------------------------------------
(* The merge.                                                              *)

\* No field has more authorities than there are services.
LEMMA AuthorityIs ==
    ASSUME NEW f \in Fields
    PROVE  DOMAIN Authority[f] \in SUBSET (1..5)
BY DEF Fields, Authority

\* Values disagree where something the code makes of each one differs, in
\* every field but journal and pages: there agreement is not transitive.
LEMMA AgreementIsTransitive ==
    ASSUME NEW f \in Fields \ {"journal", "pages"}, NEW resolved, NEW one, NEW other,
           ~ValuesDisagree(f, resolved, one), ~ValuesDisagree(f, resolved, other)
    PROVE  ~ValuesDisagree(f, one, other)
<1>1. CASE f \in {"doi", "pmid", "arxiv_id", "openalex_id", "paper_id"}
  BY <1>1 DEF ValuesDisagree
<1>2. CASE f = "authors"
  BY <1>2 DEF ValuesDisagree
<1>3. CASE f \notin {"doi", "pmid", "arxiv_id", "openalex_id", "paper_id", "authors"}
  BY <1>3 DEF ValuesDisagree
<1>4. QED
  BY <1>1, <1>2, <1>3

LEMMA AgreesWithItself ==
    ASSUME NEW f \in Fields \ {"journal", "pages"}, NEW one
    PROVE  ~ValuesDisagree(f, one, one)
<1>1. CASE f \in {"doi", "pmid", "arxiv_id", "openalex_id", "paper_id"}
  BY <1>1 DEF ValuesDisagree
<1>2. CASE f = "authors"
  BY <1>2 DEF ValuesDisagree
<1>3. CASE f \notin {"doi", "pmid", "arxiv_id", "openalex_id", "paper_id", "authors"}
  BY <1>3 DEF ValuesDisagree
<1>4. QED
  BY <1>1, <1>2, <1>3

\* Two values that disagree with each other do not both agree with the one
\* the merge keeps.
LEMMA DisagreementShows ==
    ASSUME NEW bySource, NEW f \in Fields \ {"journal", "pages"},
           NEW i \in Suppliers(bySource, f), NEW j \in Suppliers(bySource, f),
           ValuesDisagree(f, bySource[Authority[f][i]][f], bySource[Authority[f][j]][f])
    PROVE  Disagreeing(bySource, f) # {}
<1> DEFINE suppliers == Suppliers(bySource, f)
           first == First(suppliers)
           Value(k) == bySource[Authority[f][k]][f]
<1>1. first \in suppliers
  <2>1. suppliers \in SUBSET (1..5) /\ suppliers # {}
    BY AuthorityIs DEF Suppliers
  <2> HIDE DEF suppliers
  <2>2. QED
    BY <2>1, FirstLast
<1>2. Resolved(bySource, f) = Value(first)
  BY <1>1 DEF Resolved, Source
<1>3. ASSUME Disagreeing(bySource, f) = {}, NEW k \in suppliers
      PROVE  ~ValuesDisagree(f, Resolved(bySource, f), Value(k))
  <2>1. CASE k = first
    BY <2>1, <1>2, AgreesWithItself
  <2>2. CASE k # first
    BY <2>2, <1>3 DEF Disagreeing
  <2>3. QED
    BY <2>1, <2>2
<1>4. QED
  BY <1>3, AgreementIsTransitive

\* Of two years more than one apart, one is late.
LEMMA OneIsLate ==
    ASSUME NEW bySource, IsFiniteSet(DOMAIN bySource),
           \A s \in Dated(bySource) : bySource[s].year \in Int,
           NEW s \in Dated(bySource), NEW t \in Dated(bySource),
           Distance(bySource[s].year, bySource[t].year) > 1
    PROVE  LateYears(bySource) # {}
<1> DEFINE Year(u) == bySource[u].year
           years == {Year(u) : u \in Dated(bySource)}
           earliest == EarliestYear(bySource)
<1>1. IsFiniteSet(Dated(bySource)) /\ Dated(bySource) # {}
  BY FS_Subset DEF Dated
<1>2. years \in SUBSET Int /\ years # {} /\ IsFiniteSet(years)
  <2>1. [u \in Dated(bySource) |-> Year(u)] \in Surjection(Dated(bySource), years)
    BY DEF Surjection
  <2>2. IsFiniteSet(years)
    <3> HIDE DEF years
    <3>1. QED
      BY <1>1, <2>1, FS_Surjection
  <2>3. QED
    BY <1>1, <2>2
<1>3. earliest \in years /\ \A y \in years : earliest <= y
  <2>1. earliest = CHOOSE m \in years : \A n \in years : m <= n
    BY <1>1 DEF EarliestYear, Min
  <2>2. \E m \in years : \A n \in years : m <= n
    <3> HIDE DEF years
    <3>1. QED
      BY <1>2, MinExists
  <2> HIDE DEF years, earliest
  <2>3. QED
    BY <2>1, <2>2
<1>4. /\ earliest \in Int /\ Year(s) \in Int /\ Year(t) \in Int
      /\ earliest <= Year(s) /\ earliest <= Year(t)
  BY <1>2, <1>3
<1>5. Year(s) - earliest > 1 \/ Year(t) - earliest > 1
  <2> HIDE DEF earliest
  <2>1. QED
    BY <1>4 DEF Distance
<1>6. QED
  BY <1>5 DEF LateYears

\* Every disagreement of two services shows up in the answer.
THEOREM NothingIsLostInTheMerge == Spec => []Reconciled
<1> DEFINE MergeInv == Answered /\ answer.verified =>
                           answer.discrepancies = Discrepancies(BySource)
<1>1. Init => MergeInv
  BY DEF Init, Answered
<1>2. MergeInv /\ [Next]_vars => MergeInv'
  <2> SUFFICES ASSUME MergeInv, [Next]_vars
               PROVE  MergeInv'
    OBVIOUS
  <2>1. CASE AnswerUnverified
    BY <2>1 DEF AnswerUnverified, Answer
  <2>2. CASE AnswerVerified
    <3>1. answer'.discrepancies = Discrepancies(BySource) /\ taken' = taken
      BY <2>2 DEF AnswerVerified, Answer
    <3>2. (Discrepancies(BySource))' = Discrepancies(BySource)
      BY <3>1 DEF BySource
    <3>3. QED
      BY <3>1, <3>2
  <2>3. CASE ~AnswerUnverified /\ ~AnswerVerified
    <3>1. answer' = answer /\ (answer # None => taken' = taken)
      BY <2>3 DEF Next, vars, NotAsked, LookupFailed, RateLimited, NoCandidates,
         Candidates, Looking
    <3>2. taken' = taken => (Discrepancies(BySource))' = Discrepancies(BySource)
      BY DEF BySource
    <3>3. QED
      BY <3>1, <3>2 DEF Answered
  <2>4. QED
    BY <2>1, <2>2, <2>3
<1>3. Backed /\ MergeInv => Reconciled
  <2> SUFFICES ASSUME Backed, MergeInv, Answered, answer.verified,
                      NEW s \in answer.confirmed, NEW t \in answer.confirmed
               PROVE  LET r == taken[s].record
                          q == taken[t].record
                      IN  /\ \A f \in Fields \ {"journal", "pages"} :
                                 /\ \E i, j \in DOMAIN Authority[f] :
                                        Authority[f][i] = s /\ Authority[f][j] = t
                                 /\ Has(r, f) /\ Has(q, f)
                                 /\ ValuesDisagree(f, r[f], q[f])
                                 => Reported(f)
                          /\ /\ Has(r, "year") /\ Has(q, "year")
                             /\ Distance(r.year, q.year) > 1
                             => Reported("year")
    BY DEF Reconciled
  <2> DEFINE r == taken[s].record
             q == taken[t].record
  <2>1. /\ answer.discrepancies = Discrepancies(BySource)
        /\ DOMAIN BySource = DOMAIN taken /\ s \in DOMAIN taken /\ t \in DOMAIN taken
        /\ \A u \in DOMAIN taken : BySource[u] = taken[u].record
    BY DEF Backed, BySource
  <2>2. ASSUME NEW f \in Fields \ {"journal", "pages"},
               NEW i \in DOMAIN Authority[f], NEW j \in DOMAIN Authority[f],
               Authority[f][i] = s, Authority[f][j] = t,
               Has(r, f), Has(q, f), ValuesDisagree(f, r[f], q[f])
        PROVE  Reported(f)
    <3>1. i \in Suppliers(BySource, f) /\ j \in Suppliers(BySource, f)
      BY <2>1, <2>2 DEF Suppliers
    <3>2. ValuesDisagree(f, BySource[Authority[f][i]][f], BySource[Authority[f][j]][f])
      BY <2>1, <2>2
    <3>3. Disagreeing(BySource, f) # {}
      BY <3>1, <3>2, DisagreementShows
    <3>4. [field |-> f, sources |-> {Source(BySource, f)} \cup Disagreeing(BySource, f)]
              \in answer.discrepancies
      BY <2>1, <3>3 DEF Discrepancies
    <3>5. QED
      BY <3>4 DEF Reported
  <2>3. ASSUME Has(r, "year"), Has(q, "year"), Distance(r.year, q.year) > 1
        PROVE  Reported("year")
    <3>1. s \in Dated(BySource) /\ t \in Dated(BySource)
      BY <2>1, <2>3 DEF Dated
    <3>2. \A u \in Dated(BySource) : BySource[u].year \in Int
      BY <2>1, CitationAssumption DEF Dated, Backed
    <3>3. IsFiniteSet(DOMAIN BySource)
      <4>1. IsFiniteSet(1..next - 1)
        BY FS_Interval DEF Backed, Services
      <4>2. [i \in 1..next - 1 |-> Services[i]] \in Surjection(1..next - 1, Seen)
        BY DEF Surjection, Seen
      <4>3. IsFiniteSet(Seen)
        BY <4>1, <4>2, FS_Surjection
      <4>4. DOMAIN BySource \in SUBSET Seen
        BY <2>1 DEF Backed, Seen
      <4>5. QED
        BY <4>3, <4>4, FS_Subset
    <3>4. LateYears(BySource) # {}
      BY <2>1, <2>3, <3>1, <3>2, <3>3, OneIsLate
    <3>5. [field |-> "year", sources |-> Dated(BySource)] \in answer.discrepancies
      BY <2>1, <3>4 DEF Discrepancies
    <3>6. QED
      BY <3>5 DEF Reported
  <2>4. QED
    BY <2>2, <2>3
<1> HIDE DEF MergeInv
<1>4. QED
  BY <1>1, <1>2, <1>3, InitBacked, NextBacked, PTL DEF Spec
=============================================================================
