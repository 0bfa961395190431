---------------------------- MODULE MatchProperties ----------------------------
(***************************************************************************)
(* What an answer of verify_citation must say about the records it was     *)
(* built from.                                                             *)
(***************************************************************************)
EXTENDS Matching

ScoreOf(whole) ==
    [confidence : 0..whole, quality : Quality,
     rejected : Reasons \cup {None}, capped : BOOLEAN,
     byId : BOOLEAN]

\* Type invariant.  It bounds every confidence by that of a perfect match:
\* the weights applied are shares of one, whatever is cited and however
\* short the title is.
TypeOK ==
    /\ citation \in Citation
    /\ next \in 1..Len(Services) + 1
    /\ DOMAIN taken \subseteq {Services[i] : i \in 1..next - 1}
    /\ \A s \in DOMAIN taken :
           /\ taken[s].record \in Record
           /\ taken[s].score \in ScoreOf(Whole(citation))
           /\ taken[s].score.quality # "none"
    /\ \A i \in DOMAIN rejected : rejected[i] \in ScoreOf(Whole(citation))
    /\ failed \subseteq {Services[i] : i \in 1..next - 1} \ DOMAIN taken
    /\ limited \subseteq {"arxiv"} \ DOMAIN taken
    /\ answer # None =>
           answer.quality \in Quality /\ answer.confidence \in 0..Whole(citation)

Answered == answer # None

\* Every answer is backed: each record taken has a score score_match gives
\* it and passed; an answer says verified exactly when a record was taken,
\* and then has the quality and the confidence of one of them, the first in
\* the order of the services of those with the highest confidence; an answer
\* that is not verified says "none", with confidence zero.
Backed ==
    /\ citation \in Citation
    /\ next \in 1..Len(Services) + 1
    /\ DOMAIN taken \subseteq {Services[i] : i \in 1..next - 1}
    /\ \A s \in DOMAIN taken :
           /\ taken[s].record \in Record
           /\ taken[s].score \in ScoreMatch(citation, taken[s].record)
           /\ taken[s].score.quality # "none"
    /\ Answered =>
           /\ answer.confirmed = DOMAIN taken
           /\ answer.verified <=> DOMAIN taken # {}
           /\ answer.verified =>
                  \E i \in DOMAIN Scores :
                      /\ Leads(Scores, i, DOMAIN Scores)
                      /\ answer.quality = Scores[i].quality
                      /\ answer.confidence = Scores[i].confidence
           /\ ~answer.verified =>
                  answer.quality = "none" /\ answer.confidence = 0

\* A record that was taken without an identifier in common does not
\* contradict the citation: years within one, the first author the same
\* unless the titles are nearly equal, the title alike.
Agrees(record) ==
    /\ Has(citation, "year") /\ Has(record, "year") =>
           citation.year - record.year \in {-1, 0, 1}
    /\ Has(citation, "title") => TitleSim(citation, record) >= 14
    /\ Has(citation, "authors") /\ Has(record, "authors")
           /\ TitleSim(citation, record) < 19 =>
           FirstAuthorMatch(citation, record) = 20

\* No answer says verified on the strength of a record the guards of
\* score_bibliographic_match are there to keep out.
VerifiedAgrees ==
    Answered /\ answer.verified =>
        \A s \in answer.confirmed :
            \/ IdentifierMatch(citation, taken[s].record)
            \/ Agrees(taken[s].record)

\* "high" is earned: by an identifier, or by a record with nearly the cited
\* title whose first author is the one cited and whose year is within one
\* of the one cited, for three or more cited fields.  No guard asks for
\* this of a record that lacks authors or a year: it follows from the
\* weights and the threshold.
Earned(record) ==
    \/ IdentifierMatch(citation, record)
    \/ /\ Populated(citation) >= 3
       /\ TitleSim(citation, record) >= 19
       /\ Has(citation, "authors") => FirstAuthorMatch(citation, record) = 20
       /\ Has(citation, "year") => YearScore(citation, record) > 0

HighIsEarned ==
    Answered /\ answer.quality = "high" =>
        \E s \in answer.confirmed : Earned(taken[s].record)

Reported(field) ==
    \E d \in answer.discrepancies : d.field = field

\* No disagreement of two services is lost in the merge: two confirmed
\* records with different identifiers, titles or author lists, in a field
\* both services are asked for, or with years more than one apart, show up
\* as a discrepancy, although each is compared with the resolved value only.
Reconciled ==
    Answered /\ answer.verified =>
        \A s, t \in answer.confirmed :
            LET r == taken[s].record
                q == taken[t].record
            IN  /\ \A f \in Fields \ {"journal", "pages"} :
                       /\ \E i, j \in DOMAIN Authority[f] :
                              Authority[f][i] = s /\ Authority[f][j] = t
                       /\ Has(r, f) /\ Has(q, f)
                       /\ ValuesDisagree(f, r[f], q[f])
                       => Reported(f)
                /\ /\ Has(r, "year") /\ Has(q, "year")
                   /\ Distance(r.year, q.year) > 1
                   => Reported("year")

\* The forms parse_author_string promises to read: "Family, Given", "Family
\* Initials", and "Given Family" where the family name is one word and no
\* comma is in the name.
Forms(author) ==
    LET family == author.family
        n == Len(family)
        string(tokens) == [kind |-> "string", tokens |-> tokens]
        western == author.given \o family
    IN  IF n = 0 \/ author.given = <<>> \/ family[n].initial THEN {}
        ELSE {string([family EXCEPT ![n].comma = TRUE] \o author.given),
              string(Append(family, [word |-> "initials", initial |-> TRUE,
                                     comma |-> FALSE]))}
             \cup (IF n = 1 /\ \A i \in DOMAIN western : ~western[i].comma
                   THEN {string(western)} ELSE {})

\* Citing the first author of a confirmed record by name, in any of these
\* forms, never makes the record a worse match than the name cited did.
OwnAuthorHelps ==
    \A s \in DOMAIN taken :
        LET record == taken[s].record IN
        Has(citation, "authors") /\ Has(record, "authors")
            /\ record.authors[1].kind = "dict" =>
            \A form \in Forms(record.authors[1]) :
                LET named == [citation EXCEPT !.authors[1] = form] IN
                \A score \in ScoreMatch(named, record) :
                    /\ score.rejected = None
                    /\ score.confidence >= taken[s].score.confidence

\* "Smith Jones,": a family name of several words, and nothing after its
\* comma.  Given back without it, it would be read as "Given Family".
Unfinished(author) ==
    /\ author.kind = "string"
    /\ LET name == author.tokens
       IN  /\ Len(name) > 1 /\ name[Len(name)].comma
           /\ \A i \in 1..Len(name) - 1 : ~name[i].comma

\* An unverified answer gives the authors back as they were cited: parsed
\* into family and given name, each has the surname it had, unless its name
\* was unfinished.
EchoKeepsSurnames ==
    Answered /\ ~answer.verified /\ Has(citation, "authors") =>
        /\ DOMAIN answer.canonical.authors = DOMAIN citation.authors
        /\ \A i \in DOMAIN citation.authors :
               Unfinished(citation.authors[i]) \/
               NormalizedSurname(answer.canonical.authors[i])
                   = NormalizedSurname(citation.authors[i])

\* A record without the identifier that agrees in every field cited, as far
\* as the similarities can tell: its confidence is 1.0 as well.
Perfect(record) ==
    /\ ~IdentifierMatch(citation, record)
    /\ WeightedScore(citation, record) = Whole(citation)

\* An identifier found by one service is as certain as anything the others
\* say: no record matched by its fields outweighs it, whichever comes first.
\* "high" is lost only in a tie: to a perfect record of a service earlier in
\* the order, and only where the fields of no record could be "high", with
\* fewer than three cited, or the title not cited.
IdentifierIsCertain ==
    Answered =>
        \A i \in DOMAIN Services :
            /\ Services[i] \in answer.confirmed
            /\ IdentifierMatch(citation, taken[Services[i]].record)
            => /\ answer.confidence = Whole(citation)
               /\ \/ answer.quality = "high"
                  \/ /\ Populated(citation) < 3 \/ ~Has(citation, "title")
                     /\ \E j \in 1..i - 1 :
                            /\ Services[j] \in answer.confirmed
                            /\ Perfect(taken[Services[j]].record)
=============================================================================
