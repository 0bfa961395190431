------------------------------- MODULE Matching -------------------------------
(***************************************************************************)
(* What verify_citation (server.py) makes of the answers it has gathered:  *)
(* the candidates of one service after another are scored, the best is     *)
(* taken or kept as rejected, and the records taken are merged into the    *)
(* answer.  VerifyCitation models the calls around this, and leaves open   *)
(* what is decided here.                                                   *)
(***************************************************************************)
EXTENDS CanonicalMerge

CONSTANTS
    Citation,  \* the citations asked about, each with a doi, pmid or title
    Record,    \* the records the services may hold, without their source
    Rows,      \* how many candidates a search may return (5 in the code)
    Configured \* the services there is a client for

\* The order of the clients dict, which the gathered results keep.
Services == <<"crossref", "pubmed", "openalex", "semantic_scholar", "arxiv">>

ASSUME CitationAssumption ==
    \A c \in Citation : \A r \in Record :
        /\ Has(c, "title") /\ Has(r, "title") =>
               c.title \in DOMAIN Likeness
                   /\ r.title \in DOMAIN Likeness[c.title]
        /\ Has(c, "year") => c.year \in Int
        /\ Has(r, "year") => r.year \in Int
ASSUME AuthorAssumption ==
    \A dict \in Citation \cup Record :
        Has(dict, "authors") => dict.authors \in Seq(Author) \ {<<>>}
ASSUME RowsAssumption == Rows \in Nat
ASSUME NoneAssumption == None \notin Reasons /\ None \notin Seq(Author)

VARIABLES
    citation,  \* input_citation
    next,      \* the position in Services of the result looked at next
    taken,     \* matched_records and per_db_score: service to record, score
    rejected,  \* rejected_scores, in order
    failed,    \* databases_failed
    limited,   \* services that warned of rate limiting
    answer     \* the result, None until it is built

vars == <<citation, next, taken, rejected, failed, limited, answer>>

Init ==
    /\ citation \in Citation
    /\ next = 1
    /\ taken = <<>>
    /\ rejected = <<>>
    /\ failed = {}
    /\ limited = {}
    /\ answer = None

\* arXiv is asked only about citations with an arXiv id.
Asked(service) ==
    service \in Configured /\ (service = "arxiv" => Has(citation, "arxiv_id"))

\* How many candidates _fetch_from_db can return: one by identifier, Rows
\* by title.
MostCandidates(service) ==
    CASE Has(citation, "doi") -> 1
      [] ~Has(citation, "doi") /\ Has(citation, "pmid")
             /\ service \in {"pubmed", "semantic_scholar"} -> 1
      [] ~Has(citation, "doi") /\ Has(citation, "arxiv_id")
             /\ service = "arxiv" -> 1
      [] OTHER -> IF Has(citation, "title") THEN Rows ELSE 0

Looking(service) ==
    /\ answer = None
    /\ next <= Len(Services)
    /\ service = Services[next]
    /\ next' = next + 1
    /\ UNCHANGED <<citation, answer>>

NotAsked(service) ==
    /\ Looking(service)
    /\ ~Asked(service)
    /\ UNCHANGED <<taken, rejected, failed, limited>>

\* A lookup that raised, or, at arXiv, met the rate limit.
LookupFailed(service) ==
    /\ Looking(service)
    /\ Asked(service)
    /\ failed' = failed \cup {service}
    /\ UNCHANGED <<taken, rejected, limited>>

RateLimited(service) ==
    /\ Looking(service)
    /\ Asked(service) /\ service = "arxiv"
    /\ limited' = limited \cup {service}
    /\ UNCHANGED <<taken, rejected, failed>>

NoCandidates(service) ==
    /\ Looking(service)
    /\ Asked(service)
    /\ UNCHANGED <<taken, rejected, failed, limited>>

\* _select_best_candidate on the candidates of a service; a candidate's
\* score is a choice only where rounding decides.
Candidates(service) ==
    /\ Looking(service)
    /\ Asked(service)
    /\ \E n \in 1..MostCandidates(service) :
       \E records \in [1..n -> Record] :
       \E scores \in [1..n ->
              UNION {ScoreMatch(citation, records[i]) : i \in 1..n}] :
           LET best == Best(scores) IN
           /\ \A i \in 1..n : scores[i] \in ScoreMatch(citation, records[i])
           /\ IF scores[best].quality # "none"
              THEN /\ taken' = [s \in DOMAIN taken \cup {service} |->
                                   IF s = service
                                   THEN [record |-> records[best],
                                         score |-> scores[best]]
                                   ELSE taken[s]]
                   /\ UNCHANGED rejected
              ELSE /\ rejected' = Append(rejected, scores[best])
                   /\ UNCHANGED taken
    /\ UNCHANGED <<failed, limited>>

-----------------------------------------------------------------------------
BySource == [s \in DOMAIN taken |-> taken[s].record]

\* The values of per_db_score, at the positions of their services.
Scores ==
    [i \in {j \in DOMAIN Services : Services[j] \in DOMAIN taken} |->
        taken[Services[i]].score]

\* Mutant of Representative: of equal confidences the last one is kept.
RepresentativeLast ==
    Scores[CHOOSE i \in DOMAIN Scores :
               \A j \in DOMAIN Scores :
                   \/ Scores[i].confidence > Scores[j].confidence
                   \/ Scores[i].confidence = Scores[j].confidence /\ i >= j]

\* max(per_db_score.items(), ...): the first of the highest confidence.
Representative ==
    Scores[CHOOSE i \in DOMAIN Scores : Leads(Scores, i, DOMAIN Scores)]

\* Mutant of Echoed: the last word is taken for the family name.
EchoedLast(author) ==
    IF author.kind = "dict" THEN author
    ELSE LET name == author.tokens IN
         [kind |-> "dict", family |-> SubSeq(name, Len(name), Len(name)),
          given |-> SubSeq(name, 1, Len(name) - 1)]

\* The name an unverified answer gives back for an author: the surname, and
\* what parse_author_string leaves of the name.
Echoed(author) ==
    IF author.kind = "dict" THEN author
    ELSE LET name == author.tokens
             span == SurnameSpan(name)
             surname == Surname(name)
         IN  [kind |-> "dict",
              family |-> [i \in DOMAIN surname |->
                             [surname[i] EXCEPT !.comma = FALSE]],
              given |-> IF span[1] = 1
                        THEN SubSeq(name, span[2] + 1, Len(name))
                        ELSE SubSeq(name, 1, span[1] - 1)]

\* _empty_canonical_from_input
EmptyCanonical ==
    [f \in Fields \cup {"year", "citation_count", "sources"} |->
        CASE f \in {"openalex_id", "paper_id", "journal_iso_abbrev",
                    "abstract", "citation_count", "type"} -> None
          [] f = "sources" -> {}
          [] f = "authors" ->
                 IF Has(citation, "authors")
                 THEN [i \in DOMAIN citation.authors |->
                          Echoed(citation.authors[i])]
                 ELSE None
          [] OTHER -> Get(citation, f)]

\* The first rejected score of the highest confidence.
MostInformative ==
    IF rejected = <<>> THEN None
    ELSE rejected[CHOOSE i \in DOMAIN rejected :
                      Leads(rejected, i, DOMAIN rejected)]

Answer(verified, score, canonical, discrepancies) ==
    [verified |-> verified, confidence |-> score.confidence,
     quality |-> score.quality, review |-> score.quality = "low",
     confirmed |-> DOMAIN taken, canonical |-> canonical,
     discrepancies |-> discrepancies,
     \* Whose score_breakdown is shown.
     breakdown |-> IF DOMAIN taken # {} THEN score ELSE MostInformative,
     \* The warning that too few fields were cited for "high".
     capWarned |-> /\ score.quality = "medium"
                   /\ \E s \in DOMAIN taken : taken[s].score.capped]

\* No service confirmed.
AnswerUnverified ==
    /\ answer = None /\ next > Len(Services) /\ DOMAIN taken = {}
    /\ answer' = Answer(FALSE, Score(0, "none", None, FALSE, FALSE),
                        EmptyCanonical, {})
    /\ UNCHANGED <<citation, next, taken, rejected, failed, limited>>

AnswerVerified ==
    /\ answer = None /\ next > Len(Services) /\ DOMAIN taken # {}
    /\ answer' = Answer(Representative.quality # "none", Representative,
                        Canonical(BySource), Discrepancies(BySource))
    /\ UNCHANGED <<citation, next, taken, rejected, failed, limited>>

Next ==
    \/ \E s \in DOMAIN Services :
           LET service == Services[s] IN
           \/ NotAsked(service)
           \/ LookupFailed(service)
           \/ RateLimited(service)
           \/ NoCandidates(service)
           \/ Candidates(service)
    \/ AnswerUnverified
    \/ AnswerVerified

Spec == Init /\ [][Next]_vars
=============================================================================
