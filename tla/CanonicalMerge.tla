---------------------------- MODULE CanonicalMerge ----------------------------
(***************************************************************************)
(* Layer 3 of scoring.py: the records of the services that confirmed a     *)
(* citation are merged into one canonical record, and what they disagree   *)
(* on is listed.  `bySource' maps each of these services to its record,    *)
(* as _by_source does.                                                     *)
(***************************************************************************)
EXTENDS MatchScore, FiniteSetsExt

\* _AUTHORITY: for each field the services asked for it, best first.
Authority ==
    [doi |-> <<"crossref", "openalex", "semantic_scholar", "pubmed", "arxiv">>,
     pmid |-> <<"pubmed", "crossref", "openalex", "semantic_scholar">>,
     arxiv_id |-> <<"arxiv", "semantic_scholar">>,
     openalex_id |-> <<"openalex">>,
     paper_id |-> <<"semantic_scholar">>,
     title |-> <<"crossref", "pubmed", "openalex", "semantic_scholar", "arxiv">>,
     authors |-> <<"crossref", "openalex", "pubmed", "semantic_scholar",
                   "arxiv">>,
     journal |-> <<"crossref", "openalex", "pubmed", "semantic_scholar">>,
     journal_iso_abbrev |-> <<"pubmed">>,
     volume |-> <<"crossref", "pubmed", "openalex">>,
     issue |-> <<"crossref", "pubmed", "openalex">>,
     pages |-> <<"crossref", "pubmed", "openalex">>,
     abstract |-> <<"pubmed", "semantic_scholar", "openalex">>,
     type |-> <<"crossref", "openalex", "pubmed">>]

Fields == DOMAIN Authority

\* _values_disagree on two values that are present: identifiers by what the
\* normalizers leave, authors by their surnames, pages by the first number
\* if both have one, the others as normalized text.
ValuesDisagree(field, one, other) ==
    CASE field \in {"doi", "pmid", "arxiv_id", "openalex_id", "paper_id"} ->
             one.id # other.id
      [] field = "journal" -> ~JournalsMatch(one, other)
      [] field = "authors" -> SurnameList(one) # SurnameList(other)
      [] field = "pages" -> /\ one.first # None /\ other.first # None
                            /\ one.first # other.first
      [] OTHER -> one # other

\* Where in the order of authority the services stand that supply a field.
Suppliers(bySource, field) ==
    {i \in DOMAIN Authority[field] :
        /\ Authority[field][i] \in DOMAIN bySource
        /\ Has(bySource[Authority[field][i]], field)}

\* _resolve_by_authority: the first of them, and its value.
Source(bySource, field) == Authority[field][First(Suppliers(bySource, field))]

Resolved(bySource, field) ==
    IF Suppliers(bySource, field) = {} THEN None
    ELSE bySource[Source(bySource, field)][field]

\* Those after it whose value disagrees with it.
Disagreeing(bySource, field) ==
    {Authority[field][i] : i \in {j \in Suppliers(bySource, field) :
        /\ j # First(Suppliers(bySource, field))
        /\ ValuesDisagree(field, Resolved(bySource, field),
                          bySource[Authority[field][j]][field])}}

Dated(bySource) == {s \in DOMAIN bySource : Has(bySource[s], "year")}

\* _earliest_year
EarliestYear(bySource) ==
    IF Dated(bySource) = {} THEN None
    ELSE Min({bySource[s].year : s \in Dated(bySource)})

\* Mutant of LateYears: a spread of two years is let pass.
LateYearsByTwo(bySource) ==
    {s \in Dated(bySource) :
        bySource[s].year - EarliestYear(bySource) > 2}

LateYears(bySource) ==
    {s \in Dated(bySource) :
        bySource[s].year - EarliestYear(bySource) > 1}

\* _citation_counts: what the two services that count report.
CitationCounts(bySource) ==
    [s \in {"openalex", "semantic_scholar"} \cap
               {t \in DOMAIN bySource : Has(bySource[t], "citation_count")}
        |-> bySource[s].citation_count]

\* More than 20 % apart, relative to the larger; not asked of two zeros.
CountsDiffer(counts) ==
    /\ DOMAIN counts = {"openalex", "semantic_scholar"}
    /\ LET m == counts.openalex
           n == counts.semantic_scholar
       IN  5 * Distance(m, n) > Max({m, n})

\* merge_canonical_records
Canonical(bySource) ==
    [f \in Fields \cup {"year", "citation_count", "sources"} |->
        CASE f = "year" -> EarliestYear(bySource)
          [] f = "citation_count" -> CitationCounts(bySource)
          [] f = "sources" -> DOMAIN bySource
          [] OTHER -> Resolved(bySource, f)]

\* The discrepancies: field and services whose values are shown.
Discrepancies(bySource) ==
    {[field |-> f, sources |-> {Source(bySource, f)}
                                   \cup Disagreeing(bySource, f)] :
        f \in {g \in Fields : Disagreeing(bySource, g) # {}}}
    \cup {[field |-> "year", sources |-> Dated(bySource)] :
             s \in LateYears(bySource)}
    \cup {[field |-> "citation_count",
           sources |-> {"openalex", "semantic_scholar"}] :
             c \in {d \in {CitationCounts(bySource)} : CountsDiffer(d)}}
=============================================================================
