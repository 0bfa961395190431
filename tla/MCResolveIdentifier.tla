------------------------- MODULE MCResolveIdentifier -------------------------
(***************************************************************************)
(* Instances of ResolveIdentifier for TLC: one work, whose identifiers are *)
(* called "a"; a second one, "b", that a service may mistake it for.       *)
(***************************************************************************)
EXTENDS ResolveIdentifier, TLC

\* A record that has the identifiers of the given types.
Record(types, work) == [t \in Type |-> IF t \in types THEN work ELSE None]

Query1 == {[from |-> "arxiv", id |-> "a", to |-> Type],
           [from |-> "arxiv", id |-> "a", to |-> {"doi"}],
           [from |-> "doi", id |-> "a", to |-> {"pmid"}],
           [from |-> "other", id |-> "a", to |-> {"doi"}]}
Keys == {[from |-> "arxiv", id |-> "a"], [from |-> "doi", id |-> "a"]}
Service1 == {"crossref", "pubmed", "openalex", "arxiv"}
\* OpenAlex may take a related work for the one it is asked about.
Records1 ==
    [s \in Service |->
        CASE s = "crossref" -> {Record({"doi"}, "a")}
          [] s = "arxiv" -> {Record({"arxiv", "doi"}, "a")}
          [] s = "pubmed" -> {Record({"doi", "pmid"}, "a")}
          [] s = "openalex" -> {Record({"doi", "pmid", "openalex"}, "b")}]
=============================================================================
