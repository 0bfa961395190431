------------------------------ MODULE MCMatching ------------------------------
(***************************************************************************)
(* A paper, its preprint and its neighbours as services may hold them, and *)
(* citations of it: complete, partial, misspelt, by identifier, with the   *)
(* fields of another paper, and of a paper with a short title by an author *)
(* whose family name is two words.                                         *)
(***************************************************************************)
EXTENDS MatchProperties

Word(w) == [word |-> w, initial |-> FALSE, comma |-> FALSE]
Initials == [word |-> "initials", initial |-> TRUE, comma |-> FALSE]
Text(tokens) == [kind |-> "string", tokens |-> tokens]
Name(family, given) == [kind |-> "dict", family |-> family, given |-> given]
Id(id, written) == [id |-> id, written |-> written]

Polack == Name(<<Word("polack")>>, <<Word("fernando")>>)
Thomas == Name(<<Word("thomas")>>, <<Initials>>)
DeLacy == Name(<<Word("de"), Word("lacy")>>, <<Word("antonio")>>)

\* The title cited, one nearly equal, one alike, another; and a short one.
LikenessDef ==
    LET titles == {"vaccine", "vaccines", "vaccine trial", "mesh", "tatme"}
        like(a, b) == CASE a = b -> 20
                        [] {a, b} = {"vaccine", "vaccines"} -> 19
                        [] {a, b} = {"vaccine", "vaccine trial"} -> 15
                        [] OTHER -> 6
    IN  [a \in titles |-> [b \in titles |-> like(a, b)]]

BareNameDef ==
    [j \in {"nejm", "new england journal of medicine", "lancet"} |-> j]
AbbreviatedDef ==
    [j \in {"nejm"} |-> "new england journal of medicine"]

RecordDef == {
    [title |-> "vaccine", authors |-> <<Polack, Thomas>>, year |-> 2020,
     journal |-> "new england journal of medicine",
     doi |-> Id("d1", "plain"), pages |-> [first |-> 2603, rest |-> "2615"],
     citation_count |-> 100],
    [title |-> "vaccines", authors |-> <<Polack, Thomas>>, year |-> 2021,
     journal |-> "nejm", pmid |-> Id("p1", "plain"),
     pages |-> [first |-> 2603, rest |-> "15"], citation_count |-> 130],
    [title |-> "vaccine", authors |-> <<Polack>>, year |-> 2023,
     doi |-> Id("d2", "plain"), arxiv_id |-> Id("a1", "v1")],
    [title |-> "vaccine trial", authors |-> <<Polack, Thomas>>, year |-> 2020,
     journal |-> "nejm"],
    [title |-> "vaccine", authors |-> <<Thomas, Polack>>,
     journal |-> "lancet", arxiv_id |-> Id("a1", "plain")],
    [title |-> "mesh", authors |-> <<Polack>>, year |-> 2020,
     doi |-> Id("d1", "upper")],
    [title |-> "tatme", authors |-> <<DeLacy>>, year |-> 2015,
     journal |-> "lancet"],
    [title |-> "vaccine"]}

CitationDef == {
    [title |-> "vaccine", year |-> 2020, journal |-> "nejm",
     authors |-> <<Text(<<Word("polack"), Initials>>),
                   Text(<<Word("thomas"), Initials>>)>>],
    [title |-> "vaccine", year |-> 2021, arxiv_id |-> Id("a1", "v2"),
     authors |-> <<Text(<<Word("fernando"), Word("polack")>>)>>],
    [title |-> "vaccine", year |-> 2021,
     authors |-> <<Text(<<Word("thomas"), Initials>>), Polack>>],
    [title |-> "vaccine", pmid |-> Id("p1", "zeros")],
    [title |-> "vaccine", year |-> 2022],
    [doi |-> Id("d1", "url"), year |-> 2017],
    [doi |-> Id("d1", "plain"), year |-> 2015, journal |-> "lancet",
     authors |-> <<Text(<<Word("de"), Word("lacy"), Initials>>)>>],
    [title |-> "tatme", year |-> 2016, journal |-> "lancet",
     authors |-> <<Text(<<Word("de"), Word("lacy"), Initials>>)>>],
    [title |-> "tatme", year |-> 2015,
     authors |-> <<Text(<<Word("antonio"), Word("de"), Word("lacy")>>),
                   Text(<<Initials, Initials>>)>>]}
=============================================================================
