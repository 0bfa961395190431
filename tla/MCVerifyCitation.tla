-------------------------- MODULE MCVerifyCitation --------------------------
(***************************************************************************)
(* Instances of VerifyCitation for TLC.                                    *)
(***************************************************************************)
EXTENDS VerifyProperties, TLC

Cite(doi, pmid, arxiv, title) ==
    [doi |-> doi, pmid |-> pmid, arxiv |-> arxiv, title |-> title]

\* One work cited in two ways that share a key, and in a third that does not.
Mixed == {Cite(None, "p1", "x1", "t1"), Cite(None, None, None, "t1"),
          Cite("d1", None, None, "t1")}
\* Citations that give nothing but a PubMed id.
ByPmid == {Cite(None, "p1", None, None), Cite(None, "p2", None, None)}

Keys == {[doi |-> "d1"], [meta |-> "t1"], [meta |-> None]}
Calls == Permutations(Call)
=============================================================================
