---------------------------- MODULE MCBulkVerify ----------------------------
(***************************************************************************)
(* Instances of BulkVerify for TLC: one batch, of at most two citations,    *)
(* beside one single call.                                                 *)
(***************************************************************************)
EXTENDS BulkVerify, TLC

CONSTANTS b1, c1, c2, c3

Cite(title) == [doi |-> None, pmid |-> None, arxiv |-> None, title |-> title]
WithInvalid == {Cite("t1"), Cite(None)}
Keys == {KeyOf(c) : c \in Citation}
TwoSlots == b1 :> <<c1, c2>>
=============================================================================
