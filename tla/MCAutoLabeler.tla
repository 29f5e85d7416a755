--------------------------- MODULE MCAutoLabeler ---------------------------
(* One cluster with two drafts, both labelled in one group of run b.        *)
EXTENDS AutoLabeler
MCItems == {1}
MCOutputs == {11, 12}
MCItemOf == [o \in MCOutputs |-> 1]
MCRelabel == {1}
MCConverted == {12}
=============================================================================
