----------------------------- MODULE MCDeletion -----------------------------
(***************************************************************************)
(* Instances of RedkeyDeletion for TLC.                                    *)
(***************************************************************************)
EXTENDS RedkeyDeletion

AnyEdit == <<{0, 3, 5}, {0, 3, 5}>>

\* A Redkey, perhaps at zero, and a second one that is scaled to zero; two Redkeys
\* that are both edited.
ThenDown == << <<{0, 3}>>, <<{3}, {0}>> >>
BothEdited == << <<{3}, {5}>>, <<{3}, {5}>> >>
=============================================================================
