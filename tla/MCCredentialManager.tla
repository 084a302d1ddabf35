------------------------ MODULE MCCredentialManager ------------------------
(***************************************************************************)
(* Small instances of CredentialManager: two credentials of one operator,   *)
(* and one scope that may be allowed, denied, both or neither.             *)
(***************************************************************************)
EXTENDS CredentialManager, TLC

CONSTANTS k1, k2, o1, s1

TwoIds == {k1, k2}
OneOperator == {o1}
OneScope == {s1}
OneTtl == {2}

\* Ids are only compared, and no property is a liveness property.
Symmetric == Permutations(Ids)
=============================================================================
