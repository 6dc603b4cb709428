---------------------------- MODULE MCListChecker ----------------------------
(* Small instances of ListChecker. *)
EXTENDS ListChecker

CONSTANTS c1, listA, listB

OneCard        == {c1}
OneContractor  == {listA}
TwoContractors == {listA, listB}
=============================================================================
