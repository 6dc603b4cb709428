-------------------------- MODULE MCContractorWork --------------------------
(* A small instance of ContractorWork. *)
EXTENDS ContractorWork, TLC
CONSTANTS u1, u2, i1, i2
TwoUsers == {u1, u2}
OneUser  == {u1}
OneOther == {u2}
TwoIssues == {i1, i2}
MessagesPerUser == [u \in TwoUsers |-> IF u = u1 THEN 4 ELSE 0]
IssuesAlike == Permutations(TwoIssues)
=============================================================================
