-------------------------- MODULE MCJiraAssignee --------------------------
(* Small instances of JiraAssignee: ann's address in two spellings. *)
EXTENDS JiraAssignee
CONSTANTS i1, i2, ann, Ann, bob
TwoIssues == {i1, i2}
Addresses == {ann, Ann, bob}
Lower == [e \in Assignees |-> IF e = Ann THEN ann ELSE e]
=============================================================================
