---------------------------- MODULE MCIssueText -----------------------------
(* A small instance of IssueText: the other fields of a listing are empty, *)
(* or as long as they may be and without anything to escape, or with one   *)
(* character to escape, or with nothing else.                              *)
EXTENDS IssueText

OtherTexts ==
    {[accepted |-> 0,  stored |-> 0],
     [accepted |-> 24, stored |-> 24],
     [accepted |-> 25, stored |-> 25],
     [accepted |-> 24, stored |-> 25],
     [accepted |-> 24, stored |-> 48]}
=============================================================================
