---------------------------- MODULE MCMainLoop ----------------------------
(* A small instance of MainLoop: two webhooks, two reports. *)
EXTENDS MainLoop
CONSTANTS w1, w2
TwoWebhooks == {w1, w2}
=============================================================================
