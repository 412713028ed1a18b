---------------------------- MODULE MCDashboard ----------------------------
(* Two requests, each by the form, a Diagnose button or another client; a   *)
(* model that answers with text or with two tool uses, for up to two rounds; *)
(* two overviews of two clusters.                                            *)
EXTENDS Dashboard, TLC
CONSTANTS c1, c2

MCReplies == {<<"u1", "u2">>}

=============================================================================
