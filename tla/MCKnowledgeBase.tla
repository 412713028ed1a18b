-------------------------- MODULE MCKnowledgeBase --------------------------
(* Two runs of one tenant over a file that is edited between them, one of   *)
(* them over a second file whose first edition is empty; and a run of       *)
(* another tenant, whose role the row policy binds, over a file of the same *)
(* name.                                                                    *)
EXTENDS KnowledgeBase, TLC
CONSTANTS night, again, other, db, oom, payments, checkout

MCFiles == (night :> <<oom, db>>) @@ (again :> <<db>>) @@ (other :> <<db>>)
MCTenantOf == (night :> payments) @@ (again :> payments) @@ (other :> checkout)
MCBypasses == (night :> TRUE) @@ (again :> TRUE) @@ (other :> FALSE)
MCChunksOf == (db :> <<2, 1>>) @@ (oom :> <<0, 1>>)

=============================================================================
