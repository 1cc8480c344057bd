---------------------------- MODULE MCDeployment ----------------------------
(***************************************************************************)
(* Instance of Deployment for TLC: a branch whose commits add the workspace  *)
(* schema and then, beside it, the branding tables.                          *)
(***************************************************************************)
EXTENDS Deployment

MCHeadsOf == [c \in 1..LastCommit |->
    IF c = 1 THEN {HEAD_REVISION}
    ELSE IF c <= 4 THEN {WORKSPACE_REVISION} ELSE {WORKSPACE_REVISION, BRANDING_REVISION}]
=============================================================================
