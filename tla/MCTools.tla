------------------------------ MODULE MCTools -------------------------------
(* One identity from the environment, one that is minted. *)
EXTENDS Tools
CONSTANTS user, admin
MCPlans == {<<user>>, <<user, "none">>, <<user, admin>>}
=============================================================================
