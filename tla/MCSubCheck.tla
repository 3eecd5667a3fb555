----------------------------- MODULE MCSubCheck -----------------------------
(* Configurations of the room for the model checker: it is recorded and     *)
(* announced, or only watched; a user may also unsubscribe and subscribe    *)
(* again.                                                                   *)
EXTENDS SubCheck

TwoConfigs == {[auto |-> TRUE, notify |-> TRUE], [auto |-> FALSE, notify |-> FALSE]}
=============================================================================
