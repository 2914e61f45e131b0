------------------------------ MODULE MCCharCache ------------------------------
(* Two players of one name on two servers. *)
EXTENDS CharCache

CONSTANTS name, here, there

TwoMembers == {<<name, here>>, <<name, there>>}
================================================================================
