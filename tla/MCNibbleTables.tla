-------------------------- MODULE MCNibbleTables --------------------------
(* NibbleTables for TLC: one table of each kind that hoku.setup asks for.   *)
EXTENDS NibbleTables

CONSTANTS angle, dot, sphere, plane

SetupOrder == <<angle, dot, sphere, plane>>
============================================================================
