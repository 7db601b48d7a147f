-------------------------------- MODULE MCFtp --------------------------------
(* Two sessions, on one machine or on two.                                   *)
EXTENDS Ftp

CONSTANTS a, b

MCSessions == {a, b}
MCPlacements == {[s \in MCSessions |-> 1], [s \in MCSessions |-> IF s = a THEN 1 ELSE 2]}
==============================================================================
