------------------------------ MODULE MCParts ------------------------------
(* The parts with small values for TLC. *)
EXTENDS Parts

MessageOf == [m \in {"m1", "m2", "m3"} |-> IF m = "m3" THEN "s2" ELSE "s1"]

\* The first asset's name is its symbol; the second one's is not asked for.
AssetNames == {<<"a1", "q1">>}

Faults == [window |-> 2, conn |-> 2, migrate |-> 2, catalog |-> 1]
=============================================================================
