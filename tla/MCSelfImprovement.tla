------------------------- MODULE MCSelfImprovement -------------------------
(* An instance of Commands and SelfImprovement: one parameter per strategy. *)
EXTENDS Commands

Takes == [s \in {"score", "rsi"} |-> {s \o ".period"}]
=============================================================================
