---------------------------- MODULE MC_GuidColumn ----------------------------
(* Two rows and two UUIDs, so that rows can hold different values and an  *)
(* overwrite changes the value.  GoodEngines are the engines a GUID column *)
(* is meant to work on; spanner with binary=False is left out because     *)
(* what the spanner driver does with bytes bound to a STRING(32) column is *)
(* not stated by this repository.                                          *)
EXTENDS GuidColumn

MCUUIDs == {"u1", "u2"}
MCRows == {"r1", "r2"}
GoodEngines ==
    {[dialect |-> "postgresql", binary |-> TRUE], [dialect |-> "postgresql", binary |-> FALSE],
     [dialect |-> "sqlite", binary |-> TRUE], [dialect |-> "sqlite", binary |-> FALSE],
     [dialect |-> "oracle", binary |-> TRUE], [dialect |-> "spanner+spanner", binary |-> TRUE]}
(* GUID(binary=False) on Oracle.                                            *)
OracleText == {[dialect |-> "oracle", binary |-> FALSE]}
=============================================================================
