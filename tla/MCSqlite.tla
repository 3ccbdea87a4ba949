------------------------------ MODULE MCSqlite ------------------------------
(***************************************************************************)
(* SqliteShortener with values for TLC.  A second has four units of time,  *)
(* written with two binary digits after the point.                         *)
(***************************************************************************)
EXTENDS SqliteShortener

CONSTANTS c1, r1, r2, r3

Input(alias, ttl, max) == [url |-> "public", alias |-> alias, ttl |-> ttl, max |-> max]

(* sqlite: r1 creates a rule that expires or is used up; the others race to *)
(* use it, delete it or take its code.                                      *)
SqliteInputs == {Input(c1, 1, 0), Input(Null, 0, 1)}
SqliteWorkload ==
  [r \in Requests |-> CASE r = r1 -> {"create"}
                        [] r = r2 -> {"resolve"}
                        [] r = r3 -> {"create", "resolve", "delete", "get"}]

(* early_purge: creates and sweeps alone.                                   *)
PurgeInputs == {Input(c1, 1, 0)}
PurgeWorkload == [r \in Requests |-> IF r = r1 THEN {"create"} ELSE {"resolve"}]
=============================================================================
