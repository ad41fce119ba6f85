----------------------------- MODULE MCStartup ------------------------------
(* Instances of Startup for TLC. *)
EXTENDS Startup
\* Small limits, the largest, and the first ones that no handle could tell apart.
OneRequest == {[db |-> 2, cursors |-> 1]}
Limits == {[db |-> 1, cursors |-> 2], [db |-> 32767, cursors |-> 65535],
           [db |-> 32769, cursors |-> 65537]}
\* Failures after which sqlo_init gives its mutex back.
Unlocking == {"getenv", "envcreate", "malloc", "sessionfile"}
=============================================================================
