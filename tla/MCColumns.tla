----------------------------- MODULE MCColumns ------------------------------
(* Small instances of Columns for TLC. *)
EXTENDS Columns
\* A statement that is no query, and select lists with short and long columns, a
\* LONG, and one of a type that has no buffer.
MCLists == {<< >>, <<3>>, <<1, 9>>, <<4, 1>>}
\* Failures after which every property holds.
HarmlessFaults == {"malloc", "bind", "define", "execute", "name", "param", "dtype"}
=============================================================================
