---------------------------- MODULE MCColumnText ----------------------------
(* Instances of ColumnText for TLC: every NUMBER there is, and short strings. *)
EXTENDS ColumnText
MCColumns == NumberTypes
  \union [type : {"char"}, prec : {0}, scale : {0}, dbsize : {1, 3, 4000}]
  \union [type : {"raw"}, prec : {0}, scale : {0}, dbsize : {1, 2000}]
  \union [type : {"rowid", "date", "long", "lob"}, prec : {0}, scale : {0}, dbsize : {10}]
=============================================================================
