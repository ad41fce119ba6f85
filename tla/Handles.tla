------------------------------ MODULE Handles -------------------------------
(***************************************************************************)
(* The handle of a statement, which packs the index of its connection in   *)
(* _dbv and that of its slot in the connection's vector into an int of 32  *)
(* bits.                                                                   *)
(***************************************************************************)
EXTENDS Integers

SQLO_MAX_DB      == 32767
SQLO_MAX_CURSORS == 65535
SQLO_STH_INIT    == -1

INT_MAX == 2147483647

\* The slot has 16 bits, so that the or of both parts is their sum.
ENCODE_STH(sth, dbh) == 65536 * dbh + sth

\* The masks of 16 and of 15 bits, of a negative number in two's complement too.
DECODE_STH(handle) == handle % 65536
DECODE_DBH(handle) == (handle \div 65536) % 32768

\* VALID_DBH_RANGE, and the test of the slot in _sth2stp, in a library of so many
\* connections and slots.
InRange(handle, dbs, cursors) ==
  DECODE_DBH(handle) < dbs /\ DECODE_STH(handle) < cursors
=============================================================================
