----------------------------- MODULE ColumnText -----------------------------
(***************************************************************************)
(* One output column of a query whose columns the library defines: the     *)
(* size of its buffer, computed from what OCI says of the column, and the  *)
(* way of a value from the fetch through sqlo_values to the application.   *)
(* Every column is defined as a string, SQLT_STR.                          *)
(***************************************************************************)
EXTENDS Integers, Sequences

CONSTANTS
  Columns,     \* the columns of the tables: type, precision, scale, dbsize
  MaxLong,     \* _max_long_size
  Truncates    \* whether a value may be longer than its buffer

Types == {"number", "char", "rowid", "date", "long", "raw", "lob"}

\* An Oracle NUMBER(prec, scale), with prec = 0 for one without a precision.
NumberTypes ==
  [type : {"number"}, prec : 0 .. 38, scale : -84 .. 127, dbsize : {22}]

ASSUME ColumnAssumption ==
  \A c \in Columns : /\ c.type \in Types /\ c.dbsize \in Nat
                     /\ c.type = "number" => c \in NumberTypes
ASSUME LongAssumption == MaxLong \in Nat \ {0} /\ Truncates \in BOOLEAN

VARIABLES
  col,      \* the column
  size,     \* its outv_size, and whether it is supported
  buf,      \* the bytes of its buffer
  rlen,     \* rlenv, the length of the value
  ind,      \* oindv, the indicator
  value,    \* the value in the database
  asked,    \* whether sqlo_values was asked to strip since the fetch
  given     \* the string and the length the application got last

vars == <<col, size, buf, rlen, ind, value, asked, given>>

\* What a column holds: blanks, other characters, or NULL.
Chars == {"x", " "}
Null  == <<"null">>
Values(n) == {Null} \union UNION {[1 .. k -> Chars] : k \in 1 .. n}
None  == [read |-> FALSE, text |-> << >>, len |-> 0]
NullInd == 65535      \* -1 as a ub2

-----------------------------------------------------------------------------
(* The size of the buffer.                                                 *)

\* The attributes are read into a ub1, a negative scale among them.
Byte(n) == n % 256

Larger(m, n) == IF m < n THEN n ELSE m

\* Mutant: the digits after the decimal point are not thought of.
NumberSizeByPrec(prec, scale, least) == IF prec > 0 THEN Larger(prec + 3, least) ELSE least

\* A sign, a decimal point and the terminator beside the digits.
NumberSize(prec, scale, least) ==
  IF scale > prec THEN Larger(scale + 3, least)
  ELSE IF prec > 0 THEN Larger(prec + 3, least) ELSE least

CalcObufSize(c) ==
  CASE c.type = "number" -> NumberSize(Byte(c.prec), Byte(c.scale), 2 * c.dbsize + 3)
    [] c.type = "char"   -> c.dbsize + 1
    [] c.type = "rowid"  -> 32
    [] c.type = "date"   -> 64
    [] c.type = "long"   -> MaxLong
    [] c.type = "raw"    -> 8 * c.dbsize + 1
    [] c.type = "lob"    -> 0

\* The longest text of a value of the column, as Oracle writes it: a sign, a decimal
\* point, the digits of a NUMBER(p, s) on both sides of it; up to 40 characters if
\* it has no precision; two hexadecimal digits for a byte.
LongestText(c) ==
  CASE c.type = "number" /\ c.prec > 0 ->
         1 + (IF c.scale <= 0 THEN c.prec - c.scale
              ELSE 1 + (IF c.scale > c.prec THEN c.scale ELSE c.prec))
    [] c.type = "number" /\ c.prec = 0 -> 42
    [] c.type = "char"  -> c.dbsize
    [] c.type = "rowid" -> 18
    [] c.type = "date"  -> 35
    [] c.type = "long"  -> MaxLong - 1
    [] c.type = "raw"   -> 2 * c.dbsize
    [] c.type = "lob"   -> 0

-----------------------------------------------------------------------------
(* The text of a value.                                                    *)

\* The C string in a buffer.
Text(b) ==
  LET nul == CHOOSE i \in DOMAIN b : b[i] = "nul" /\ \A j \in 0 .. i - 1 : b[j] # "nul"
  IN [i \in 1 .. nul |-> b[i - 1]]

\* A string with its terminator written to a buffer.
Written(b, s) ==
  [i \in DOMAIN b |-> IF i < Len(s) THEN s[i + 1] ELSE IF i = Len(s) THEN "nul" ELSE b[i]]

\* Mutant: what stands before the terminator is not looked at.
StripStringBlindly(b, len) == IF len > 0 THEN [b EXCEPT ![len - 1] = "nul"] ELSE b

\* _strip_string: the pointer to the last character is not moved, so that the loop
\* ends at the terminator it has just written.
StripString(b, len) ==
  IF len > 0 /\ b[len - 1] = " " THEN [b EXCEPT ![len - 1] = "nul"] ELSE b

\* _terminate_ocols
TerminateOcolsLen(n) == IF n # 0 THEN 0 ELSE rlen
TerminateOcols(strip) ==
  IF ind # 0 THEN [buf EXCEPT ![0] = "nul"]
  ELSE LET ended == [buf EXCEPT ![rlen] = "nul"]
       IN IF strip THEN StripString(ended, rlen) ELSE ended

-----------------------------------------------------------------------------

Supported(c) == c.type # "lob"
Small(c) == c.type \in {"char", "long"} /\ CalcObufSize(c) <= 4

Init ==
  /\ col \in Columns
  /\ size = CalcObufSize(col)
  /\ buf = [i \in 0 .. (IF Small(col) THEN size ELSE 1) - 1 |-> "nul"]
  /\ rlen = 0 /\ ind = 0 /\ value = << >> /\ asked = FALSE /\ given = None

\* OCIStmtFetch of a value that fits, of NULL, and of a value that is cut off, whose
\* indicator is then its full length.
Fetch ==
  /\ Small(col)
  /\ \E v \in Values(size - 1) :
       /\ value' = v
       /\ IF v = Null THEN ind' = NullInd /\ UNCHANGED <<buf, rlen>>
          ELSE ind' = 0 /\ rlen' = Len(v) /\ buf' = Written(buf, v)
  /\ asked' = FALSE /\ given' = None
  /\ UNCHANGED <<col, size>>

FetchTruncated ==
  /\ Truncates /\ Small(col) /\ col.type = "long"
  /\ \E v \in [1 .. size -> Chars] :
       /\ value' = v /\ ind' = Len(v) /\ rlen' = size - 1
       /\ buf' = Written(buf, SubSeq(v, 1, size - 1))
  /\ asked' = FALSE /\ given' = None
  /\ UNCHANGED <<col, size>>

\* sqlo_values, with sqlo_value_lens after it.
GetValues ==
  /\ value # << >>
  /\ \E strip \in BOOLEAN :
       /\ buf' = TerminateOcols(strip)
       /\ rlen' = TerminateOcolsLen(ind)
       /\ asked' = (asked \/ strip)
       /\ given' = [read |-> TRUE, text |-> Text(buf'), len |-> rlen']
  /\ UNCHANGED <<col, size, ind, value>>

Next == Fetch \/ FetchTruncated \/ GetValues

Spec == Init /\ [][Next]_vars

-----------------------------------------------------------------------------
(* Properties.                                                             *)

TypeOK ==
  /\ col \in Columns /\ size \in Nat /\ rlen \in Nat /\ ind \in 0 .. NullInd
  /\ \A i \in DOMAIN buf : buf[i] \in Chars \union {"nul"}
  /\ asked \in BOOLEAN /\ given.len \in Nat

\* The buffer of a supported column holds the longest text of its values and the
\* terminator, so that no fetch is cut off.
EveryValueFits == Supported(col) => LongestText(col) + 1 <= size

Blank(s) == \A i \in 1 .. Len(s) : s[i] = " "
IsPrefix(s, t) == Len(s) <= Len(t) /\ \A i \in 1 .. Len(s) : s[i] = t[i]

\* The application gets the value of the row fetched last, nothing of an earlier
\* row, without any but trailing blanks missing, and these only if it asked for it;
\* NULL is the empty string of length 0.  (A value that was cut off is not judged.)
ValueAsFetched ==
  given.read /\ ind \in {0, NullInd} =>
    IF value = Null THEN given.text = << >> /\ given.len = 0
    ELSE /\ IsPrefix(given.text, value) /\ Blank(SubSeq(value, Len(given.text) + 1, Len(value)))
         /\ Len(given.text) < Len(value) => asked
         /\ given.len = Len(value)

\* The comment of _strip_string, "Strips all trailing blanks in s."
TrailingBlanksStripped ==
  given.read /\ asked /\ given.text # << >> => given.text[Len(given.text)] # " "

\* The comment in _terminate_ocols: an indicator of -1 is NULL.  A value that was
\* cut off is not.
OnlyNullIsNull == given.read /\ value # Null => given.len > 0
=============================================================================
