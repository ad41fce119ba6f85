------------------------- MODULE ColumnText_proofs -------------------------
(***************************************************************************)
(* Proofs about ColumnText, for every column and every _max_long_size: the *)
(* buffer is large enough for each value of the column, and the            *)
(* application gets the value that was fetched last.                       *)
(***************************************************************************)
EXTENDS ColumnText, SequenceTheorems, TLAPS

(* The number of a row's text: one lemma for each type.                    *)
LEMMA NumberFits ==
  ASSUME NEW c \in Columns, c.type = "number"
  PROVE  LongestText(c) + 1 <= CalcObufSize(c)
<1>1. c \in NumberTypes
  BY ColumnAssumption
<1>2. c.prec \in 0 .. 38 /\ c.scale \in -84 .. 127 /\ c.dbsize = 22
  BY <1>1 DEF NumberTypes
<1>3. /\ Byte(c.prec) = c.prec
      /\ c.scale >= 0 => Byte(c.scale) = c.scale
      /\ c.scale < 0 => Byte(c.scale) = c.scale + 256
  BY <1>2 DEF Byte
<1> DEFINE p == c.prec
           s == c.scale
           b == Byte(c.scale)
<1>4. CalcObufSize(c) = NumberSize(p, b, 47)
  BY <1>2, <1>3 DEF CalcObufSize
<1>5. /\ p > 0 => LongestText(c) = 1 + (IF s <= 0 THEN p - s ELSE 1 + (IF s > p THEN s ELSE p))
      /\ p = 0 => LongestText(c) = 42
  BY <1>2 DEF LongestText
<1>6. p \in 0 .. 38 /\ s \in -84 .. 127 /\ (s >= 0 => b = s) /\ (s < 0 => b = s + 256)
  BY <1>2, <1>3
<1> HIDE DEF p, s, b
<1> QED
  BY <1>4, <1>5, <1>6 DEF NumberSize, Larger

LEMMA OthersFit ==
  ASSUME NEW c \in Columns, c.type # "number", Supported(c)
  PROVE  LongestText(c) + 1 <= CalcObufSize(c)
<1>1. c.type \in Types /\ c.dbsize \in Nat /\ MaxLong \in Nat
  BY ColumnAssumption, LongAssumption
<1> QED
  BY <1>1 DEF Types, Supported, LongestText, CalcObufSize

(* A column keeps its size from the describe of the statement.             *)
LEMMA SizeStays == Spec => [](col \in Columns /\ size = CalcObufSize(col))
<1> DEFINE Inv == col \in Columns /\ size = CalcObufSize(col)
<1>1. Init => Inv
  BY DEF Init
<1>2. Inv /\ [Next]_vars => Inv'
  BY DEF Next, vars, Fetch, FetchTruncated, GetValues
<1> QED
  BY <1>1, <1>2, PTL DEF Spec

(* The buffer _calc_obuf_size gives a column holds the longest text of its *)
(* values and the terminator, for every NUMBER(p, s), also with a negative *)
(* scale that was read into a byte, and for every other supported type.    *)
THEOREM EveryBufferFits == Spec => []EveryValueFits
<1>1. col \in Columns /\ size = CalcObufSize(col) => EveryValueFits
  BY NumberFits, OthersFit DEF EveryValueFits
<1> QED
  BY <1>1, SizeStays, PTL

-----------------------------------------------------------------------------
(* What the buffer and the application have of the value fetched last:     *)
(* all of it, or, after a call that strips, all but one trailing blank.    *)
Upto(v, k) == [i \in 1 .. k |-> v[i]]

InBuffer(k) ==
  /\ \A i \in 0 .. k - 2 : buf[i] = value[i + 1]
  /\ buf[k - 1] = value[k] \/ (buf[k - 1] = "nul" /\ value[k] = " " /\ asked)
  /\ buf[k] = "nul"

Answered(k) ==
  /\ given.len = k
  /\ \/ given.text = Upto(value, k)
     \/ given.text = Upto(value, k - 1) /\ value[k] = " " /\ asked

RowOK ==
  /\ col \in Columns /\ size = CalcObufSize(col)
  /\ value # << >> => Small(col)
  /\ Small(col) => size \in 1 .. 4 /\ DOMAIN buf = 0 .. size - 1
  /\ value = << >> => ~given.read
  /\ value # << >> /\ ind = NullInd =>
       value = Null /\ (given.read => given.text = << >> /\ given.len = 0)
  /\ value # << >> /\ ind = 0 =>
       \E k \in 1 .. size - 1 : /\ value \in [1 .. k -> Chars] /\ rlen = k
                               /\ InBuffer(k) /\ (given.read => Answered(k))

(* The C string that a buffer with a terminator at n holds.                *)
LEMMA TextIs ==
  ASSUME NEW b, NEW n \in Nat, NEW m \in Nat, n <= m, DOMAIN b = 0 .. m, b[n] = "nul",
         \A i \in 0 .. n - 1 : b[i] # "nul"
  PROVE  Text(b) = [i \in 1 .. n |-> b[i - 1]]
<1> DEFINE First(i) == b[i] = "nul" /\ \A j \in 0 .. i - 1 : b[j] # "nul"
           nul == CHOOSE i \in DOMAIN b : First(i)
<1>1. n \in DOMAIN b /\ First(n)
  OBVIOUS
<1>2. nul \in DOMAIN b /\ First(nul)
  BY <1>1
<1>3. nul = n
  BY <1>1, <1>2
<1> QED
  BY <1>3 DEF Text

LEMMA CharsAre == "nul" \notin Chars /\ Null \notin UNION {[1 .. k -> Chars] : k \in Nat}
<1>1. \A k \in Nat : Null \in [1 .. k -> Chars] => Null[1] \in Chars
  BY DEF Null
<1> QED
  BY <1>1 DEF Chars, Null

(* The text of a buffer that holds a value, or all but its last character. *)
LEMMA TextOf ==
  ASSUME NEW b, NEW v, NEW k \in Nat \ {0}, NEW m \in Nat, k <= m, DOMAIN b = 0 .. m,
         \A i \in 1 .. k : v[i] \in Chars, \A i \in 0 .. k - 2 : b[i] = v[i + 1], b[k] = "nul"
  PROVE  /\ b[k - 1] = v[k] => Text(b) = Upto(v, k)
         /\ b[k - 1] = "nul" => Text(b) = Upto(v, k - 1)
<1>1. \A i \in 1 .. k - 1 : i - 1 \in 0 .. k - 2 /\ (i - 1) + 1 = i
  OBVIOUS
<1>2. \A i \in 1 .. k - 1 : b[i - 1] = v[i]
  BY <1>1
<1>3. \A i \in 0 .. k - 2 : b[i] # "nul"
  <2>1. \A i \in 0 .. k - 2 : i + 1 \in 1 .. k
    OBVIOUS
  <2> QED
    BY <2>1, CharsAre
<1>4. ASSUME b[k - 1] = "nul" PROVE Text(b) = Upto(v, k - 1)
  <2>1. k - 1 \in Nat /\ k - 1 <= m /\ (k - 1) - 1 = k - 2
    OBVIOUS
  <2>2. \A i \in 0 .. (k - 1) - 1 : b[i] # "nul"
    BY <1>3, <2>1
  <2>3. Text(b) = [i \in 1 .. k - 1 |-> b[i - 1]]
    BY <1>4, <2>1, <2>2, TextIs
  <2> QED
    BY <1>2, <2>3 DEF Upto
<1>5. ASSUME b[k - 1] = v[k] PROVE Text(b) = Upto(v, k)
  <2>1. b[k - 1] # "nul"
    BY <1>5, CharsAre
  <2>2. \A i \in 0 .. k - 1 : i \in 0 .. k - 2 \/ i = k - 1
    OBVIOUS
  <2>3. \A i \in 0 .. k - 1 : b[i] # "nul"
    BY <1>3, <2>1, <2>2
  <2>4. Text(b) = [i \in 1 .. k |-> b[i - 1]]
    BY <2>3, TextIs
  <2>5. \A i \in 1 .. k : i \in 1 .. k - 1 \/ i = k
    OBVIOUS
  <2>6. \A i \in 1 .. k : b[i - 1] = v[i]
    BY <1>2, <1>5, <2>5
  <2> QED
    BY <2>4, <2>6 DEF Upto
<1> QED
  BY <1>4, <1>5

LEMMA InitRow == Init => RowOK
<1> SUFFICES ASSUME Init PROVE RowOK
  OBVIOUS
<1>1. value = << >> /\ ~given.read /\ col \in Columns /\ size = CalcObufSize(col)
  BY DEF Init, None
<1>2. Small(col) => size \in 1 .. 4
  BY <1>1, ColumnAssumption, LongAssumption DEF Small, CalcObufSize
<1>3. Small(col) => DOMAIN buf = 0 .. size - 1
  BY DEF Init
<1> QED
  BY <1>1, <1>2, <1>3 DEF RowOK

LEMMA FetchRow ==
  ASSUME RowOK, Fetch
  PROVE  RowOK'
<1>1. /\ Small(col) /\ size \in 1 .. 4 /\ DOMAIN buf = 0 .. size - 1
      /\ UNCHANGED <<col, size>> /\ ~given'.read
      /\ Small(col)' /\ col' \in Columns /\ size' = CalcObufSize(col)'
  BY DEF RowOK, Fetch, None, Small, CalcObufSize
<1>2. PICK v \in Values(size - 1) :
        /\ value' = v
        /\ IF v = Null THEN ind' = NullInd /\ UNCHANGED <<buf, rlen>>
           ELSE ind' = 0 /\ rlen' = Len(v) /\ buf' = Written(buf, v)
  BY DEF Fetch
<1>3. CASE v = Null
  <2>1. value' # << >> /\ ind' # 0
    BY <1>2, <1>3 DEF Null, NullInd
  <2> QED
    BY <1>1, <1>2, <1>3, <2>1 DEF RowOK
<1>4. CASE v # Null
  <2>0. v \in UNION {[1 .. k -> Chars] : k \in 1 .. size - 1}
    BY <1>2, <1>4 DEF Values
  <2>1. PICK k \in 1 .. size - 1 : v \in [1 .. k -> Chars]
    BY <2>0
  <2>2. Len(v) = k /\ v # << >>
    BY <1>1, <2>1
  <2>3. DOMAIN buf' = 0 .. size - 1
    BY <1>1, <1>2, <1>4 DEF Written
  <2>4. \A i \in 0 .. size - 1 :
          buf'[i] = IF i < k THEN v[i + 1] ELSE IF i = k THEN "nul" ELSE buf[i]
    BY <1>1, <1>2, <1>4, <2>2 DEF Written
  <2>5. InBuffer(k)'
    <3>1. buf'[k - 1] = v[k] /\ buf'[k] = "nul"
      BY <1>1, <2>1, <2>4
    <3>2. \A i \in 0 .. k - 2 : buf'[i] = v[i + 1]
      BY <1>1, <2>1, <2>4
    <3> QED
      BY <1>2, <3>1, <3>2 DEF InBuffer
  <2> QED
    BY <1>1, <1>2, <1>4, <2>1, <2>2, <2>3, <2>5 DEF RowOK, NullInd
<1> QED
  BY <1>3, <1>4

LEMMA TruncatedRow ==
  ASSUME RowOK, FetchTruncated
  PROVE  RowOK'
<1>1. /\ Small(col) /\ size \in 1 .. 4 /\ DOMAIN buf = 0 .. size - 1
      /\ UNCHANGED <<col, size>> /\ ~given'.read
      /\ Small(col)' /\ col' \in Columns /\ size' = CalcObufSize(col)'
  BY DEF RowOK, FetchTruncated, None, Small, CalcObufSize
<1>2. PICK v \in [1 .. size -> Chars] :
        value' = v /\ ind' = Len(v) /\ buf' = Written(buf, SubSeq(v, 1, size - 1))
  BY DEF FetchTruncated
<1>3. Len(v) = size
  BY <1>1
<1>4. ind' \notin {0, NullInd}
  <2>1. ind' = size /\ size \in 1 .. 4
    BY <1>1, <1>2, <1>3
  <2> QED
    BY <2>1 DEF NullInd
<1>5. DOMAIN buf' = 0 .. size - 1
  BY <1>1, <1>2 DEF Written
<1> QED
  BY <1>1, <1>4, <1>5 DEF RowOK

LEMMA GetRow ==
  ASSUME RowOK, GetValues
  PROVE  RowOK'
<1>1. /\ Small(col) /\ size \in 1 .. 4 /\ DOMAIN buf = 0 .. size - 1 /\ value # << >>
      /\ UNCHANGED <<col, size, ind, value>>
      /\ Small(col)' /\ col' \in Columns /\ size' = CalcObufSize(col)'
  BY DEF RowOK, GetValues, Small, CalcObufSize
<1>2. PICK strip \in BOOLEAN :
        /\ buf' = TerminateOcols(strip) /\ rlen' = TerminateOcolsLen(ind)
        /\ asked' = (asked \/ strip)
        /\ given' = [read |-> TRUE, text |-> Text(buf'), len |-> rlen']
  BY DEF GetValues
<1>3. DOMAIN buf' = 0 .. size - 1
  <2>1. \A b, n : DOMAIN StripString(b, n) = DOMAIN b
    BY DEF StripString
  <2> QED
    BY <1>1, <1>2, <2>1 DEF TerminateOcols
<1>4. CASE ind = NullInd
  <2>1. buf' = [buf EXCEPT ![0] = "nul"] /\ rlen' = 0 /\ value = Null
    BY <1>1, <1>2, <1>4 DEF TerminateOcols, TerminateOcolsLen, NullInd, RowOK
  <2>2. buf'[0] = "nul"
    BY <1>1, <2>1
  <2>3. Text(buf') = [i \in 1 .. 0 |-> buf'[i - 1]]
    <3> DEFINE b == buf'
    <3> HIDE DEF b
    <3>1. b[0] = "nul" /\ DOMAIN b = 0 .. size - 1
      BY <1>3, <2>2 DEF b
    <3>2. Text(b) = [i \in 1 .. 0 |-> b[i - 1]]
      BY <1>1, <3>1, TextIs
    <3> QED
      BY <3>2 DEF b
  <2>4. given'.text = << >> /\ given'.len = 0
    BY <1>2, <2>1, <2>3
  <2> QED
    BY <1>1, <1>3, <1>4, <2>1, <2>4 DEF RowOK, NullInd
<1>5. CASE ind = 0
  <2>1. PICK k \in 1 .. size - 1 : value \in [1 .. k -> Chars] /\ rlen = k /\ InBuffer(k)
    BY <1>1, <1>5 DEF RowOK
  <2>0. k \in Nat /\ k > 0 /\ k \in 0 .. size - 1 /\ k - 1 \in 0 .. size - 1
    BY <1>1
  <2>2. rlen' = k
    BY <1>2, <1>5, <2>1 DEF TerminateOcolsLen
  <2> DEFINE ended == [buf EXCEPT ![k] = "nul"]
  <2>3. buf' = IF strip /\ ended[k - 1] = " " THEN [ended EXCEPT ![k - 1] = "nul"] ELSE ended
    <3>1. TerminateOcols(strip) = IF strip THEN StripString(ended, k) ELSE ended
      BY <1>5, <2>1 DEF TerminateOcols
    <3>2. StripString(ended, k) =
            IF ended[k - 1] = " " THEN [ended EXCEPT ![k - 1] = "nul"] ELSE ended
      <4>1. k > 0
        BY <1>1
      <4> HIDE DEF ended
      <4> QED
        BY <4>1 DEF StripString
    <3> HIDE DEF ended
    <3> QED
      BY <1>2, <3>1, <3>2
  <2>4. /\ \A i \in 0 .. k - 1 : ended[i] = buf[i]
        /\ ended[k] = "nul" /\ DOMAIN ended = 0 .. size - 1
    BY <1>1, <2>1
  <2>5. /\ \A i \in 0 .. k - 2 : buf'[i] = value[i + 1]
        /\ buf'[k] = "nul"
        /\ buf'[k - 1] = value[k] \/ (buf'[k - 1] = "nul" /\ value[k] = " " /\ asked')
    <3> HIDE DEF ended
    <3>1. CASE strip /\ ended[k - 1] = " "
      <4>1. buf' = [ended EXCEPT ![k - 1] = "nul"]
        BY <2>3, <3>1
      <4>2. buf[k - 1] = " " /\ value[k] = " "
        <5>1. ended[k - 1] = buf[k - 1]
          BY <2>0, <2>4
        <5> QED
          BY <2>1, <3>1, <5>1 DEF InBuffer
      <4>3. /\ \A i \in 0 .. k - 2 : buf'[i] = ended[i]
            /\ buf'[k] = ended[k] /\ buf'[k - 1] = "nul"
        BY <2>0, <2>4, <4>1
      <4>4. \A i \in 0 .. k - 2 : ended[i] = value[i + 1]
        <5>1. \A i \in 0 .. k - 2 : buf[i] = value[i + 1]
          BY <2>1 DEF InBuffer
        <5>2. \A i \in 0 .. k - 2 : i \in 0 .. k - 1
          BY <2>0
        <5> QED
          BY <2>4, <5>1, <5>2
      <4> QED
        BY <1>2, <2>4, <3>1, <4>2, <4>3, <4>4
    <3>2. CASE ~(strip /\ ended[k - 1] = " ")
      <4>1. buf' = ended
        BY <2>3, <3>2
      <4>2. /\ \A i \in 0 .. k - 2 : buf[i] = value[i + 1]
            /\ buf[k - 1] = value[k] \/ (buf[k - 1] = "nul" /\ value[k] = " " /\ asked)
        BY <2>1 DEF InBuffer
      <4>3. /\ \A i \in 0 .. k - 2 : buf'[i] = buf[i]
            /\ buf'[k - 1] = buf[k - 1] /\ buf'[k] = "nul"
        BY <2>0, <2>4, <4>1
      <4>4. \A i \in 0 .. k - 2 : buf'[i] = value[i + 1]
        BY <4>2, <4>3
      <4> QED
        BY <1>2, <4>2, <4>3, <4>4
    <3> QED
      BY <3>1, <3>2
  <2>6. InBuffer(k)'
    BY <1>1, <2>5 DEF InBuffer
  <2>7. \A i \in 1 .. k : value[i] \in Chars
    BY <2>1
  <2> DEFINE b == buf'
  <2>8. \/ Text(b) = Upto(value, k)
        \/ Text(b) = Upto(value, k - 1) /\ value[k] = " " /\ asked'
    <3>0. /\ DOMAIN b = 0 .. size - 1 /\ \A i \in 0 .. k - 2 : b[i] = value[i + 1]
          /\ b[k] = "nul"
          /\ b[k - 1] = value[k] \/ (b[k - 1] = "nul" /\ value[k] = " " /\ asked')
      BY <1>3, <2>5
    <3> HIDE DEF b
    <3>1. size - 1 \in Nat /\ k \in Nat \ {0} /\ k <= size - 1
      BY <1>1, <2>0
    <3>2. /\ b[k - 1] = value[k] => Text(b) = Upto(value, k)
          /\ b[k - 1] = "nul" => Text(b) = Upto(value, k - 1)
      <4> DEFINE m == size - 1
      <4>1. m \in Nat /\ k \in Nat \ {0} /\ k <= m /\ DOMAIN b = 0 .. m
        BY <3>0, <3>1
      <4> HIDE DEF m
      <4> QED
        <5>1. /\ \A i \in 1 .. k : value[i] \in Chars
              /\ \A i \in 0 .. k - 2 : b[i] = value[i + 1]
              /\ b[k] = "nul"
          BY <2>7, <3>0
        <5> QED
          BY ONLY <4>1, <5>1, TextOf
    <3> QED
      BY <3>0, <3>2
  <2>9. Answered(k)'
    BY <1>1, <1>2, <2>2, <2>8 DEF Answered
  <2> QED
    BY <1>1, <1>3, <1>5, <2>1, <2>2, <2>6, <2>9 DEF RowOK, NullInd
<1>6. CASE ind \notin {0, NullInd}
  BY <1>1, <1>3, <1>6 DEF RowOK
<1> QED
  BY <1>4, <1>5, <1>6

(* The application gets what was fetched last, and nothing of an earlier   *)
(* row: NULL as the empty string of length 0, a value with its length and  *)
(* its characters, of which only a trailing blank may be missing, and only *)
(* after a call that strips; also when sqlo_values is called repeatedly.   *)
THEOREM ValueGiven == Spec => []ValueAsFetched
<1>1. RowOK /\ [Next]_vars => RowOK'
  <2>1. CASE UNCHANGED vars
    <3>1. UNCHANGED <<col, size, buf, rlen, ind, value, asked, given>>
      BY <2>1 DEF vars
    <3>2. (Small(col)' <=> Small(col)) /\ CalcObufSize(col)' = CalcObufSize(col)
      BY <3>1 DEF Small, CalcObufSize
    <3>3. \A k : (InBuffer(k)' <=> InBuffer(k)) /\ (Answered(k)' <=> Answered(k))
      BY <3>1 DEF InBuffer, Answered
    <3> QED
      BY <3>1, <3>2, <3>3 DEF RowOK
  <2> QED
    BY <2>1, FetchRow, TruncatedRow, GetRow DEF Next
<1>2. RowOK => ValueAsFetched
  <2> SUFFICES ASSUME RowOK, given.read, ind \in {0, NullInd}
               PROVE  IF value = Null THEN given.text = << >> /\ given.len = 0
                      ELSE /\ IsPrefix(given.text, value)
                           /\ Blank(SubSeq(value, Len(given.text) + 1, Len(value)))
                           /\ Len(given.text) < Len(value) => asked
                           /\ given.len = Len(value)
    BY DEF ValueAsFetched
  <2>1. value # << >>
    BY DEF RowOK
  <2>4. size \in 1 .. 4
    BY <2>1 DEF RowOK
  <2>2. CASE ind = NullInd
    BY <2>1, <2>2 DEF RowOK
  <2>3. CASE ind = 0
    <3>1. PICK k \in 1 .. size - 1 : value \in [1 .. k -> Chars] /\ Answered(k)
      BY <2>1, <2>3 DEF RowOK
    <3>0. k \in Nat /\ k > 0
      BY <3>1, <2>4
    <3>2. value # Null /\ Len(value) = k
      BY <3>0, <3>1, CharsAre
    <3>5. given.len = k
      BY <3>1 DEF Answered
    <3>3. CASE given.text = Upto(value, k)
      <4>1. given.text = value
        BY <3>1, <3>3 DEF Upto
      <4>2. IsPrefix(given.text, value)
        BY <3>0, <3>2, <4>1 DEF IsPrefix
      <4>3. SubSeq(value, k + 1, k) = << >>
        BY <3>0, SubSeqEmpty
      <4>4. Blank(<< >>)
        <5>1. Len(<< >>) = 0 /\ 1 .. 0 = {}
          BY EmptySeq
        <5> QED
          BY <5>1 DEF Blank
      <4>5. Len(given.text) = k /\ given.len = k /\ ~(k < k)
        BY <3>0, <3>2, <3>5, <4>1
      <4> QED
        BY <3>2, <4>2, <4>3, <4>4, <4>5
    <3>4. CASE given.text = Upto(value, k - 1) /\ value[k] = " " /\ asked
      <4> DEFINE g == given.text
      <4>1. Len(g) = k - 1 /\ \A i \in 1 .. k - 1 : g[i] = value[i]
        <5> DEFINE n == k - 1
        <5>0. g = Upto(value, n)
          BY <3>4
        <5>1. n \in Nat
          BY <3>0
        <5> HIDE DEF n, g
        <5>2. Len(g) = n /\ \A i \in 1 .. n : g[i] = value[i]
          BY <5>0, <5>1 DEF Upto
        <5> QED
          BY <5>2 DEF n
      <4>2. IsPrefix(g, value)
        BY <3>0, <3>2, <4>1 DEF IsPrefix
      <4> DEFINE s == SubSeq(value, k, k)
      <4>3. Len(s) = 1 /\ s[1] = " "
        <5>1. \A i \in k .. k : value[i] \in Chars
          BY <3>1
        <5>2. Len(s) = (k - k) + 1 /\ \A i \in 1 .. k - k + 1 : s[i] = value[k + i - 1]
          BY <3>0, <5>1, SubSeqProperties
        <5>3. k - k + 1 = 1 /\ 1 \in 1 .. 1 /\ k + 1 - 1 = k
          BY <3>0
        <5> HIDE DEF s
        <5> QED
          BY <3>4, <5>2, <5>3
      <4>4. Blank(s)
        <5>1. \A i \in 1 .. 1 : i = 1
          OBVIOUS
        <5> HIDE DEF s
        <5> QED
          BY <4>3, <5>1 DEF Blank
      <4>5. Len(g) + 1 = k /\ Len(g) < k
        BY <3>0, <4>1
      <4> QED
        BY <3>1, <3>2, <3>4, <4>2, <4>4, <4>5 DEF Answered
    <3> QED
      BY <3>1, <3>3, <3>4 DEF Answered
  <2> QED
    BY <2>2, <2>3
<1> QED
  BY <1>1, <1>2, InitRow, PTL DEF Spec
=============================================================================
