-------------------------- MODULE LobStream_proofs --------------------------
(***************************************************************************)
(* LobStream implements ByteTransfer for every size of the buffer and every*)
(* length of the source, if files are as long as they are said to be and   *)
(* fwrite does not fail; and what the LOB and OCI see of a transfer.       *)
(***************************************************************************)
EXTENDS LobStream, SequenceTheorems, TLAPS

Pieces == {"none", "one", "first", "next", "last"}

\* Each function makes its own calls.
PcOK ==
  /\ pc \in {"alloc", "start", "open", "write", "fill", "close", "piece",
            "length", "read", "store", "done", "end"}
  /\ pc \in {"start", "open", "write", "fill", "close"} => way = "write"
  /\ pc = "piece" => way = "append"
  /\ pc \in {"length", "read", "store"} => way = "read"

Types ==
  /\ way \in {"write", "append", "read"}
  /\ PcOK
  /\ status \in Statuses /\ pending \in {"none"} \union Busy /\ open \in BOOLEAN
  /\ piece \in Pieces
  /\ length \in 0 .. MaxLength /\ pos \in 0 .. length
  /\ remainder \in 0 .. length /\ nbytes \in 0 .. MaxLong
  /\ buf \in [1 .. MaxLong -> Nat]
  /\ src = Bytes(length)

\* Before the first byte is read.
AtStart == dst = << >> /\ pos = 0 /\ remainder = length

\* A piece is in the buffer: the bytes before pos that have not arrived yet.
PieceLoaded ==
  /\ nbytes \in 1 .. pos /\ dst = Bytes(pos - nbytes) /\ remainder = length - pos
  /\ \A i \in 1 .. nbytes : buf[i] = pos - nbytes + i
  /\ piece \in {"one", "last"} <=> remainder = 0

\* Of the LOB, Kept(remainder) bytes are in the buffer and go to the file next.
PieceRead ==
  /\ nbytes = Smaller(length, MaxLong) /\ dst = Bytes(length - remainder)
  /\ pos = length - remainder + Kept(remainder)
  /\ \A i \in 1 .. Kept(remainder) : buf[i] = length - remainder + i
  /\ status = IF pos = length THEN "ok" ELSE "need"

\* How far a transfer without an error has come at each call.
Progress ==
  /\ pc \in {"alloc", "start", "length"} => AtStart
  /\ pc \in {"open", "write"} => PieceLoaded
  /\ pc = "open"  => piece = "first"
  /\ pc = "fill"  => dst = Bytes(pos) /\ remainder = length - pos /\ remainder > 0
  /\ pc = "piece" => dst = Bytes(pos)
  /\ pc = "read"  => /\ dst = Bytes(pos) /\ remainder = length - pos
                     /\ nbytes = Smaller(length, MaxLong)
  /\ pc = "store" => PieceRead
  /\ pc \in {"close", "done", "end"} => dst = Bytes(length)

IInv ==
  /\ Types
  /\ IF status = "error" THEN pc \in {"store", "done", "end"} ELSE Progress

\* Where OCI has the LOB open after calls that all succeeded.
OpenInside ==
  open /\ status # "error" =>
    pc \in {"write", "fill", "close"} /\ (pc = "write" => piece # "one")

-----------------------------------------------------------------------------
(* Sequences of bytes.                                                     *)

LEMMA BytesSeq ==
  ASSUME NEW n \in Nat
  PROVE  /\ Bytes(n) \in Seq(Nat) /\ Len(Bytes(n)) = n
         /\ \A i \in 1 .. n : Bytes(n)[i] = i
BY DEF Bytes

LEMMA NoBytes == Bytes(0) = << >>
<1>1. Bytes(0) \in Seq(Nat) /\ Len(Bytes(0)) = 0
  BY BytesSeq
<1> QED
  BY <1>1, EmptySeq

\* A sequence is the concatenation of two if it agrees with both.
LEMMA Joined ==
  ASSUME NEW s \in Seq(Nat), NEW t \in Seq(Nat), NEW u \in Seq(Nat), Len(u) = Len(s) + Len(t),
         \A i \in 1 .. Len(s) : u[i] = s[i],
         \A i \in 1 .. Len(t) : u[Len(s) + i] = t[i]
  PROVE  s \o t = u
<1>1. Len(s) \in Nat /\ Len(t) \in Nat
  OBVIOUS
<1>2. /\ s \o t \in Seq(Nat) /\ Len(s \o t) = Len(s) + Len(t)
      /\ \A i \in 1 .. Len(s) + Len(t) : (s \o t)[i] = IF i <= Len(s) THEN s[i] ELSE t[i - Len(s)]
  BY ConcatProperties
<1>3. ASSUME NEW i \in 1 .. Len(s) + Len(t)
      PROVE  (s \o t)[i] = u[i]
  <2>1. CASE i <= Len(s)
    BY <2>1, <1>1, <1>2
  <2>2. CASE ~(i <= Len(s))
    <3>1. i - Len(s) \in 1 .. Len(t) /\ i = Len(s) + (i - Len(s))
      BY <2>2, <1>1
    <3>2. u[i] = t[i - Len(s)]
      BY <3>1
    <3> QED
      BY <2>2, <3>2, <1>2
  <2> QED
    BY <2>1, <2>2
<1> QED
  BY <1>2, <1>3, SeqEqual

\* The bytes after the first a, n of them, make a + n.
LEMMA Appended ==
  ASSUME NEW a \in Nat, NEW n \in Nat, NEW t \in Seq(Nat), Len(t) = n,
         \A i \in 1 .. n : t[i] = a + i
  PROVE  Bytes(a) \o t = Bytes(a + n)
<1>1. /\ Bytes(a) \in Seq(Nat) /\ Len(Bytes(a)) = a
      /\ \A i \in 1 .. a : Bytes(a)[i] = i
  BY BytesSeq
<1>2. /\ Bytes(a + n) \in Seq(Nat) /\ Len(Bytes(a + n)) = a + n
      /\ \A i \in 1 .. a + n : Bytes(a + n)[i] = i
  BY BytesSeq
<1> QED
  BY <1>1, <1>2, Joined, SMTT(20)

\* The first n bytes of the buffer, if they are those after the first a.
LEMMA BufferAppended ==
  ASSUME NEW a \in Nat, NEW n \in Nat, n <= MaxLong, NEW b \in [1 .. MaxLong -> Nat],
         \A i \in 1 .. n : b[i] = a + i
  PROVE  Bytes(a) \o SubSeq(b, 1, n) = Bytes(a + n)
<1>1. \A i \in 1 .. n : b[i] \in Nat
  BY SizeAssumption
<1>2. /\ SubSeq(b, 1, n) \in Seq(Nat)
      /\ Len(SubSeq(b, 1, n)) = IF 1 <= n THEN n - 1 + 1 ELSE 0
      /\ \A i \in 1 .. n - 1 + 1 : SubSeq(b, 1, n)[i] = b[1 + i - 1]
  BY <1>1, SubSeqProperties
<1>3. /\ Len(SubSeq(b, 1, n)) = n
      /\ \A i \in 1 .. n : SubSeq(b, 1, n)[i] = a + i
  BY <1>2
<1> QED
  BY <1>2, <1>3, Appended

\* The n bytes of a source of l that follow the first a.
LEMMA SourceAppended ==
  ASSUME NEW l \in Nat, NEW a \in Nat, NEW n \in Nat, a + n <= l
  PROVE  Bytes(a) \o SubSeq(Bytes(l), a + 1, a + n) = Bytes(a + n)
<1>1. \A i \in a + 1 .. a + n : Bytes(l)[i] = i /\ Bytes(l)[i] \in Nat
  BY BytesSeq
<1>2. /\ SubSeq(Bytes(l), a + 1, a + n) \in Seq(Nat)
      /\ Len(SubSeq(Bytes(l), a + 1, a + n)) = IF a + 1 <= a + n THEN a + n - (a + 1) + 1 ELSE 0
      /\ \A i \in 1 .. a + n - (a + 1) + 1 :
           SubSeq(Bytes(l), a + 1, a + n)[i] = Bytes(l)[a + 1 + i - 1]
  BY <1>1, SubSeqProperties
<1>3. /\ Len(SubSeq(Bytes(l), a + 1, a + n)) = n
      /\ \A i \in 1 .. n : SubSeq(Bytes(l), a + 1, a + n)[i] = a + i
  BY <1>1, <1>2
<1> QED
  BY <1>2, <1>3, Appended

\* A prefix of a source.
LEMMA Prefix ==
  ASSUME NEW l \in Nat, NEW n \in Nat, n <= l
  PROVE  SubSeq(Bytes(l), 1, n) = Bytes(n)
<1>1. \A i \in 1 .. n : Bytes(l)[i] = i /\ Bytes(l)[i] \in Nat
  <2>1. \A i \in 1 .. l : Bytes(l)[i] = i
    BY BytesSeq
  <2> QED
    BY <2>1
<1>2. /\ SubSeq(Bytes(l), 1, n) \in Seq(Nat)
      /\ Len(SubSeq(Bytes(l), 1, n)) = IF 1 <= n THEN n - 1 + 1 ELSE 0
      /\ \A i \in 1 .. n - 1 + 1 : SubSeq(Bytes(l), 1, n)[i] = Bytes(l)[1 + i - 1]
  BY <1>1, SubSeqProperties
<1>3. /\ Len(SubSeq(Bytes(l), 1, n)) = n
      /\ \A i \in 1 .. n : SubSeq(Bytes(l), 1, n)[i] = i
  BY <1>1, <1>2
<1>4. Bytes(n) \in Seq(Nat) /\ Len(Bytes(n)) = n /\ \A i \in 1 .. n : Bytes(n)[i] = i
  BY BytesSeq
<1> QED
  BY <1>2, <1>3, <1>4, SeqEqual

-----------------------------------------------------------------------------
(* Every step keeps the invariant and takes the transfer on.               *)

\* What a step may do to a transfer: errors stay, and without one dst grows.
Advances ==
  /\ src' = src /\ length' = length
  /\ status = "error" => status' = "error"
  /\ status' # "error" => \E n \in Len(dst) .. length : dst' = Bytes(n)

LEMMA Answers ==
  ASSUME NEW call, NEW good, NEW a \in Fallible(call, good)
  PROVE  a = good \/ a = "error" \/ (a = "busy" /\ call \in Busy)
BY DEF Fallible

LEMMA AnsweredOK ==
  ASSUME NEW call, NEW good, NEW a \in Fallible(call, good), Answered(call, a), good # "busy",
         pending \in {"none"} \union Busy
  PROVE  status' = a /\ pending' \in {"none"} \union Busy
<1>1. status' = a /\ pending' \in {pending, "none", call}
  BY DEF Answered
<1>2. CASE a = "busy"
  <2>1. call \in Busy
    BY <1>2, Answers
  <2> QED
    BY <1>1, <2>1
<1>3. CASE a # "busy"
  BY <1>3, <1>1 DEF Answered
<1> QED
  BY <1>2, <1>3

LEMMA LengthBytes ==
  ASSUME IInv
  PROVE  length \in Nat /\ pos \in Nat /\ remainder \in Nat /\ nbytes \in Nat /\ MaxLong \in Nat
BY SizeAssumption DEF IInv, Types

\* Steps that leave what has arrived alone advance.
LEMMA Unmoved ==
  ASSUME IInv, status # "error", UNCHANGED <<src, length, dst>>
  PROVE  Advances
<1>1. PICK n \in 0 .. length : dst = Bytes(n)
  BY NoBytes, LengthBytes DEF IInv, Types, PcOK, Progress, AtStart, PieceLoaded, PieceRead
<1>2. Len(dst) = n
  BY <1>1, BytesSeq, LengthBytes
<1> QED
  BY <1>1, <1>2, LengthBytes DEF Advances

LEMMA AllocStep ==
  ASSUME IInv, AllocLobDesc
  PROVE  IInv' /\ Advances
<1>1. PICK a \in Fallible("alloc", "ok") :
        /\ Answered("alloc", a)
        /\ pc' = IF a # "ok" THEN "done"
                 ELSE CASE way = "write"  -> "start"
                        [] way = "append" -> "piece"
                        [] way = "read"   -> "length"
  BY DEF AllocLobDesc
<1>2. a \in {"ok", "error"}
  BY Answers, BusyAssumption
<1>3. UNCHANGED <<way, length, src, dst, pos, buf, nbytes, remainder, piece, open>> /\ pc = "alloc"
  BY DEF AllocLobDesc
<1>4. AtStart /\ status # "error"
  BY <1>3 DEF IInv, Progress
<1>5. pc' = "done" \/ (way = "write" /\ pc' = "start") \/ (way = "append" /\ pc' = "piece")
        \/ (way = "read" /\ pc' = "length")
  BY <1>1, <1>2 DEF IInv, Types
<1>6. /\ status' \in Statuses /\ pending' \in {"none"} \union Busy
      /\ status' = "error" <=> pc' = "done"
  <2>1. status' = a /\ pending' \in {"none"} \union Busy
    BY <1>1, AnsweredOK DEF IInv, Types
  <2>2. a = "ok" => pc' # "done"
    BY <1>1 DEF IInv, Types
  <2>3. a # "ok" => pc' = "done"
    BY <1>1
  <2> QED
    BY <1>2, <2>1, <2>2, <2>3 DEF Statuses
<1>7. Types'
  BY <1>3, <1>5, <1>6 DEF IInv, Types, PcOK
<1>8. IInv'
  BY <1>3, <1>4, <1>5, <1>6, <1>7, NoBytes DEF IInv, Progress, AtStart
<1> QED
  BY <1>3, <1>4, <1>8, Unmoved

LEMMA Failed ==
  ASSUME status' = "error", UNCHANGED <<src, length>>
  PROVE  Advances
BY DEF Advances

LEMMA Grows ==
  ASSUME IInv, status # "error", UNCHANGED <<src, length>>,
         NEW k \in Nat, NEW n \in Nat, k <= n, n <= length, dst = Bytes(k), dst' = Bytes(n)
  PROVE  Advances
<1>1. Len(dst) = k
  BY BytesSeq
<1> QED
  BY <1>1, LengthBytes DEF Advances

LEMMA LengthStep ==
  ASSUME IInv, GetLength
  PROVE  IInv' /\ Advances
<1>1. PICK a \in Fallible("length", "ok") :
        /\ Answered("length", a)
        /\ pc' = CASE a = "busy" -> "length" [] a = "ok" -> "read" [] a = "error" -> "done"
  BY DEF GetLength
<1>2. a \in {"ok", "busy", "error"} /\ status' = a /\ pending' \in {"none"} \union Busy
  BY <1>1, Answers, AnsweredOK DEF IInv, Types
<1>3. /\ UNCHANGED <<way, length, src, dst, pos, buf, remainder, piece, open>>
      /\ pc = "length" /\ way = "read" /\ nbytes' = Smaller(length, MaxLong)
  BY DEF GetLength, IInv, Types, PcOK
<1>4. AtStart /\ status # "error"
  BY <1>3 DEF IInv, Progress
<1>5. /\ pc' \in {"length", "read", "done"}
      /\ pc' = "done" <=> status' = "error"
  BY <1>1, <1>2
<1>6. nbytes' \in 0 .. MaxLong
  BY <1>3, LengthBytes DEF Smaller
<1>7. Types'
  BY <1>2, <1>3, <1>5, <1>6 DEF IInv, Types, PcOK, Statuses
<1>8. IInv'
  <2>1. dst' = Bytes(pos') /\ remainder' = length' - pos'
    BY <1>3, <1>4, NoBytes, LengthBytes DEF AtStart
  <2> QED
    BY <1>3, <1>4, <1>5, <1>7, <2>1 DEF IInv, Progress, AtStart
<1> QED
  BY <1>3, <1>4, <1>8, Unmoved

LEMMA FreeStep ==
  ASSUME IInv, FreeLobDesc
  PROVE  IInv' /\ Advances
<1>1. /\ pc = "done" /\ pc' = "end"
      /\ UNCHANGED <<way, length, src, dst, pos, buf, nbytes, remainder, piece, status, open, pending>>
  BY DEF FreeLobDesc
<1>2. Types'
  BY <1>1 DEF IInv, Types, PcOK
<1>3. IInv'
  BY <1>1, <1>2 DEF IInv, Progress
<1>4. CASE status = "error"
  BY <1>1, <1>3, <1>4, Failed
<1>5. CASE status # "error"
  BY <1>1, <1>3, <1>5, Unmoved
<1> QED
  BY <1>3, <1>4, <1>5

LEMMA OpenStep ==
  ASSUME IInv, OpenLob
  PROVE  IInv' /\ Advances
<1>1. PICK a \in Fallible("open", "ok") :
        /\ Answered("open", a)
        /\ open' = (a # "error")
        /\ pc' = IF a = "error" THEN "done" ELSE "write"
  BY DEF OpenLob
<1>2. a \in {"ok", "busy", "error"} /\ status' = a /\ pending' \in {"none"} \union Busy
  BY <1>1, Answers, AnsweredOK DEF IInv, Types
<1>3. /\ UNCHANGED <<way, length, src, dst, pos, buf, nbytes, remainder, piece>>
      /\ pc = "open" /\ way = "write"
  BY DEF OpenLob, IInv, Types, PcOK
<1>4. PieceLoaded /\ status # "error"
  BY <1>3 DEF IInv, Progress
<1>5. pc' = IF status' = "error" THEN "done" ELSE "write"
  BY <1>1, <1>2
<1>6. Types'
  BY <1>1, <1>2, <1>3, <1>5 DEF IInv, Types, PcOK, Statuses
<1>7. PieceLoaded'
  BY <1>3, <1>4 DEF PieceLoaded
<1>8. IInv'
  BY <1>5, <1>6, <1>7 DEF IInv, Progress
<1> QED
  BY <1>3, <1>4, <1>8, Unmoved

LEMMA CloseStep ==
  ASSUME IInv, CloseLob
  PROVE  IInv' /\ Advances
<1>1. PICK a \in Fallible("close", "ok") :
        /\ Answered("close", a)
        /\ open' = (a # "ok")
        /\ pc' = IF CloseRepeated(a) THEN "close" ELSE "done"
  BY DEF CloseLob
<1>2. a \in {"ok", "busy", "error"} /\ status' = a /\ pending' \in {"none"} \union Busy
  BY <1>1, Answers, AnsweredOK DEF IInv, Types
<1>3. /\ UNCHANGED <<way, length, src, dst, pos, buf, nbytes, remainder, piece>>
      /\ pc = "close" /\ way = "write"
  BY DEF CloseLob, IInv, Types, PcOK
<1>4. dst = Bytes(length) /\ status # "error"
  BY <1>3 DEF IInv, Progress
<1>5. pc' = IF status' = "busy" THEN "close" ELSE "done"
  BY <1>1, <1>2 DEF CloseRepeated
<1>6. Types'
  BY <1>1, <1>2, <1>3, <1>5 DEF IInv, Types, PcOK, Statuses
<1>7. IInv'
  BY <1>3, <1>4, <1>5, <1>6 DEF IInv, Progress
<1> QED
  BY <1>3, <1>4, <1>7, Unmoved

\* n bytes that the source still has are read into the buffer.
LEMMA FreadOK ==
  ASSUME IInv, NEW n \in Nat, n <= MaxLong, n <= length - pos, Fread(n)
  PROVE  /\ pos' = pos + n
         /\ buf' \in [1 .. MaxLong -> Nat]
         /\ \A i \in 1 .. n : buf'[i] = pos + i
<1>1. /\ src = Bytes(length) /\ Len(src) = length
      /\ \A i \in 1 .. length : src[i] = i
  BY BytesSeq, LengthBytes DEF IInv, Types
<1>2. Smaller(n, Len(src) - pos) = n
  BY <1>1, LengthBytes DEF Smaller
<1>3. /\ buf' = [i \in 1 .. MaxLong |-> IF i <= n THEN src[pos + i] ELSE buf[i]]
      /\ pos' = pos + n
  BY <1>2 DEF Fread
<1>4. \A i \in 1 .. n : src[pos + i] = pos + i
  BY <1>1, LengthBytes
<1>5. \A i \in 1 .. MaxLong : buf[i] \in Nat
  BY DEF IInv, Types
<1> QED
  BY <1>3, <1>4, <1>5, LengthBytes

LEMMA StartStep ==
  ASSUME IInv, WriteStream
  PROVE  IInv' /\ Advances
<1> DEFINE n == Smaller(length, MaxLong)
<1>1. /\ pc = "start" /\ way = "write"
      /\ UNCHANGED <<way, length, src, dst, open, pending>>
      /\ Fread(n) /\ nbytes' = n
  BY DEF WriteStream, IInv, Types, PcOK
<1>2. AtStart /\ status # "error"
  BY <1>1 DEF IInv, Progress
<1>3. n \in Nat /\ n <= MaxLong /\ n <= length - pos /\ (n > 0 <=> length > 0)
  BY <1>2, LengthBytes, SizeAssumption DEF Smaller, AtStart
<1>4. /\ pos' = n
      /\ buf' \in [1 .. MaxLong -> Nat]
      /\ \A i \in 1 .. n : buf'[i] = i
  <2>1. /\ pos' = pos + n
        /\ buf' \in [1 .. MaxLong -> Nat]
        /\ \A i \in 1 .. n : buf'[i] = pos + i
    BY <1>1, <1>3, FreadOK
  <2> QED
    BY <2>1, <1>2, <1>3 DEF AtStart
<1>5. CASE ~ItemRead(n)
  <2>1. pc' = "done" /\ status' = "error" /\ UNCHANGED <<remainder, piece>>
    BY <1>5 DEF WriteStream
  <2>2. Types'
    BY <2>1, <1>1, <1>2, <1>3, <1>4, LengthBytes DEF IInv, Types, PcOK, Statuses, AtStart
  <2> QED
    BY <2>1, <2>2, <1>1, Failed DEF IInv
<1>6. CASE ItemRead(n)
  <2>1. /\ remainder' = length - n /\ status' = "ok"
        /\ IF remainder' = 0 THEN pc' = "write" /\ piece' = "one"
           ELSE pc' = "open" /\ piece' = "first"
    BY <1>2, <1>6 DEF WriteStream, AtStart
  <2>2. n > 0
    BY <1>6 DEF ItemRead
  <2>3. Types'
    BY <2>1, <1>1, <1>2, <1>3, <1>4, LengthBytes DEF IInv, Types, PcOK, Statuses, Pieces, AtStart
  <2>4. PieceLoaded'
    <3>1. dst' = Bytes(pos' - nbytes')
      BY <1>1, <1>2, <1>3, <1>4, NoBytes DEF AtStart
    <3>2. /\ nbytes' \in 1 .. pos' /\ remainder' = length' - pos'
          /\ \A i \in 1 .. nbytes' : buf'[i] = pos' - nbytes' + i
      BY <1>1, <1>3, <1>4, <2>1, <2>2
    <3>3. piece' \in {"one", "last"} <=> remainder' = 0
      BY <2>1
    <3> QED
      BY <3>1, <3>2, <3>3 DEF PieceLoaded
  <2>5. IInv'
    BY <2>1, <2>3, <2>4 DEF IInv, Progress
  <2> QED
    BY <2>5, <1>1, <1>2, Unmoved
<1> QED
  BY <1>5, <1>6

LEMMA FillStep ==
  ASSUME IInv, ReadPiece
  PROVE  IInv' /\ Advances
<1> DEFINE n == Smaller(remainder, MaxLong)
<1>1. /\ pc = "fill" /\ pc' = "write" /\ way = "write"
      /\ UNCHANGED <<way, length, src, dst, status, open, pending>>
      /\ nbytes' = n /\ Fread(n) /\ remainder' = remainder - n
      /\ piece' = IF remainder > MaxLong /\ ItemRead(n) THEN "next" ELSE "last"
  BY DEF ReadPiece, Left, IInv, Types, PcOK
<1>2. dst = Bytes(pos) /\ remainder = length - pos /\ remainder > 0 /\ status # "error"
  BY <1>1 DEF IInv, Progress
<1>3. n \in Nat /\ n > 0 /\ n <= MaxLong /\ n <= remainder
  BY <1>2, LengthBytes, SizeAssumption DEF Smaller
<1>4. /\ pos' = pos + n
      /\ buf' \in [1 .. MaxLong -> Nat]
      /\ \A i \in 1 .. n : buf'[i] = pos + i
  BY <1>1, <1>2, <1>3, FreadOK
<1>5. piece' \in {"next", "last"} /\ (piece' = "last" <=> remainder' = 0)
  <2>1. ItemRead(n)
    <3>1. Len(src) = length
      BY BytesSeq, LengthBytes DEF IInv, Types
    <3> QED
      BY <3>1, <1>2, <1>3, LengthBytes DEF ItemRead
  <2>2. remainder > MaxLong <=> remainder - n # 0
    BY <1>2, LengthBytes, SizeAssumption DEF Smaller
  <2> QED
    BY <1>1, <2>1, <2>2
<1>6. Types'
  BY <1>1, <1>2, <1>3, <1>4, <1>5, LengthBytes DEF IInv, Types, PcOK, Pieces
<1>7. PieceLoaded'
  <2>1. pos' - nbytes' = pos
    BY <1>1, <1>3, <1>4, LengthBytes
  <2>2. /\ nbytes' \in 1 .. pos' /\ remainder' = length' - pos'
        /\ \A i \in 1 .. nbytes' : buf'[i] = pos' - nbytes' + i
    <3>1. nbytes' = n /\ pos' = pos + n /\ remainder' = length - pos - n /\ length' = length
      BY <1>1, <1>2, <1>4
    <3>2. nbytes' \in 1 .. pos' /\ remainder' = length' - pos'
      BY <3>1, <1>3, LengthBytes
    <3>3. \A i \in 1 .. nbytes' : buf'[i] = pos' - nbytes' + i
      BY <2>1, <1>1, <1>4
    <3> QED
      BY <3>2, <3>3
  <2>3. dst' = Bytes(pos' - nbytes')
    BY <1>1, <1>2, <2>1
  <2>4. piece' \in {"one", "last"} <=> remainder' = 0
    BY <1>5
  <2> QED
    BY <2>2, <2>3, <2>4 DEF PieceLoaded
<1>8. IInv'
  BY <1>1, <1>2, <1>6, <1>7 DEF IInv, Progress
<1> QED
  BY <1>1, <1>2, <1>8, Unmoved

\* What OCI may answer to a piece, and what the connection shows of it.
LEMMA WriteAnswersOK ==
  ASSUME NEW p, NEW sent, NEW a \in WriteAnswers(p, sent),
         Answered("write", IF a = "info" THEN "error" ELSE a), pending \in {"none"} \union Busy
  PROVE  /\ a \in {"ok", "need", "busy", "error", "info"}
         /\ a = "ok" => p \in {"one", "last"}
         /\ a = "need" => p \notin {"one", "last"}
         /\ status' = IF a = "info" THEN "error" ELSE a
         /\ pending' \in {"none"} \union Busy
<1>1. /\ a \in {"ok", "need", "busy", "error", "info"}
      /\ a = "ok" => p \in {"one", "last"}
      /\ a = "need" => p \notin {"one", "last"}
      /\ a = "busy" => "write" \in Busy
  BY DEF WriteAnswers, Fallible
<1>2. status' = IF a = "info" THEN "error" ELSE a
  BY DEF Answered
<1>3. CASE a = "busy"
  BY <1>1, <1>2, <1>3 DEF Answered
<1>4. CASE a # "busy"
  BY <1>1, <1>2, <1>4 DEF Answered
<1> QED
  BY <1>3, <1>4

LEMMA WriteStep ==
  ASSUME IInv, WriteBuffer
  PROVE  IInv' /\ Advances
<1>1. PICK a \in WriteAnswers(piece, nbytes) :
        /\ Answered("write", IF a = "info" THEN "error" ELSE a)
        /\ Stored(a, SubSeq(buf, 1, nbytes))
        /\ pc' = AfterWrite(a)
  BY DEF WriteBuffer
<1>2. /\ UNCHANGED <<way, length, src, pos, buf, nbytes, remainder, piece, open>>
      /\ pc = "write" /\ way = "write"
  BY DEF WriteBuffer, IInv, Types, PcOK
<1>3. /\ a \in {"ok", "need", "busy", "error", "info"}
      /\ a = "ok" => piece \in {"one", "last"}
      /\ a = "need" => piece \notin {"one", "last"}
      /\ status' = IF a = "info" THEN "error" ELSE a
      /\ pending' \in {"none"} \union Busy
  BY <1>1, WriteAnswersOK DEF IInv, Types
<1>4. PieceLoaded /\ status # "error"
  BY <1>2 DEF IInv, Progress
<1>5. pc' \in {"write", "fill", "close", "done"}
  BY <1>1, <1>3 DEF AfterWrite
<1>6. Types'
  BY <1>2, <1>3, <1>5 DEF IInv, Types, PcOK, Statuses
<1>7. CASE a \in {"error", "info"}
  <2>1. status' = "error" /\ pc' = "done"
    BY <1>1, <1>3, <1>7 DEF AfterWrite
  <2> QED
    BY <1>2, <1>6, <2>1, Failed DEF IInv
<1>8. CASE a = "busy"
  <2>1. status' = "busy" /\ pc' = "write" /\ dst' = dst
    BY <1>1, <1>3, <1>8 DEF AfterWrite, Stored
  <2>2. PieceLoaded'
    BY <1>2, <1>4, <2>1 DEF PieceLoaded
  <2>3. IInv'
    BY <1>6, <2>1, <2>2 DEF IInv, Progress
  <2> QED
    BY <1>2, <1>4, <2>1, <2>3, Unmoved
<1>9. CASE a \in {"ok", "need"}
  <2>1. dst' = Bytes(pos)
    <3>1. Bytes(pos - nbytes) \o SubSeq(buf, 1, nbytes) = Bytes(pos - nbytes + nbytes)
      <4>1. pos - nbytes \in Nat /\ nbytes <= MaxLong
        BY <1>4, LengthBytes DEF PieceLoaded, IInv, Types
      <4> QED
        BY <4>1, <1>4, BufferAppended, LengthBytes DEF PieceLoaded, IInv, Types
    <3>2. pos - nbytes + nbytes = pos
      BY LengthBytes
    <3> QED
      BY <1>1, <1>4, <1>9, <3>1, <3>2 DEF Stored, PieceLoaded
  <2>2. status' = a /\ remainder = length - pos /\ (piece \in {"one", "last"} <=> remainder = 0)
    BY <1>3, <1>4, <1>9 DEF PieceLoaded
  <2>3. IInv'
    <3>1. CASE a = "need"
      <4>1. pc' = "fill"
        BY <1>1, <3>1 DEF AfterWrite
      <4>2. remainder > 0
        BY <1>3, <2>2, <3>1, LengthBytes
      <4> QED
        BY <1>2, <1>6, <2>1, <2>2, <3>1, <4>1, <4>2 DEF IInv, Progress
    <3>2. CASE a = "ok"
      <4>1. pc' \in {"done", "close"}
        BY <1>1, <3>2 DEF AfterWrite
      <4>2. pos = length
        BY <1>3, <2>2, <3>2, LengthBytes
      <4> QED
        BY <1>2, <1>6, <2>1, <2>2, <3>2, <4>1, <4>2 DEF IInv, Progress
    <3> QED
      BY <1>9, <3>1, <3>2
  <2>4. Advances
    <3>1. pos - nbytes \in Nat /\ pos - nbytes <= pos /\ pos <= length /\ dst = Bytes(pos - nbytes)
      BY <1>4, LengthBytes DEF PieceLoaded, IInv, Types
    <3> QED
      BY <1>2, <1>4, <2>1, <3>1, LengthBytes, Grows
  <2> QED
    BY <2>3, <2>4
<1> QED
  BY <1>3, <1>7, <1>8, <1>9

LEMMA AppendStep ==
  ASSUME IInv, AppendBuffer
  PROVE  IInv' /\ Advances
<1> DEFINE bufl  == Smaller(length - pos, MaxLong)
           asked == IF pos = 0 THEN "first" ELSE IF pos + bufl = length THEN "last" ELSE "next"
           p     == PieceSent(length, bufl, asked)
<1>1. PICK a \in WriteAnswers(p, bufl) :
        /\ a # "info"
        /\ Answered("write", a)
        /\ Stored(a, SubSeq(src, pos + 1, pos + bufl))
        /\ pos' = IF a \in {"ok", "need"} THEN pos + bufl ELSE pos
        /\ pc' = IF a \in {"busy", "need"} THEN "piece" ELSE "done"
  BY DEF AppendBuffer
<1>2. /\ UNCHANGED <<way, length, src, buf, nbytes, remainder, piece, open>>
      /\ pc = "piece" /\ way = "append"
  BY DEF AppendBuffer, IInv, Types, PcOK
<1>3. /\ a \in {"ok", "need", "busy", "error"}
      /\ a = "ok" => p \in {"one", "last"}
      /\ status' = a
      /\ pending' \in {"none"} \union Busy
  <2>1. Answered("write", IF a = "info" THEN "error" ELSE a)
    BY <1>1
  <2>2. pending \in {"none"} \union Busy
    BY DEF IInv, Types
  <2> HIDE DEF p, bufl
  <2>3. /\ a \in {"ok", "need", "busy", "error", "info"}
        /\ a = "ok" => p \in {"one", "last"}
        /\ status' = IF a = "info" THEN "error" ELSE a
        /\ pending' \in {"none"} \union Busy
    BY <2>1, <2>2, WriteAnswersOK
  <2> QED
    BY <1>1, <2>3
<1>4. dst = Bytes(pos) /\ status # "error"
  BY <1>2 DEF IInv, Progress
<1>5. /\ bufl \in Nat /\ pos + bufl <= length
      /\ p \in {"one", "last"} => pos + bufl = length
  <2>1. pos \in 0 .. length
    BY DEF IInv, Types
  <2>2. bufl \in Nat /\ pos + bufl <= length
    BY <2>1, LengthBytes DEF Smaller
  <2>3. p \in {"one", "last"} => pos + bufl = length
    BY <2>1, <2>2, LengthBytes DEF PieceSent
  <2> QED
    BY <2>2, <2>3
<1> HIDE DEF bufl, p
<1>6. CASE a = "error"
  <2>1. status' = "error" /\ pc' = "done" /\ pos' = pos
    BY <1>1, <1>3, <1>6
  <2>2. Types'
    BY <1>2, <1>3, <2>1 DEF IInv, Types, PcOK, Statuses
  <2> QED
    BY <1>2, <2>1, <2>2, Failed DEF IInv
<1>7. CASE a = "busy"
  <2>1. status' = "busy" /\ pc' = "piece" /\ pos' = pos /\ dst' = dst
    BY <1>1, <1>3, <1>7 DEF Stored
  <2>2. Types'
    BY <1>2, <1>3, <2>1 DEF IInv, Types, PcOK, Statuses
  <2>3. IInv'
    BY <1>4, <2>1, <2>2 DEF IInv, Progress
  <2> QED
    BY <1>2, <1>4, <2>1, <2>3, Unmoved
<1>8. CASE a \in {"ok", "need"}
  <2>1. pos' = pos + bufl /\ status' = a
    BY <1>1, <1>3, <1>8
  <2>2. dst' = Bytes(pos + bufl)
    <3>1. Bytes(pos) \o SubSeq(Bytes(length), pos + 1, pos + bufl) = Bytes(pos + bufl)
      BY <1>5, LengthBytes, SourceAppended, ZenonT(30)
    <3>2. src = Bytes(length)
      BY DEF IInv, Types
    <3> QED
      BY <1>1, <1>4, <1>8, <3>1, <3>2 DEF Stored
  <2>3. pc' = "piece" \/ (pc' = "done" /\ pos' = length)
    BY <1>1, <1>3, <1>5, <1>8, <2>1
  <2>4. Types'
    BY <1>2, <1>3, <1>5, <2>1, <2>3, LengthBytes DEF IInv, Types, PcOK, Statuses
  <2>5. IInv'
    BY <1>2, <1>8, <2>1, <2>2, <2>3, <2>4 DEF IInv, Progress
  <2>6. Advances
    BY <1>2, <1>4, <1>5, <2>2, LengthBytes, Grows
  <2> QED
    BY <2>5, <2>6
<1> QED
  BY <1>3, <1>6, <1>7, <1>8

LEMMA ReadStep ==
  ASSUME IInv, ReadBuffer
  PROVE  IInv' /\ Advances
<1> DEFINE got == Smaller(Smaller(length, nbytes), Len(src) - pos)
           new == [i \in 1 .. MaxLong |-> IF i <= got THEN src[pos + i] ELSE buf[i]]
           good == IF pos + got = Len(src) THEN "ok" ELSE "need"
<1>1. PICK a \in Fallible("read", good) :
        /\ Answered("read", a)
        /\ IF a \in {"ok", "need"} THEN pos' = pos + got /\ buf' = new ELSE UNCHANGED <<pos, buf>>
        /\ pc' = CASE a = "busy"                        -> "read"
                   [] a = "error" /\ remainder = length -> "done"
                   [] OTHER                             -> "store"
  BY DEF ReadBuffer
<1>2. /\ UNCHANGED <<way, length, src, dst, nbytes, remainder, piece, open>>
      /\ pc = "read" /\ way = "read"
  BY DEF ReadBuffer, IInv, Types, PcOK
<1>3. a \in {good, "busy", "error"} /\ status' = a /\ pending' \in {"none"} \union Busy
  BY <1>1, Answers, AnsweredOK DEF IInv, Types
<1>4. /\ dst = Bytes(pos) /\ remainder = length - pos /\ nbytes = Smaller(length, MaxLong)
      /\ status # "error"
  BY <1>2 DEF IInv, Progress
<1>5. Len(src) = length
  BY BytesSeq, LengthBytes DEF IInv, Types
<1>6. /\ got = Kept(remainder) /\ got \in Nat /\ got <= MaxLong /\ got <= length - pos
  <2>1. pos \in 0 .. length
    BY DEF IInv, Types
  <2> QED
    BY <1>4, <1>5, <2>1, LengthBytes DEF Kept, Smaller
<1>7. CASE a = "error"
  <2>1. status' = "error" /\ pc' \in {"done", "store"} /\ UNCHANGED <<pos, buf>>
    BY <1>1, <1>3, <1>7
  <2>2. Types'
    BY <1>2, <1>3, <2>1 DEF IInv, Types, PcOK, Statuses
  <2> QED
    BY <1>2, <2>1, <2>2, Failed DEF IInv
<1>8. CASE a = "busy"
  <2>1. status' = "busy" /\ pc' = "read" /\ UNCHANGED <<pos, buf>>
    BY <1>1, <1>3, <1>8
  <2>2. Types'
    BY <1>2, <1>3, <2>1 DEF IInv, Types, PcOK, Statuses
  <2>3. IInv'
    BY <1>2, <1>4, <2>1, <2>2 DEF IInv, Progress
  <2> QED
    BY <1>2, <1>4, <2>3, Unmoved
<1>9. CASE a = good
  <2>1. status' = good /\ pc' = "store" /\ pos' = pos + got /\ buf' = new
    BY <1>1, <1>3, <1>9
  <2>2. Fread(got)
    <3>1. Smaller(got, Len(src) - pos) = got
      BY <1>5, <1>6, LengthBytes DEF Smaller
    <3> HIDE DEF got
    <3> QED
      BY <2>1, <3>1 DEF Fread
  <2>3. /\ buf' \in [1 .. MaxLong -> Nat]
        /\ \A i \in 1 .. got : buf'[i] = pos + i
    <3> HIDE DEF got
    <3> QED
      BY <1>6, <2>2, FreadOK
  <2> HIDE DEF got, new
  <2>4. Types'
    BY <1>2, <1>3, <1>6, <2>1, <2>3, LengthBytes DEF IInv, Types, PcOK, Statuses
  <2>5. PieceRead'
    <3>1. length' - remainder' = pos /\ Kept(remainder)' = got
      BY <1>2, <1>4, <1>6, LengthBytes DEF Kept
    <3>2. nbytes' = Smaller(length', MaxLong) /\ dst' = Bytes(length' - remainder')
      BY <1>2, <1>4, <3>1
    <3>3. pos' = length' - remainder' + Kept(remainder)'
      BY <2>1, <3>1
    <3>4. \A i \in 1 .. Kept(remainder)' : buf'[i] = length' - remainder' + i
      BY <2>3, <3>1
    <3>5. status' = IF pos' = length' THEN "ok" ELSE "need"
      BY <1>2, <1>5, <2>1
    <3> QED
      BY <3>2, <3>3, <3>4, <3>5 DEF PieceRead
  <2>6. IInv'
    BY <2>1, <2>4, <2>5 DEF IInv, Progress
  <2> QED
    BY <1>2, <1>4, <2>6, Unmoved
<1> QED
  BY <1>3, <1>7, <1>8, <1>9

LEMMA StoreStep ==
  ASSUME "fwrite" \notin Faults, IInv, Store
  PROVE  IInv' /\ Advances
<1>1. /\ UNCHANGED <<way, length, src, pos, nbytes, piece, status, open, pending>>
      /\ pc = "store" /\ way = "read" /\ dst' = dst \o SubSeq(buf, 1, Kept(remainder))
  BY DEF Store, IInv, Types, PcOK
<1>2. CASE status = "error"
  <2>1. pc' = "done" /\ UNCHANGED <<remainder, buf>>
    BY <1>2 DEF Store
  <2>2. Types'
    BY <1>1, <2>1 DEF IInv, Types, PcOK
  <2> QED
    BY <1>1, <1>2, <2>1, <2>2, Failed DEF IInv
<1>3. CASE status # "error"
  <2>1. PieceRead
    BY <1>1, <1>3 DEF IInv, Progress
  <2>2. Kept(remainder) \in Nat /\ Kept(remainder) <= MaxLong /\ length - remainder \in Nat
    <3>1. remainder \in 0 .. length /\ nbytes \in 0 .. MaxLong
      BY DEF IInv, Types
    <3> QED
      BY <3>1, LengthBytes DEF Kept, Smaller
  <2>3. dst' = Bytes(pos)
    <3>1. Bytes(length - remainder) \o SubSeq(buf, 1, Kept(remainder))
            = Bytes(length - remainder + Kept(remainder))
      <4>1. buf \in [1 .. MaxLong -> Nat]
        BY DEF IInv, Types
      <4>2. \A i \in 1 .. Kept(remainder) : buf[i] = length - remainder + i
        BY <2>1 DEF PieceRead
      <4> QED
        BY <2>2, <4>1, <4>2, BufferAppended
    <3> QED
      BY <1>1, <2>1, <3>1 DEF PieceRead
  <2>4. Advances
    <3>1. dst = Bytes(length - remainder) /\ length - remainder <= pos /\ pos <= length
      BY <2>1, <2>2, LengthBytes DEF PieceRead, IInv, Types
    <3> QED
      BY <1>1, <1>3, <2>2, <2>3, <3>1, LengthBytes, Grows
  <2>5. CASE status = "ok"
    <3>1. pc' = "done" /\ UNCHANGED <<remainder, buf>> /\ pos = length
      BY <2>1, <2>5 DEF Store, PieceRead
    <3>2. Types'
      BY <1>1, <3>1 DEF IInv, Types, PcOK
    <3>3. IInv'
      BY <1>1, <1>3, <2>3, <3>1, <3>2 DEF IInv, Progress
    <3> QED
      BY <2>4, <3>3
  <2>6. CASE status = "need"
    <3>1. /\ pc' = "read" /\ remainder' = remainder - nbytes
          /\ buf' = [i \in 1 .. MaxLong |-> 0]
      BY <2>6 DEF Store
    <3>2. remainder' = length - pos
      <4>1. pos # length /\ pos = length - remainder + Kept(remainder)
        BY <2>1, <2>6 DEF PieceRead
      <4>2. Kept(remainder) = nbytes
        BY <4>1, LengthBytes DEF Kept, Smaller
      <4> QED
        BY <3>1, <4>1, <4>2, LengthBytes
    <3>3. remainder' \in 0 .. length
      BY <3>2, LengthBytes DEF IInv, Types
    <3>4. Types'
      BY <1>1, <3>1, <3>3, LengthBytes DEF IInv, Types, PcOK
    <3>5. nbytes = Smaller(length, MaxLong)
      BY <2>1 DEF PieceRead
    <3>6. IInv'
      BY <1>1, <1>3, <2>3, <3>1, <3>2, <3>4, <3>5 DEF IInv, Progress
    <3> QED
      BY <2>4, <3>6
  <2> QED
    BY <2>1, <2>5, <2>6 DEF PieceRead
<1> QED
  BY <1>2, <1>3

LEMMA IInvInit ==
  ASSUME "short" \notin Faults, Init
  PROVE  IInv
<1>1. length \in 0 .. MaxLength /\ length \in Nat /\ MaxLong \in Nat
  BY SizeAssumption DEF Init
<1>2. src = Bytes(length)
  BY DEF Init
<1>3. Types
  <2>1. /\ way \in {"write", "append", "read"} /\ PcOK
        /\ status \in Statuses /\ pending \in {"none"} \union Busy /\ open \in BOOLEAN
        /\ piece \in Pieces
    BY DEF Init, PcOK, Statuses, Pieces
  <2>2. pos \in 0 .. length /\ remainder \in 0 .. length /\ nbytes \in 0 .. MaxLong
    BY <1>1 DEF Init
  <2>3. buf \in [1 .. MaxLong -> Nat]
    BY DEF Init
  <2> QED
    BY <1>1, <1>2, <2>1, <2>2, <2>3 DEF Types
<1> QED
  BY <1>3 DEF Init, IInv, Progress, AtStart

LEMMA IInvNext ==
  ASSUME "fwrite" \notin Faults, IInv, Next
  PROVE  IInv' /\ Advances
BY AllocStep, LengthStep, FreeStep, StartStep, OpenStep, FillStep, WriteStep, CloseStep,
   AppendStep, ReadStep, StoreStep DEF Next

\* Only the release of the descriptor ends a transfer.
LEMMA Ending ==
  ASSUME IInv, Next, pc' = "end"
  PROVE  FreeLobDesc
<1>1. ~AllocLobDesc
  BY DEF AllocLobDesc, IInv, Types
<1>2. ~GetLength
  <2>1. \A a \in Fallible("length", "ok") : a \in {"ok", "busy", "error"}
    BY Answers
  <2> QED
    BY <2>1 DEF GetLength
<1>3. ~WriteStream /\ ~OpenLob /\ ~ReadPiece /\ ~CloseLob
  BY DEF WriteStream, OpenLob, ReadPiece, CloseLob
<1>4. ~WriteBuffer
  <2>1. \A a \in WriteAnswers(piece, nbytes) : a \in {"ok", "need", "busy", "error", "info"}
    BY DEF WriteAnswers, Fallible
  <2> QED
    BY <2>1 DEF WriteBuffer, AfterWrite
<1>5. ~AppendBuffer
  BY DEF AppendBuffer
<1>6. ~ReadBuffer
  BY DEF ReadBuffer
<1>7. ~Store
  BY DEF Store
<1> QED
  BY <1>1, <1>2, <1>3, <1>4, <1>5, <1>6, <1>7 DEF Next

-----------------------------------------------------------------------------
(* The theorems.                                                           *)

\* Files are as long as they are said to be, and there is room on the disk.
FilesGood == Faults \cap {"short", "fwrite"} = {}

LEMMA Invariance ==
  ASSUME FilesGood
  PROVE  Spec => []IInv
<1>1. Init => IInv
  BY IInvInit DEF FilesGood
<1>2. IInv /\ [Next]_vars => IInv'
  <2>1. ASSUME IInv, Next PROVE IInv'
    BY <2>1, IInvNext DEF FilesGood
  <2>2. ASSUME IInv, UNCHANGED vars PROVE IInv'
    BY <2>2 DEF vars, IInv, Types, PcOK, Progress, AtStart, PieceLoaded, PieceRead, Kept
  <2> QED
    BY <2>1, <2>2
<1> QED
  BY <1>1, <1>2, PTL DEF Spec

\* The counts of the stream functions, unsigned ints of the C code, stay within the
\* length of the source and the size of the buffer.
THEOREM TypeCorrect ==
  ASSUME FilesGood
  PROVE  Spec => []TypeOK
<1>1. IInv => TypeOK
  <2> SUFFICES ASSUME IInv PROVE TypeOK
    OBVIOUS
  <2>1. Len(buf) = MaxLong
    BY LengthBytes DEF IInv, Types
  <2>2. Len(src) = length
    BY BytesSeq, LengthBytes DEF IInv, Types
  <2> QED
    BY <2>1, <2>2 DEF IInv, Types, TypeOK
<1> QED
  BY <1>1, Invariance, PTL

\* A step of the library is a step of the abstract transfer, or changes nothing of it.
LEMMA StepRefines ==
  ASSUME IInv, IInv', Next, Advances
  PROVE  [Transfer!Next]_(Transfer!vars)
<1>1. src' = src /\ src = Bytes(length) /\ Len(src) = length
  BY BytesSeq, LengthBytes DEF Advances, IInv, Types
<1>2. CASE status = "error"
  <2>1. status' = "error"
    BY <1>2 DEF Advances
  <2> QED
    BY <1>1, <1>2, <2>1 DEF Transfer!vars
<1>3. CASE status # "error" /\ pc = "end"
  BY <1>3 DEF Next, AllocLobDesc, GetLength, FreeLobDesc, WriteStream, OpenLob, ReadPiece,
              WriteBuffer, CloseLob, AppendBuffer, ReadBuffer, Store
<1>4. CASE status # "error" /\ pc # "end" /\ status' = "error"
  <2>1. Transfer!Fail
    BY <1>1, <1>4 DEF Transfer!Fail
  <2> QED
    BY <2>1 DEF Transfer!Next
<1>5. CASE status # "error" /\ pc # "end" /\ status' # "error" /\ pc' = "end"
  <2>1. FreeLobDesc
    BY <1>5, Ending
  <2>2. dst = src /\ dst' = dst
    BY <1>1, <1>5, <2>1 DEF FreeLobDesc, IInv, Progress
  <2>3. Transfer!Succeed
    BY <1>1, <1>5, <2>2 DEF Transfer!Succeed
  <2> QED
    BY <2>3 DEF Transfer!Next
<1>6. CASE status # "error" /\ pc # "end" /\ status' # "error" /\ pc' # "end"
  <2>1. PICK n \in Len(dst) .. length : dst' = Bytes(n)
    BY <1>6 DEF Advances
  <2>2. PICK k \in 0 .. length : dst = Bytes(k)
    BY <1>6, NoBytes, LengthBytes DEF IInv, Types, PcOK, Progress, AtStart, PieceLoaded, PieceRead
  <2>3. Len(dst) = k
    BY <2>2, BytesSeq, LengthBytes
  <2>4. CASE n = k
    BY <1>1, <1>6, <2>1, <2>2, <2>4 DEF Transfer!vars
  <2>5. CASE n # k
    <3>1. n \in Len(dst) + 1 .. Len(src)
      BY <1>1, <2>1, <2>3, <2>5, LengthBytes
    <3>2. dst' = SubSeq(src, 1, n)
      BY <1>1, <2>1, <2>3, LengthBytes, Prefix, SMTT(20)
    <3>3. Transfer!Move
      BY <1>1, <1>6, <3>1, <3>2 DEF Transfer!Move
    <3> QED
      BY <3>3 DEF Transfer!Next
  <2> QED
    BY <2>4, <2>5
<1> QED
  BY <1>2, <1>3, <1>4, <1>5, <1>6

\* sqlo_lob_write_stream, sqlo_lob_read_stream and the append of pieces move every byte
\* once and in order, for every length of the source and every size of the buffer, an
\* exact multiple among them, and report success only if all have arrived.
THEOREM Transfers ==
  ASSUME FilesGood
  PROVE  Spec => TransferSpec
<1>1. Init => Transfer!Init
  <2> SUFFICES ASSUME Init PROVE Transfer!Init
    OBVIOUS
  <2>1. src = Bytes(length) /\ length \in 0 .. MaxLength
    BY DEF Init, FilesGood
  <2> QED
    BY <2>1 DEF Init, Transfer!Init
<1>2. IInv /\ [Next]_vars => [Transfer!Next]_(Transfer!vars)
  <2>1. ASSUME IInv, Next PROVE [Transfer!Next]_(Transfer!vars)
    BY <2>1, IInvNext, StepRefines DEF FilesGood
  <2>2. ASSUME UNCHANGED vars PROVE UNCHANGED Transfer!vars
    BY <2>2 DEF vars, Transfer!vars
  <2> QED
    BY <2>1, <2>2
<1> QED
  BY <1>1, <1>2, Invariance, PTL DEF Spec, TransferSpec, Transfer!Spec

\* A call that is still executing is the next one made.
LEMMA PendingNext ==
  ASSUME "open" \notin Busy, IInv, PollsOneCall, pending # "none"
  PROVE  pc = (IF pending = "write" /\ way = "append" THEN "piece" ELSE pending)
         /\ pending \in {"length", "write", "close", "read"}
BY BusyAssumption DEF IInv, Types, PollsOneCall

LEMMA PollsStep ==
  ASSUME "open" \notin Busy, IInv, PollsOneCall, Next
  PROVE  PollsOneCall'
<1> USE DEF PollsOneCall
<1>1. CASE AllocLobDesc
  <2>1. \A a \in Fallible("alloc", "ok") : a # "busy"
    BY Answers, BusyAssumption
  <2> QED
    BY <1>1, <2>1, PendingNext DEF AllocLobDesc, Answered
<1>2. CASE GetLength
  BY <1>2, PendingNext DEF GetLength, Answered
<1>3. CASE FreeLobDesc
  BY <1>3, PendingNext DEF FreeLobDesc
<1>4. CASE WriteStream
  BY <1>4, PendingNext DEF WriteStream
<1>5. CASE OpenLob
  <2>1. \A a \in Fallible("open", "ok") : a # "busy"
    BY Answers
  <2> QED
    BY <1>5, <2>1, PendingNext DEF OpenLob, Answered
<1>6. CASE ReadPiece
  BY <1>6, PendingNext DEF ReadPiece
<1>7. CASE WriteBuffer
  <2>1. pc = "write" /\ way = "write" /\ way' = way
    BY <1>7 DEF WriteBuffer, IInv, Types, PcOK
  <2>2. PICK a \in WriteAnswers(piece, nbytes) :
          Answered("write", IF a = "info" THEN "error" ELSE a) /\ pc' = AfterWrite(a)
    BY <1>7 DEF WriteBuffer
  <2>3. CASE a = "busy"
    <3>1. pending' = "write" /\ pc' = "write"
      BY <2>2, <2>3 DEF Answered, AfterWrite
    <3> QED
      BY <2>1, <3>1
  <2>4. CASE a # "busy"
    <3>1. pending \in {"none", "write"}
      BY <2>1, PendingNext
    <3>2. pending' = "none"
      BY <2>2, <2>4, <3>1 DEF Answered
    <3> QED
      BY <3>2
  <2> QED
    BY <2>3, <2>4
<1>8. CASE CloseLob
  BY <1>8, PendingNext DEF CloseLob, Answered, CloseRepeated
<1>9. CASE AppendBuffer
  <2>1. pc = "piece" /\ way = "append" /\ way' = way
    BY <1>9 DEF AppendBuffer, IInv, Types, PcOK
  <2>2. PICK a : Answered("write", a) /\ pc' = IF a \in {"busy", "need"} THEN "piece" ELSE "done"
    BY <1>9 DEF AppendBuffer
  <2>3. pending \in {"none", "write"}
    BY <2>1, PendingNext
  <2> QED
    BY <2>1, <2>2, <2>3 DEF Answered
<1>10. CASE ReadBuffer
  BY <1>10, PendingNext DEF ReadBuffer, Answered
<1>11. CASE Store
  BY <1>11, PendingNext DEF Store
<1> QED
  BY <1>1, <1>2, <1>3, <1>4, <1>5, <1>6, <1>7, <1>8, <1>9, <1>10, <1>11 DEF Next

\* While a call of OCI is still executing, no other is made and no function returns,
\* if OCILobOpen, which the code does not repeat, is none of those.
THEOREM RepeatsCalls ==
  ASSUME FilesGood, "open" \notin Busy
  PROVE  Spec => []PollsOneCall
<1>1. Init => PollsOneCall
  BY DEF Init, PollsOneCall
<1>2. IInv /\ PollsOneCall /\ [Next]_vars => PollsOneCall'
  <2>1. ASSUME IInv, PollsOneCall, Next PROVE PollsOneCall'
    BY <2>1, PollsStep
  <2>2. ASSUME PollsOneCall, UNCHANGED vars PROVE PollsOneCall'
    BY <2>2 DEF vars, PollsOneCall
  <2> QED
    BY <2>1, <2>2
<1> QED
  BY <1>1, <1>2, Invariance, PTL DEF Spec

LEMMA OpenStays ==
  ASSUME IInv, OpenInside, Next, Advances
  PROVE  OpenInside'
<1> SUFFICES ASSUME open', status' # "error"
             PROVE  pc' \in {"write", "fill", "close"} /\ (pc' = "write" => piece' # "one")
  BY DEF OpenInside
<1>1. status # "error"
  BY DEF Advances
<1>2. ASSUME pc \notin {"open", "write", "fill", "close"}, open' = open
      PROVE  FALSE
  BY <1>1, <1>2 DEF OpenInside
<1>3. ~AllocLobDesc /\ ~GetLength /\ ~FreeLobDesc
  BY <1>2 DEF AllocLobDesc, GetLength, FreeLobDesc
<1>4. ~WriteStream /\ ~AppendBuffer /\ ~ReadBuffer /\ ~Store
  BY <1>2 DEF WriteStream, AppendBuffer, ReadBuffer, Store
<1>5. CASE OpenLob
  <2>1. piece = "first" /\ piece' = piece
    BY <1>1, <1>5 DEF OpenLob, IInv, Progress
  <2> QED
    BY <1>5, <2>1 DEF OpenLob, Answered
<1>6. CASE ReadPiece
  BY <1>6 DEF ReadPiece
<1>7. CASE WriteBuffer
  <2>1. piece # "one" /\ piece' = piece
    BY <1>1, <1>7 DEF WriteBuffer, OpenInside
  <2>2. PICK a \in WriteAnswers(piece, nbytes) :
          Answered("write", IF a = "info" THEN "error" ELSE a) /\ pc' = AfterWrite(a)
    BY <1>7 DEF WriteBuffer
  <2>3. a \in {"ok", "need", "busy"}
    BY <2>2, WriteAnswersOK DEF IInv, Types
  <2> QED
    BY <2>1, <2>2, <2>3 DEF AfterWrite
<1>8. CASE CloseLob
  <2>1. PICK a \in Fallible("close", "ok") :
          Answered("close", a) /\ open' = (a # "ok") /\ pc' = IF CloseRepeated(a) THEN "close" ELSE "done"
    BY <1>8 DEF CloseLob
  <2>2. a = "busy"
    BY <2>1, Answers DEF Answered
  <2> QED
    BY <2>1, <2>2 DEF CloseRepeated
<1> QED
  BY <1>3, <1>4, <1>5, <1>6, <1>7, <1>8 DEF Next

\* After a write that reported success the LOB is closed, so that the indexes on it
\* are up to date.
THEOREM ClosesLob ==
  ASSUME FilesGood
  PROVE  Spec => []ClosedAfterSuccess
<1>1. Init => OpenInside
  BY DEF Init, OpenInside
<1>2. IInv /\ OpenInside /\ [Next]_vars => OpenInside'
  <2>1. ASSUME IInv, OpenInside, Next PROVE OpenInside'
    BY <2>1, IInvNext, OpenStays DEF FilesGood
  <2>2. ASSUME OpenInside, UNCHANGED vars PROVE OpenInside'
    BY <2>2 DEF vars, OpenInside
  <2> QED
    BY <2>1, <2>2
<1>3. OpenInside => ClosedAfterSuccess
  BY DEF OpenInside, ClosedAfterSuccess
<1> QED
  BY <1>1, <1>2, <1>3, Invariance, PTL DEF Spec
=============================================================================
