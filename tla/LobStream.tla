----------------------------- MODULE LobStream ------------------------------
(***************************************************************************)
(* The functions of sqlora.c for large objects: a file is written to a LOB *)
(* or a LOB to a file through a buffer of MAX_LONG_SIZE bytes, piece by    *)
(* piece, while in non-blocking mode every call of OCI may have to be made *)
(* again.  A byte is the number of its position in the source; 0 is a byte *)
(* that no source has.                                                     *)
(***************************************************************************)
EXTENDS Integers, Sequences

CONSTANTS
  MaxLong,    \* MAX_LONG_SIZE, the size of the buffer
  MaxLength,  \* the longest source
  Faults,     \* the calls that may fail
  Busy        \* the calls that may return OCI_STILL_EXECUTING

Calls == {"alloc", "length", "open", "write", "close", "read", "fwrite"}

ASSUME SizeAssumption == {MaxLong, MaxLength} \subseteq Nat \ {0}
\* "info": the first piece is answered with OCI_SUCCESS_WITH_INFO; "short": the file
\* is shorter than its caller says.
ASSUME FaultAssumption == Faults \subseteq Calls \union {"info", "short"}
ASSUME BusyAssumption == Busy \subseteq {"length", "open", "write", "close", "read"}

VARIABLES
  pc,       \* the call of OCI that is made next
  way,      \* "write" and "read" for the streams, "append" for pieces of the application
  length,   \* filelen or loblen
  src, dst, \* the bytes of the source, and those that have arrived
  pos,      \* how far the source has been read
  buf,      \* the buffer of the stream functions
  nbytes, remainder, piece,
  status,   \* dbp->status
  open,     \* whether OCI has the LOB open
  pending   \* the call that is still executing

vars == <<pc, way, length, src, dst, pos, buf, nbytes, remainder, piece, status, open, pending>>

Bytes(n) == [i \in 1 .. n |-> i]
Smaller(m, n) == IF m < n THEN m ELSE n

Init ==
  /\ pc = "alloc"
  /\ way \in {"write", "append", "read"}
  /\ length \in 0 .. MaxLength
  /\ \E n \in (IF way = "write" /\ "short" \in Faults THEN 0 .. length ELSE {length}) : src = Bytes(n)
  /\ dst = << >> /\ pos = 0 /\ buf = [i \in 1 .. MaxLong |-> 0]
  /\ nbytes = 0 /\ remainder = length /\ piece = "none"
  /\ status = "ok" /\ open = FALSE /\ pending = "none"

-----------------------------------------------------------------------------
(* What OCI answers.                                                       *)

\* OCI accepts no other call while one is still executing.
Clash(call) == pending \notin {"none", call}

Fallible(call, good) ==
  IF Clash(call) THEN {"error"}
  ELSE {good} \union {a \in {"error"} : call \in Faults} \union {a \in {"busy"} : call \in Busy}

\* A piece that is not the last one makes OCI ask for the next; the last one completes
\* the length.
WriteAnswers(p, sent) ==
  IF p = "last" /\ Len(dst) + sent # length THEN {"error"}
  ELSE IF p \in {"one", "last"} THEN Fallible("write", "ok")
  ELSE Fallible("write", "need") \union {a \in {"info"} : p = "first" /\ "info" \in Faults}

Answered(call, a) ==
  /\ status' = a
  /\ pending' = IF a = "busy" THEN call ELSE IF pending = call THEN "none" ELSE pending

-----------------------------------------------------------------------------
(* The descriptor and the length.                                          *)

\* sqlo_alloc_lob_desc
AllocLobDesc ==
  /\ pc = "alloc"
  /\ \E a \in Fallible("alloc", "ok") :
       /\ Answered("alloc", a)
       /\ pc' = IF a # "ok" THEN "done"
                ELSE CASE way = "write"  -> "start"
                       [] way = "append" -> "piece"
                       [] way = "read"   -> "length"
  /\ UNCHANGED <<way, length, src, dst, pos, buf, nbytes, remainder, piece, open>>

\* sqlo_lob_get_length, repeated by the application as long as it is still executing.
GetLength ==
  /\ pc = "length"
  /\ \E a \in Fallible("length", "ok") :
       /\ Answered("length", a)
       /\ pc' = CASE a = "busy" -> "length" [] a = "ok" -> "read" [] a = "error" -> "done"
  /\ nbytes' = Smaller(length, MaxLong)
  /\ UNCHANGED <<way, length, src, dst, pos, buf, remainder, piece, open>>

\* sqlo_free_lob_desc: the application's pointer is NULL afterwards in any case.
FreeLobDesc ==
  /\ pc = "done"
  /\ pc' = "end"
  /\ UNCHANGED <<way, length, src, dst, pos, buf, nbytes, remainder, piece, status, open, pending>>

-----------------------------------------------------------------------------
(* sqlo_lob_write_stream.                                                  *)

\* fread of one item of n bytes: an item that is not complete counts as none, though
\* the bytes there are have been read.
Fread(n) ==
  LET got == Smaller(n, Len(src) - pos)
  IN /\ buf' = [i \in 1 .. MaxLong |-> IF i <= got THEN src[pos + i] ELSE buf[i]]
     /\ pos' = pos + got

ItemRead(n) == n > 0 /\ pos + n <= Len(src)

WriteStream ==
  /\ pc = "start"
  /\ LET n == Smaller(length, MaxLong)
     IN /\ Fread(n)
        /\ nbytes' = n
        /\ IF ~ItemRead(n) THEN pc' = "done" /\ status' = "error" /\ UNCHANGED <<remainder, piece>>
           ELSE /\ remainder' = remainder - n
                /\ status' = "ok"
                /\ IF remainder' = 0 THEN pc' = "write" /\ piece' = "one"
                   ELSE pc' = "open" /\ piece' = "first"
  /\ UNCHANGED <<way, length, src, dst, open, pending>>

\* A call that is still executing is not repeated, but takes its course.
OpenLob ==
  /\ pc = "open"
  /\ \E a \in Fallible("open", "ok") :
       /\ Answered("open", a)
       /\ open' = (a # "error")
       /\ pc' = IF a = "error" THEN "done" ELSE "write"
  /\ UNCHANGED <<way, length, src, dst, pos, buf, nbytes, remainder, piece>>

Left(rem, n) == rem - n

\* The next piece of the file; after an error of fread the buffer is sent as it is,
\* as the last piece.
ReadPiece ==
  /\ pc = "fill"
  /\ LET n == Smaller(remainder, MaxLong)
     IN /\ nbytes' = n
        /\ Fread(n)
        /\ piece' = IF remainder > MaxLong /\ ItemRead(n) THEN "next" ELSE "last"
        /\ remainder' = Left(remainder, n)
  /\ pc' = "write"
  /\ UNCHANGED <<way, length, src, dst, status, open, pending>>

\* Mutants: the only piece is not written again; the LOB is not closed.
AfterWriteOnce(a) ==
  CASE a = "busy"             -> IF piece = "one" THEN "done" ELSE "write"
    [] a = "need"             -> "fill"
    [] a = "ok"               -> IF piece = "one" THEN "done" ELSE "close"
    [] a \in {"error","info"} -> "done"
AfterWriteUnclosed(a) ==
  CASE a = "busy" -> "write" [] a = "need" -> "fill" [] OTHER -> "done"

\* A piece is written again as long as the call is still executing.  After the first
\* piece OCI must ask for more, and it does so until the last.
AfterWrite(a) ==
  CASE a = "busy"             -> "write"
    [] a = "need"             -> "fill"
    [] a = "ok"               -> IF piece = "one" THEN "done" ELSE "close"
    [] a \in {"error","info"} -> "done"

Stored(a, bytes) ==
  dst' = IF a \in {"ok", "need"} THEN dst \o bytes ELSE dst

WriteBuffer ==
  /\ pc = "write"
  /\ \E a \in WriteAnswers(piece, nbytes) :
       /\ Answered("write", IF a = "info" THEN "error" ELSE a)
       /\ Stored(a, SubSeq(buf, 1, nbytes))
       /\ pc' = AfterWrite(a)
  /\ UNCHANGED <<way, length, src, pos, buf, nbytes, remainder, piece, open>>

\* Mutant: a LOB that cannot be closed is closed again.
CloseAgain(a) == a \in {"busy", "error"}

CloseRepeated(a) == a = "busy"

CloseLob ==
  /\ pc = "close"
  /\ \E a \in Fallible("close", "ok") :
       /\ Answered("close", a)
       /\ open' = (a # "ok")
       /\ pc' = IF CloseRepeated(a) THEN "close" ELSE "done"
  /\ UNCHANGED <<way, length, src, dst, pos, buf, nbytes, remainder, piece>>

-----------------------------------------------------------------------------
(* sqlo_lob_append_buffer and sqlo_lob_write_buffer, called by the         *)
(* application with one piece after the other.                             *)

\* A first piece that is all there is, is the only one.
PieceSent(loblen, bufl, p) == IF loblen <= bufl /\ p = "first" THEN "one" ELSE p

AppendBuffer ==
  /\ pc = "piece"
  /\ LET bufl == Smaller(length - pos, MaxLong)
         asked == IF pos = 0 THEN "first" ELSE IF pos + bufl = length THEN "last" ELSE "next"
     IN \E a \in WriteAnswers(PieceSent(length, bufl, asked), bufl) \ {"info"} :
          /\ Answered("write", a)
          /\ Stored(a, SubSeq(src, pos + 1, pos + bufl))
          /\ pos' = IF a \in {"ok", "need"} THEN pos + bufl ELSE pos
          /\ pc' = IF a \in {"busy", "need"} THEN "piece" ELSE "done"
  /\ UNCHANGED <<way, length, src, buf, nbytes, remainder, piece, open>>

-----------------------------------------------------------------------------
(* sqlo_lob_read_stream, with the length sqlo_lob_get_length gave.         *)

\* sqlo_lob_read_buffer
ReadBuffer ==
  /\ pc = "read"
  /\ LET got == Smaller(Smaller(length, nbytes), Len(src) - pos)
     IN \E a \in Fallible("read", IF pos + got = Len(src) THEN "ok" ELSE "need") :
          /\ Answered("read", a)
          /\ IF a \in {"ok", "need"}
             THEN pos' = pos + got /\ buf' = [i \in 1 .. MaxLong |-> IF i <= got THEN src[pos + i] ELSE buf[i]]
             ELSE UNCHANGED <<pos, buf>>
          /\ pc' = CASE a = "busy"                         -> "read"
                     [] a = "error" /\ remainder = length  -> "done"
                     [] OTHER                              -> "store"
  /\ UNCHANGED <<way, length, src, dst, nbytes, remainder, piece, open>>

\* Mutant: the last piece is written like the others.
KeptWhole(rem) == nbytes

Kept(rem) == Smaller(rem, nbytes)

\* fwrite, whose result is not looked at; then the buffer is cleared for the next piece.
\* Of a piece after the first, zeros are written when it could not be read.
Store ==
  /\ pc = "store"
  /\ \/ dst' = dst \o SubSeq(buf, 1, Kept(remainder))
     \/ "fwrite" \in Faults /\ UNCHANGED dst
  /\ IF status = "need" THEN /\ pc' = "read"
                             /\ remainder' = remainder - nbytes
                             /\ buf' = [i \in 1 .. MaxLong |-> 0]
     ELSE pc' = "done" /\ UNCHANGED <<remainder, buf>>
  /\ UNCHANGED <<way, length, src, pos, nbytes, piece, status, open, pending>>

-----------------------------------------------------------------------------

Next == \/ AllocLobDesc \/ GetLength \/ FreeLobDesc
        \/ WriteStream \/ OpenLob \/ ReadPiece \/ WriteBuffer \/ CloseLob
        \/ AppendBuffer \/ ReadBuffer \/ Store

\* The server completes a call some time: it is not still executing for ever.
Spec == Init /\ [][Next]_vars /\ WF_vars(Next /\ status' # "busy")

-----------------------------------------------------------------------------
(* Properties.                                                             *)

Statuses == {"ok", "need", "busy", "error"}

\* remainder, an unsigned int, never goes below zero, and no piece is longer than the
\* buffer.
TypeOK ==
  /\ status \in Statuses /\ pending \in {"none"} \union Busy
  /\ length \in 0 .. MaxLength /\ pos \in 0 .. Len(src) /\ open \in BOOLEAN
  /\ remainder \in 0 .. length /\ nbytes \in 0 .. MaxLong
  /\ Len(buf) = MaxLong

Transfer == INSTANCE ByteTransfer WITH
  Sources <- {Bytes(n) : n \in 0 .. MaxLength},
  dst     <- IF status = "error" THEN << >> ELSE dst,
  outcome <- IF status = "error" THEN "failed" ELSE IF pc = "end" THEN "ok" ELSE "running"

\* Whatever the length is to the size of the buffer, the streams move every byte once
\* and in order, and report success only if all have arrived: the implementation of
\* ByteTransfer.
TransferSpec == Transfer!Spec

\* While a call is still executing, it is the only one made: it is made again until
\* it has completed, and no function returns before.
PollsOneCall ==
  pending # "none" => pc = CASE pending = "write" /\ way = "append" -> "piece"
                              [] OTHER -> pending

\* A write that succeeded leaves the LOB closed, its indexes updated.
ClosedAfterSuccess == pc = "end" /\ status = "ok" => ~open

\* The same of every write: the comment "wrap this by an OCILobOpen()/OCILobClose()
\* pair".
ClosedAfterwards == pc = "end" => ~open

\* The message of sqlo_lob_write_stream, "I/O error. Could not get data from stream":
\* a file that could not be read to its end is not written with success.
IoErrorReported == way = "write" /\ Len(src) < length /\ pc = "end" => status = "error"

\* Every call returns, though in non-blocking mode it waits in a loop.
Returns == <>(pc = "end")
=============================================================================
