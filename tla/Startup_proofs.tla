--------------------------- MODULE Startup_proofs ---------------------------
(***************************************************************************)
(* What Startup keeps for any number of threads and any limits, if one of  *)
(* them initialises the library before the others call it, and that the    *)
(* handles of Handles are decoded to what they were encoded from.  (Every  *)
(* leaf about limits names SMT: Zenon writes numbers in unary.)            *)
(***************************************************************************)
EXTENDS Startup, TLAPS

-----------------------------------------------------------------------------
(* Handles.                                                                *)

\* Every handle the library gives is a non-negative int and decodes to the connection
\* and the slot it was made of: ENCODE_STH, DECODE_STH and DECODE_DBH of sqlora.c.
THEOREM DecodeEncode ==
  ASSUME NEW dbh \in Nat, NEW sth \in Nat, dbh < SQLO_MAX_DB, sth < SQLO_MAX_CURSORS
  PROVE  /\ 0 <= ENCODE_STH(sth, dbh) /\ ENCODE_STH(sth, dbh) <= INT_MAX
         /\ DECODE_STH(ENCODE_STH(sth, dbh)) = sth
         /\ DECODE_DBH(ENCODE_STH(sth, dbh)) = dbh
<1>1. /\ dbh \in Int /\ 0 <= dbh /\ dbh <= 32766
      /\ sth \in Int /\ 0 <= sth /\ sth <= 65534
  BY SMT DEF SQLO_MAX_DB, SQLO_MAX_CURSORS
<1>2. 0 <= ENCODE_STH(sth, dbh) /\ ENCODE_STH(sth, dbh) <= INT_MAX
  <2>1. 0 <= 65536 * dbh
    BY <1>1, SMT
  <2> QED
    BY <1>1, <2>1, SMT DEF ENCODE_STH, INT_MAX
<1>3. ENCODE_STH(sth, dbh) % 65536 = sth
  BY <1>1, SMT DEF ENCODE_STH
<1>4. ENCODE_STH(sth, dbh) \div 65536 = dbh
  BY <1>1, SMT DEF ENCODE_STH
<1>5. dbh % 32768 = dbh
  BY <1>1, SMT
<1> QED
  BY <1>2, <1>3, <1>4, <1>5, SMT DEF DECODE_STH, DECODE_DBH

\* Two statements that are open at a time have two handles.
THEOREM HandlesDiffer ==
  ASSUME NEW d \in Nat, NEW s \in Nat, d < SQLO_MAX_DB, s < SQLO_MAX_CURSORS,
         NEW e \in Nat, NEW r \in Nat, e < SQLO_MAX_DB, r < SQLO_MAX_CURSORS,
         ENCODE_STH(s, d) = ENCODE_STH(r, e)
  PROVE  d = e /\ s = r
BY DecodeEncode, SMT

\* The value a handle is initialised with, and every status an earlier call may have
\* returned in its place, is refused by CHECK_STHANDLE: it decodes to a connection
\* that no call of sqlo_init makes room for.
THEOREM StatusIsNoHandle ==
  ASSUME NEW status \in Int, -65536 <= status, status <= -1,
         NEW dbs \in Nat, dbs <= SQLO_MAX_DB, NEW cursors \in Nat
  PROVE  ~InRange(status, dbs, cursors)
<1>1. status \div 65536 = -1
  BY SMT
<1>2. DECODE_DBH(status) = 32767
  BY <1>1, SMT DEF DECODE_DBH
<1>3. ~(32767 < dbs)
  BY SMT DEF SQLO_MAX_DB
<1> QED
  BY <1>2, <1>3, SMT DEF InRange

-----------------------------------------------------------------------------
(* The start of the library.                                               *)

\* One thread calls sqlo_init first, as sqlora.h says; after a failure sqlo_init gives
\* its mutex back; there is room for a connection; and sessions are begun once.
Orderly ==
  /\ Alone /\ ~Again
  /\ Faults \cap {"initialize", "mutex"} = {}
  /\ \A r \in Requests : r.db > 0

\* Where sqlo_init is on its way to initialise, and where it can have its mutex.
Inside == {"mode", "env", "initialize", "envcreate", "mutexes", "table", "alloc",
      "mark"}
Locked == {"check", "unlock", "failed"} \union Inside
\* The calls of those who use the library.
UserPlaces == {"add", "adding", "release", "releasing", "dbvunlock", "count", "store",
      "open"}

Types ==
  /\ mode \in {"default", "threaded"}
  /\ muxReady \in BOOLEAN /\ done \in BOOLEAN /\ traceFp \in BOOLEAN
  /\ mux \in [init : Threads \union {Free}, dbv : Threads \union {Free}]
  /\ dbvSize \in 0 .. SQLO_MAX_DB /\ dbv \in 0 .. SQLO_MAX_DB
  /\ maxCursors \in 0 .. SQLO_MAX_CURSORS
  /\ tables \in Nat /\ count \in Nat
  /\ pc \in [Threads -> Places]
  /\ request \in [Threads -> [db : Nat, cursors : Nat]]
  /\ read \in [Threads -> Nat] /\ up \in [Threads -> BOOLEAN]
  /\ conn \in [Threads -> Nat] /\ session \in [Threads -> BOOLEAN]
  /\ file \in [Threads -> Nat]
  /\ \A t \in Threads : conn[t] <= tables

\* The first thread is alone until it is told that the library is initialised, and
\* nobody uses the library before.
OneInitialises ==
  /\ \A t \in Threads : t # First /\ ~up[First] => pc[t] = "idle" /\ ~up[t] /\ conn[t] = 0
  /\ \A t \in Threads : up[t] \/ conn[t] # 0 \/ pc[t] \in UserPlaces \union {"unlock"} => done
  /\ \A t \in Threads : pc[t] \in Inside \union {"failed"} => t = First /\ ~done

\* The table has the size of the limit; until it is there, sqlo_init has not come to
\* its end.
TableMade ==
  /\ done \/ pc[First] = "mark" => dbv > 0 /\ dbvSize <= dbv
  /\ ~done => dbv = 0 \/ pc[First] = "mark"
  /\ pc[First] \in {"envcreate", "mutexes", "table", "alloc"} => dbvSize > 0
  /\ \A t \in Threads : pc[t] \in Inside \union {"lock", "initmux", "acquire",
      "check"} =>
       request[t].db > 0

\* There are mutexes from the first mode on, and who holds one is where it is needed.
MutexesHeld ==
  /\ TableMutexKept
  /\ done \/ mux.init # Free => mode = "threaded"
  /\ \A t \in Threads : pc[t] \in (Inside \ {"mode"}) \union {"initmux", "acquire",
      "failed"} =>
       mode = "threaded"
  /\ mux.init # Free => pc[mux.init] \in Locked

\* A session that is beginning has no file yet; no file has the number 0.
FilesOwned ==
  /\ FilesReachable
  /\ \A t \in Threads : pc[t] \in {"count", "store", "open"} => file[t] = 0
  /\ \A t \in Threads : pc[t] = "open" => count > 0

\* The limits of the library are numbers, and what is stored is within them.
LEMMA LimitsOK ==
  /\ SQLO_MAX_DB \in Nat /\ SQLO_MAX_DB > 0 /\ SQLO_MAX_CURSORS \in Nat
  /\ \A n \in Nat : LimitDb(n) \in 0 .. SQLO_MAX_DB /\ (n > 0 => LimitDb(n) > 0)
  /\ \A n \in Nat : LimitCursors(n) \in 0 .. SQLO_MAX_CURSORS
<1>1. SQLO_MAX_DB \in Nat /\ SQLO_MAX_DB > 0 /\ SQLO_MAX_CURSORS \in Nat
  BY SMT DEF SQLO_MAX_DB, SQLO_MAX_CURSORS
<1> QED
  BY <1>1, SMT DEF LimitDb, LimitCursors

\* A call that is not among the faults succeeds.
LEMMA NoFailure ==
  ASSUME NEW l, l \notin Faults
  PROVE  Outcomes(l) = {TRUE}
BY DEF Outcomes

-----------------------------------------------------------------------------
(* Each part of the invariant is kept by every step.                       *)

\* The types, for any requests, failures and order of calls.
LEMMA TypesStep ==
  ASSUME Types, NEW t \in Threads, Call(t) \/ InitStep(t) \/ UserStep(t)
  PROVE  Types'
<1>1. CASE CallInit(t)
  BY <1>1, LimitsOK, BoundAssumption, ThreadAssumption, SMT DEF CallInit, Begin, At,
      Go, shared, own, Types, Places
<1>2. CASE InitLock(t)
  BY <1>2, LimitsOK, BoundAssumption, ThreadAssumption, SMT DEF InitLock, Step, At, Go,
      shared, own, Types, Places
<1>3. CASE InitInitMux(t)
  BY <1>3, LimitsOK, BoundAssumption, ThreadAssumption, SMT DEF InitInitMux, Step, At,
      Go, shared, own, Types, Places
<1>4. CASE InitAcquire(t)
  BY <1>4, LimitsOK, BoundAssumption, ThreadAssumption, SMT DEF InitAcquire, Step, At,
      Go, shared, own, Types, Places
<1>5. CASE InitCheck(t)
  BY <1>5, LimitsOK, BoundAssumption, ThreadAssumption, SMT DEF InitCheck, Step, At,
      Go, AfterCheck, shared, own, Types, Places
<1>6. CASE SetMode(t)
  BY <1>6, LimitsOK, BoundAssumption, ThreadAssumption, SMT DEF SetMode, Step, At, Go,
      shared, own, Types, Places
<1>7. CASE GetEnv(t)
  BY <1>7, LimitsOK, BoundAssumption, ThreadAssumption, SMT DEF GetEnv, Step, At, Go,
      shared, own, Types, Places
<1>8. CASE OciInitialize(t)
  BY <1>8, LimitsOK, BoundAssumption, ThreadAssumption, SMT DEF OciInitialize, Step,
      At, Go, shared, own, Types, Places
<1>9. CASE OciEnvCreate(t)
  BY <1>9, LimitsOK, BoundAssumption, ThreadAssumption, SMT DEF OciEnvCreate, Step, At,
      Go, shared, own, Types, Places
<1>10. CASE InitMutexes(t)
  BY <1>10, LimitsOK, BoundAssumption, ThreadAssumption, SMT DEF InitMutexes, Step, At,
      Go, shared, own, Types, Places
<1>11. CASE LookForTable(t)
  BY <1>11, LimitsOK, BoundAssumption, ThreadAssumption, SMT DEF LookForTable, Step,
      At, Go, shared, own, Types, Places
<1>12. CASE AllocTable(t)
  BY <1>12, LimitsOK, BoundAssumption, ThreadAssumption, SMT DEF AllocTable, Step, At,
      Go, TableSize, shared, own, Types, Places
<1>13. CASE MarkDone(t)
  BY <1>13, LimitsOK, BoundAssumption, ThreadAssumption, SMT DEF MarkDone, Step, At,
      Go, shared, own, Types, Places
<1>14. CASE InitUnlock(t)
  BY <1>14, LimitsOK, BoundAssumption, ThreadAssumption, SMT DEF InitUnlock, At, Go,
      Unlocked, shared, own, Types, Places
<1>15. CASE CallAttach(t)
  BY <1>15, LimitsOK, BoundAssumption, ThreadAssumption, SMT DEF CallAttach, Begin, At,
      Go, shared, own, Types, Places
<1>16. CASE CallDetach(t)
  BY <1>16, LimitsOK, BoundAssumption, ThreadAssumption, SMT DEF CallDetach, At, Go,
      Closed, shared, own, Types, Places
<1>17. CASE DbvLock(t)
  BY <1>17, LimitsOK, BoundAssumption, ThreadAssumption, SMT DEF DbvLock, Step, At, Go,
      shared, own, Types, Places
<1>18. CASE UseTable(t)
  BY <1>18, LimitsOK, BoundAssumption, ThreadAssumption, SMT DEF UseTable, Step, At,
      Go, shared, own, Types, Places
<1>19. CASE DbvUnlock(t)
  BY <1>19, LimitsOK, BoundAssumption, ThreadAssumption, SMT DEF DbvUnlock, Step, At,
      Go, shared, own, Types, Places
<1>20. CASE CallSessionBegin(t)
  BY <1>20, LimitsOK, BoundAssumption, ThreadAssumption, SMT DEF CallSessionBegin,
      Begin, At, Go, shared, own, Types, Places
<1>21. CASE ReadCount(t)
  BY <1>21, LimitsOK, BoundAssumption, ThreadAssumption, SMT DEF ReadCount, Step, At,
      Go, shared, own, Types, Places
<1>22. CASE StoreCount(t)
  BY <1>22, LimitsOK, BoundAssumption, ThreadAssumption, SMT DEF StoreCount, Step, At,
      Go, shared, own, Types, Places
<1>23. CASE OpenSessionFile(t)
  BY <1>23, LimitsOK, BoundAssumption, ThreadAssumption, SMT DEF OpenSessionFile, Step,
      At, Go, shared, own, Types, Places
<1>24. CASE CallSessionEnd(t)
  BY <1>24, LimitsOK, BoundAssumption, ThreadAssumption, SMT DEF CallSessionEnd, Begin,
      At, Go, shared, own, Types, Places
<1> QED
  BY <1>1, <1>2, <1>3, <1>4, <1>5, <1>6, <1>7, <1>8, <1>9, <1>10, <1>11, <1>12, <1>13,
      <1>14, <1>15, <1>16, <1>17, <1>18, <1>19, <1>20, <1>21, <1>22, <1>23, <1>24,
      SMT DEF Call, InitStep, UserStep

\* That nobody but the first thread calls the library before it is initialised.
LEMMA OneStep ==
  ASSUME Orderly, Types, OneInitialises, NEW t \in Threads,
      Call(t) \/ InitStep(t) \/ UserStep(t)
  PROVE  OneInitialises'
<1>1. CASE CallInit(t)
  BY <1>1, ThreadAssumption, SMT DEF CallInit, Begin, At, Go, shared, own, Types,
      OneInitialises, UserPlaces, Inside, Orderly
<1>2. CASE InitLock(t)
  BY <1>2, ThreadAssumption, SMT DEF InitLock, Step, At, Go, shared, own, Types,
      OneInitialises, UserPlaces, Inside, Orderly
<1>3. CASE InitInitMux(t)
  BY <1>3, ThreadAssumption, SMT DEF InitInitMux, Step, At, Go, shared, own, Types,
      OneInitialises, UserPlaces, Inside, Orderly
<1>4. CASE InitAcquire(t)
  BY <1>4, ThreadAssumption, SMT DEF InitAcquire, Step, At, Go, shared, own, Types,
      OneInitialises, UserPlaces, Inside, Orderly
<1>5. CASE InitCheck(t)
  BY <1>5, ThreadAssumption, SMT DEF InitCheck, Step, At, Go, AfterCheck, shared, own,
      Types, OneInitialises, UserPlaces, Inside, Orderly
<1>6. CASE SetMode(t)
  BY <1>6, ThreadAssumption, SMT DEF SetMode, Step, At, Go, shared, own, Types,
      OneInitialises, UserPlaces, Inside, Orderly
<1>7. CASE GetEnv(t)
  BY <1>7, ThreadAssumption, SMT DEF GetEnv, Step, At, Go, shared, own, Types,
      OneInitialises, UserPlaces, Inside, Orderly
<1>8. CASE OciInitialize(t)
  BY <1>8, ThreadAssumption, SMT DEF OciInitialize, Step, At, Go, shared, own, Types,
      OneInitialises, UserPlaces, Inside, Orderly
<1>9. CASE OciEnvCreate(t)
  BY <1>9, ThreadAssumption, SMT DEF OciEnvCreate, Step, At, Go, shared, own, Types,
      OneInitialises, UserPlaces, Inside, Orderly
<1>10. CASE InitMutexes(t)
  BY <1>10, ThreadAssumption, SMT DEF InitMutexes, Step, At, Go, shared, own, Types,
      OneInitialises, UserPlaces, Inside, Orderly
<1>11. CASE LookForTable(t)
  BY <1>11, ThreadAssumption, SMT DEF LookForTable, Step, At, Go, shared, own, Types,
      OneInitialises, UserPlaces, Inside, Orderly
<1>12. CASE AllocTable(t)
  BY <1>12, ThreadAssumption, SMT DEF AllocTable, Step, At, Go, TableSize, shared, own,
      Types, OneInitialises, UserPlaces, Inside, Orderly
<1>13. CASE MarkDone(t)
  BY <1>13, ThreadAssumption, SMT DEF MarkDone, Step, At, Go, shared, own, Types,
      OneInitialises, UserPlaces, Inside, Orderly
<1>14. CASE InitUnlock(t)
  BY <1>14, ThreadAssumption, SMT DEF InitUnlock, At, Go, Unlocked, shared, own, Types,
      OneInitialises, UserPlaces, Inside, Orderly
<1>15. CASE CallAttach(t)
  BY <1>15, ThreadAssumption, SMT DEF CallAttach, Begin, At, Go, shared, own, Types,
      OneInitialises, UserPlaces, Inside, Orderly
<1>16. CASE CallDetach(t)
  BY <1>16, ThreadAssumption, SMT DEF CallDetach, At, Go, Closed, shared, own, Types,
      OneInitialises, UserPlaces, Inside, Orderly
<1>17. CASE DbvLock(t)
  BY <1>17, ThreadAssumption, SMT DEF DbvLock, Step, At, Go, shared, own, Types,
      OneInitialises, UserPlaces, Inside, Orderly
<1>18. CASE UseTable(t)
  BY <1>18, ThreadAssumption, SMT DEF UseTable, Step, At, Go, shared, own, Types,
      OneInitialises, UserPlaces, Inside, Orderly
<1>19. CASE DbvUnlock(t)
  BY <1>19, ThreadAssumption, SMT DEF DbvUnlock, Step, At, Go, shared, own, Types,
      OneInitialises, UserPlaces, Inside, Orderly
<1>20. CASE CallSessionBegin(t)
  BY <1>20, ThreadAssumption, SMT DEF CallSessionBegin, Begin, At, Go, shared, own,
      Types, OneInitialises, UserPlaces, Inside, Orderly
<1>21. CASE ReadCount(t)
  BY <1>21, ThreadAssumption, SMT DEF ReadCount, Step, At, Go, shared, own, Types,
      OneInitialises, UserPlaces, Inside, Orderly
<1>22. CASE StoreCount(t)
  BY <1>22, ThreadAssumption, SMT DEF StoreCount, Step, At, Go, shared, own, Types,
      OneInitialises, UserPlaces, Inside, Orderly
<1>23. CASE OpenSessionFile(t)
  BY <1>23, ThreadAssumption, SMT DEF OpenSessionFile, Step, At, Go, shared, own,
      Types, OneInitialises, UserPlaces, Inside, Orderly
<1>24. CASE CallSessionEnd(t)
  BY <1>24, ThreadAssumption, SMT DEF CallSessionEnd, Begin, At, Go, shared, own,
      Types, OneInitialises, UserPlaces, Inside, Orderly
<1> QED
  BY <1>1, <1>2, <1>3, <1>4, <1>5, <1>6, <1>7, <1>8, <1>9, <1>10, <1>11, <1>12, <1>13,
      <1>14, <1>15, <1>16, <1>17, <1>18, <1>19, <1>20, <1>21, <1>22, <1>23, <1>24,
      SMT DEF Call, InitStep, UserStep

\* That the table and the limit fit.
LEMMA TableStep ==
  ASSUME Orderly, Types, OneInitialises, TableMade, NEW t \in Threads,
      Call(t) \/ InitStep(t) \/ UserStep(t)
  PROVE  TableMade'
<1>1. CASE CallInit(t)
  BY <1>1, LimitsOK, ThreadAssumption, SMT DEF CallInit, Begin, At, Go, shared, own,
      Types, OneInitialises, TableMade, Inside, Orderly
<1>2. CASE InitLock(t)
  BY <1>2, LimitsOK, ThreadAssumption, SMT DEF InitLock, Step, At, Go, shared, own,
      Types, OneInitialises, TableMade, Inside, Orderly
<1>3. CASE InitInitMux(t)
  BY <1>3, LimitsOK, ThreadAssumption, SMT DEF InitInitMux, Step, At, Go, shared, own,
      Types, OneInitialises, TableMade, Inside, Orderly
<1>4. CASE InitAcquire(t)
  BY <1>4, LimitsOK, ThreadAssumption, SMT DEF InitAcquire, Step, At, Go, shared, own,
      Types, OneInitialises, TableMade, Inside, Orderly
<1>5. CASE InitCheck(t)
  BY <1>5, LimitsOK, ThreadAssumption, SMT DEF InitCheck, Step, At, Go, AfterCheck,
      shared, own, Types, OneInitialises, TableMade, Inside, Orderly
<1>6. CASE SetMode(t)
  BY <1>6, LimitsOK, ThreadAssumption, SMT DEF SetMode, Step, At, Go, shared, own,
      Types, OneInitialises, TableMade, Inside, Orderly
<1>7. CASE GetEnv(t)
  BY <1>7, LimitsOK, ThreadAssumption, SMT DEF GetEnv, Step, At, Go, shared, own,
      Types, OneInitialises, TableMade, Inside, Orderly
<1>8. CASE OciInitialize(t)
  BY <1>8, LimitsOK, ThreadAssumption, SMT DEF OciInitialize, Step, At, Go, shared,
      own, Types, OneInitialises, TableMade, Inside, Orderly
<1>9. CASE OciEnvCreate(t)
  BY <1>9, LimitsOK, ThreadAssumption, SMT DEF OciEnvCreate, Step, At, Go, shared, own,
      Types, OneInitialises, TableMade, Inside, Orderly
<1>10. CASE InitMutexes(t)
  BY <1>10, LimitsOK, ThreadAssumption, SMT DEF InitMutexes, Step, At, Go, shared, own,
      Types, OneInitialises, TableMade, Inside, Orderly
<1>11. CASE LookForTable(t)
  BY <1>11, LimitsOK, ThreadAssumption, SMT DEF LookForTable, Step, At, Go, shared,
      own, Types, OneInitialises, TableMade, Inside, Orderly
<1>12. CASE AllocTable(t)
  BY <1>12, LimitsOK, ThreadAssumption, SMT DEF AllocTable, Step, At, Go, TableSize,
      shared, own, Types, OneInitialises, TableMade, Inside, Orderly
<1>13. CASE MarkDone(t)
  BY <1>13, LimitsOK, ThreadAssumption, SMT DEF MarkDone, Step, At, Go, shared, own,
      Types, OneInitialises, TableMade, Inside, Orderly
<1>14. CASE InitUnlock(t)
  BY <1>14, LimitsOK, ThreadAssumption, SMT DEF InitUnlock, At, Go, Unlocked, shared,
      own, Types, OneInitialises, TableMade, Inside, Orderly
<1>15. CASE CallAttach(t)
  BY <1>15, LimitsOK, ThreadAssumption, SMT DEF CallAttach, Begin, At, Go, shared, own,
      Types, OneInitialises, TableMade, Inside, Orderly
<1>16. CASE CallDetach(t)
  BY <1>16, LimitsOK, ThreadAssumption, SMT DEF CallDetach, At, Go, Closed, shared,
      own, Types, OneInitialises, TableMade, Inside, Orderly
<1>17. CASE DbvLock(t)
  BY <1>17, LimitsOK, ThreadAssumption, SMT DEF DbvLock, Step, At, Go, shared, own,
      Types, OneInitialises, TableMade, Inside, Orderly
<1>18. CASE UseTable(t)
  BY <1>18, LimitsOK, ThreadAssumption, SMT DEF UseTable, Step, At, Go, shared, own,
      Types, OneInitialises, TableMade, Inside, Orderly
<1>19. CASE DbvUnlock(t)
  BY <1>19, LimitsOK, ThreadAssumption, SMT DEF DbvUnlock, Step, At, Go, shared, own,
      Types, OneInitialises, TableMade, Inside, Orderly
<1>20. CASE CallSessionBegin(t)
  BY <1>20, LimitsOK, ThreadAssumption, SMT DEF CallSessionBegin, Begin, At, Go,
      shared, own, Types, OneInitialises, TableMade, Inside, Orderly
<1>21. CASE ReadCount(t)
  BY <1>21, LimitsOK, ThreadAssumption, SMT DEF ReadCount, Step, At, Go, shared, own,
      Types, OneInitialises, TableMade, Inside, Orderly
<1>22. CASE StoreCount(t)
  BY <1>22, LimitsOK, ThreadAssumption, SMT DEF StoreCount, Step, At, Go, shared, own,
      Types, OneInitialises, TableMade, Inside, Orderly
<1>23. CASE OpenSessionFile(t)
  BY <1>23, LimitsOK, ThreadAssumption, SMT DEF OpenSessionFile, Step, At, Go, shared,
      own, Types, OneInitialises, TableMade, Inside, Orderly
<1>24. CASE CallSessionEnd(t)
  BY <1>24, LimitsOK, ThreadAssumption, SMT DEF CallSessionEnd, Begin, At, Go, shared,
      own, Types, OneInitialises, TableMade, Inside, Orderly
<1> QED
  BY <1>1, <1>2, <1>3, <1>4, <1>5, <1>6, <1>7, <1>8, <1>9, <1>10, <1>11, <1>12, <1>13,
      <1>14, <1>15, <1>16, <1>17, <1>18, <1>19, <1>20, <1>21, <1>22, <1>23, <1>24,
      SMT DEF Call, InitStep, UserStep

\* That mutexes are held where they are needed and not elsewhere.
LEMMA MutexStep ==
  ASSUME Orderly, Types, OneInitialises, MutexesHeld, NEW t \in Threads,
      Call(t) \/ InitStep(t) \/ UserStep(t)
  PROVE  MutexesHeld'
<1>1. CASE CallInit(t)
  BY <1>1, ThreadAssumption, SMT DEF CallInit, Begin, At, Go, shared, own, Types,
      OneInitialises, MutexesHeld, TableMutexKept, Inside, Locked, UserPlaces, Orderly
<1>2. CASE InitLock(t)
  BY <1>2, ThreadAssumption, SMT DEF InitLock, Step, At, Go, shared, own, Types,
      OneInitialises, MutexesHeld, TableMutexKept, Inside, Locked, UserPlaces, Orderly
<1>3. CASE InitInitMux(t)
  BY <1>3, ThreadAssumption, SMT DEF InitInitMux, Step, At, Go, shared, own, Types,
      OneInitialises, MutexesHeld, TableMutexKept, Inside, Locked, UserPlaces, Orderly
<1>4. CASE InitAcquire(t)
  BY <1>4, ThreadAssumption, SMT DEF InitAcquire, Step, At, Go, shared, own, Types,
      OneInitialises, MutexesHeld, TableMutexKept, Inside, Locked, UserPlaces, Orderly
<1>5. CASE InitCheck(t)
  BY <1>5, ThreadAssumption, SMT DEF InitCheck, Step, At, Go, AfterCheck, shared, own,
      Types, OneInitialises, MutexesHeld, TableMutexKept, Inside, Locked, UserPlaces,
      Orderly
<1>6. CASE SetMode(t)
  BY <1>6, ThreadAssumption, SMT DEF SetMode, Step, At, Go, shared, own, Types,
      OneInitialises, MutexesHeld, TableMutexKept, Inside, Locked, UserPlaces, Orderly
<1>7. CASE GetEnv(t)
  BY <1>7, ThreadAssumption, SMT DEF GetEnv, Step, At, Go, shared, own, Types,
      OneInitialises, MutexesHeld, TableMutexKept, Inside, Locked, UserPlaces, Orderly
<1>8. CASE OciInitialize(t)
  <2>1. "initialize" \notin Faults
    BY DEF Orderly
  <2>2. PICK ok \in Outcomes("initialize") :
          /\ pc' = [pc EXCEPT ![t] = IF ok THEN "envcreate" ELSE "idle"]
          /\ UNCHANGED <<mode, mux, done>>
    BY <1>8 DEF OciInitialize, Go
  <2>3. ok = TRUE
    BY <2>1, <2>2, NoFailure
  <2>4. /\ pc[t] = "initialize" /\ pc' = [pc EXCEPT ![t] = "envcreate"]
        /\ UNCHANGED <<mode, mux, done>>
    BY <1>8, <2>2, <2>3 DEF OciInitialize, Step, At, shared
  <2> QED
    BY <2>4, ThreadAssumption, SMT DEF Types, OneInitialises, MutexesHeld,
      TableMutexKept, Inside, Locked, UserPlaces
<1>9. CASE OciEnvCreate(t)
  BY <1>9, ThreadAssumption, SMT DEF OciEnvCreate, Step, At, Go, shared, own, Types,
      OneInitialises, MutexesHeld, TableMutexKept, Inside, Locked, UserPlaces, Orderly
<1>10. CASE InitMutexes(t)
  <2>1. "mutex" \notin Faults
    BY DEF Orderly
  <2>2. PICK ok \in Outcomes("mutex") :
          /\ pc' = [pc EXCEPT ![t] = IF ok THEN "table" ELSE "idle"]
          /\ mux' = IF ok THEN [mux EXCEPT !.dbv = Free] ELSE mux
    BY <1>10 DEF InitMutexes, Go
  <2>3. ok = TRUE
    BY <2>1, <2>2, NoFailure
  <2>4. /\ pc[t] = "mutexes" /\ pc' = [pc EXCEPT ![t] = "table"]
        /\ mux' = [mux EXCEPT !.dbv = Free] /\ UNCHANGED <<mode, done>>
    BY <1>10, <2>2, <2>3 DEF InitMutexes, Step, At, shared
  <2> QED
    BY <2>4, ThreadAssumption, SMT DEF Types, OneInitialises, MutexesHeld,
      TableMutexKept, Inside, Locked, UserPlaces
<1>11. CASE LookForTable(t)
  BY <1>11, ThreadAssumption, SMT DEF LookForTable, Step, At, Go, shared, own, Types,
      OneInitialises, MutexesHeld, TableMutexKept, Inside, Locked, UserPlaces, Orderly
<1>12. CASE AllocTable(t)
  BY <1>12, ThreadAssumption, SMT DEF AllocTable, Step, At, Go, TableSize, shared, own,
      Types, OneInitialises, MutexesHeld, TableMutexKept, Inside, Locked, UserPlaces,
      Orderly
<1>13. CASE MarkDone(t)
  BY <1>13, ThreadAssumption, SMT DEF MarkDone, Step, At, Go, shared, own, Types,
      OneInitialises, MutexesHeld, TableMutexKept, Inside, Locked, UserPlaces, Orderly
<1>14. CASE InitUnlock(t)
  BY <1>14, ThreadAssumption, SMT DEF InitUnlock, At, Go, Unlocked, shared, own, Types,
      OneInitialises, MutexesHeld, TableMutexKept, Inside, Locked, UserPlaces, Orderly
<1>15. CASE CallAttach(t)
  BY <1>15, ThreadAssumption, SMT DEF CallAttach, Begin, At, Go, shared, own, Types,
      OneInitialises, MutexesHeld, TableMutexKept, Inside, Locked, UserPlaces, Orderly
<1>16. CASE CallDetach(t)
  BY <1>16, ThreadAssumption, SMT DEF CallDetach, At, Go, Closed, shared, own, Types,
      OneInitialises, MutexesHeld, TableMutexKept, Inside, Locked, UserPlaces, Orderly
<1>17. CASE DbvLock(t)
  BY <1>17, ThreadAssumption, SMT DEF DbvLock, Step, At, Go, shared, own, Types,
      OneInitialises, MutexesHeld, TableMutexKept, Inside, Locked, UserPlaces, Orderly
<1>18. CASE UseTable(t)
  BY <1>18, ThreadAssumption, SMT DEF UseTable, Step, At, Go, shared, own, Types,
      OneInitialises, MutexesHeld, TableMutexKept, Inside, Locked, UserPlaces, Orderly
<1>19. CASE DbvUnlock(t)
  BY <1>19, ThreadAssumption, SMT DEF DbvUnlock, Step, At, Go, shared, own, Types,
      OneInitialises, MutexesHeld, TableMutexKept, Inside, Locked, UserPlaces, Orderly
<1>20. CASE CallSessionBegin(t)
  BY <1>20, ThreadAssumption, SMT DEF CallSessionBegin, Begin, At, Go, shared, own,
      Types, OneInitialises, MutexesHeld, TableMutexKept, Inside, Locked, UserPlaces,
      Orderly
<1>21. CASE ReadCount(t)
  BY <1>21, ThreadAssumption, SMT DEF ReadCount, Step, At, Go, shared, own, Types,
      OneInitialises, MutexesHeld, TableMutexKept, Inside, Locked, UserPlaces, Orderly
<1>22. CASE StoreCount(t)
  BY <1>22, ThreadAssumption, SMT DEF StoreCount, Step, At, Go, shared, own, Types,
      OneInitialises, MutexesHeld, TableMutexKept, Inside, Locked, UserPlaces, Orderly
<1>23. CASE OpenSessionFile(t)
  BY <1>23, ThreadAssumption, SMT DEF OpenSessionFile, Step, At, Go, shared, own,
      Types, OneInitialises, MutexesHeld, TableMutexKept, Inside, Locked, UserPlaces,
      Orderly
<1>24. CASE CallSessionEnd(t)
  BY <1>24, ThreadAssumption, SMT DEF CallSessionEnd, Begin, At, Go, shared, own,
      Types, OneInitialises, MutexesHeld, TableMutexKept, Inside, Locked, UserPlaces,
      Orderly
<1> QED
  BY <1>1, <1>2, <1>3, <1>4, <1>5, <1>6, <1>7, <1>8, <1>9, <1>10, <1>11, <1>12, <1>13,
      <1>14, <1>15, <1>16, <1>17, <1>18, <1>19, <1>20, <1>21, <1>22, <1>23, <1>24,
      SMT DEF Call, InitStep, UserStep

\* That the files that are open are those of the connections.
LEMMA FilesStep ==
  ASSUME Orderly, Types, FilesOwned, NEW t \in Threads,
      Call(t) \/ InitStep(t) \/ UserStep(t)
  PROVE  FilesOwned'
<1>1. CASE CallInit(t)
  BY <1>1, ThreadAssumption, SMT DEF CallInit, Begin, At, Go, shared, own, Types,
      FilesOwned, FilesReachable, Orderly
<1>2. CASE InitLock(t)
  BY <1>2, ThreadAssumption, SMT DEF InitLock, Step, At, Go, shared, own, Types,
      FilesOwned, FilesReachable, Orderly
<1>3. CASE InitInitMux(t)
  BY <1>3, ThreadAssumption, SMT DEF InitInitMux, Step, At, Go, shared, own, Types,
      FilesOwned, FilesReachable, Orderly
<1>4. CASE InitAcquire(t)
  BY <1>4, ThreadAssumption, SMT DEF InitAcquire, Step, At, Go, shared, own, Types,
      FilesOwned, FilesReachable, Orderly
<1>5. CASE InitCheck(t)
  BY <1>5, ThreadAssumption, SMT DEF InitCheck, Step, At, Go, AfterCheck, shared, own,
      Types, FilesOwned, FilesReachable, Orderly
<1>6. CASE SetMode(t)
  BY <1>6, ThreadAssumption, SMT DEF SetMode, Step, At, Go, shared, own, Types,
      FilesOwned, FilesReachable, Orderly
<1>7. CASE GetEnv(t)
  BY <1>7, ThreadAssumption, SMT DEF GetEnv, Step, At, Go, shared, own, Types,
      FilesOwned, FilesReachable, Orderly
<1>8. CASE OciInitialize(t)
  BY <1>8, ThreadAssumption, SMT DEF OciInitialize, Step, At, Go, shared, own, Types,
      FilesOwned, FilesReachable, Orderly
<1>9. CASE OciEnvCreate(t)
  BY <1>9, ThreadAssumption, SMT DEF OciEnvCreate, Step, At, Go, shared, own, Types,
      FilesOwned, FilesReachable, Orderly
<1>10. CASE InitMutexes(t)
  BY <1>10, ThreadAssumption, SMT DEF InitMutexes, Step, At, Go, shared, own, Types,
      FilesOwned, FilesReachable, Orderly
<1>11. CASE LookForTable(t)
  BY <1>11, ThreadAssumption, SMT DEF LookForTable, Step, At, Go, shared, own, Types,
      FilesOwned, FilesReachable, Orderly
<1>12. CASE AllocTable(t)
  BY <1>12, ThreadAssumption, SMT DEF AllocTable, Step, At, Go, TableSize, shared, own,
      Types, FilesOwned, FilesReachable, Orderly
<1>13. CASE MarkDone(t)
  BY <1>13, ThreadAssumption, SMT DEF MarkDone, Step, At, Go, shared, own, Types,
      FilesOwned, FilesReachable, Orderly
<1>14. CASE InitUnlock(t)
  BY <1>14, ThreadAssumption, SMT DEF InitUnlock, At, Go, Unlocked, shared, own, Types,
      FilesOwned, FilesReachable, Orderly
<1>15. CASE CallAttach(t)
  BY <1>15, ThreadAssumption, SMT DEF CallAttach, Begin, At, Go, shared, own, Types,
      FilesOwned, FilesReachable, Orderly
<1>16. CASE CallDetach(t)
  BY <1>16, ThreadAssumption, SMT DEF CallDetach, At, Go, Closed, shared, own, Types,
      FilesOwned, FilesReachable, Orderly
<1>17. CASE DbvLock(t)
  BY <1>17, ThreadAssumption, SMT DEF DbvLock, Step, At, Go, shared, own, Types,
      FilesOwned, FilesReachable, Orderly
<1>18. CASE UseTable(t)
  BY <1>18, ThreadAssumption, SMT DEF UseTable, Step, At, Go, shared, own, Types,
      FilesOwned, FilesReachable, Orderly
<1>19. CASE DbvUnlock(t)
  BY <1>19, ThreadAssumption, SMT DEF DbvUnlock, Step, At, Go, shared, own, Types,
      FilesOwned, FilesReachable, Orderly
<1>20. CASE CallSessionBegin(t)
  BY <1>20, ThreadAssumption, SMT DEF CallSessionBegin, Begin, At, Go, shared, own,
      Types, FilesOwned, FilesReachable, Orderly
<1>21. CASE ReadCount(t)
  BY <1>21, ThreadAssumption, SMT DEF ReadCount, Step, At, Go, shared, own, Types,
      FilesOwned, FilesReachable, Orderly
<1>22. CASE StoreCount(t)
  BY <1>22, ThreadAssumption, SMT DEF StoreCount, Step, At, Go, shared, own, Types,
      FilesOwned, FilesReachable, Orderly
<1>23. CASE OpenSessionFile(t)
  BY <1>23, ThreadAssumption, SMT DEF OpenSessionFile, Step, At, Go, shared, own,
      Types, FilesOwned, FilesReachable, Orderly
<1>24. CASE CallSessionEnd(t)
  BY <1>24, ThreadAssumption, SMT DEF CallSessionEnd, Begin, At, Go, shared, own,
      Types, FilesOwned, FilesReachable, Orderly
<1> QED
  BY <1>1, <1>2, <1>3, <1>4, <1>5, <1>6, <1>7, <1>8, <1>9, <1>10, <1>11, <1>12, <1>13,
      <1>14, <1>15, <1>16, <1>17, <1>18, <1>19, <1>20, <1>21, <1>22, <1>23, <1>24,
      SMT DEF Call, InitStep, UserStep

-----------------------------------------------------------------------------
(* The theorems.                                                           *)

\* The types hold always; the rest needs the order of calls and the failures of Orderly.
LEMMA TypesInvariant == Spec => []Types
<1>1. Init => Types
  <2> SUFFICES ASSUME Init PROVE Types
    OBVIOUS
  <2>1. /\ 0 \in 0 .. SQLO_MAX_DB /\ 0 \in 0 .. SQLO_MAX_CURSORS
        /\ mux \in [init : Threads \union {Free}, dbv : Threads \union {Free}]
    BY LimitsOK DEF Init
  <2>2. /\ pc \in [Threads -> Places] /\ read \in [Threads -> Nat] /\ up \in [Threads -> BOOLEAN]
        /\ request \in [Threads -> [db : Nat, cursors : Nat]]
    BY DEF Init, Places
  <2>3. /\ conn = [t \in Threads |-> 0] /\ conn \in [Threads -> Nat]
        /\ session \in [Threads -> BOOLEAN] /\ file \in [Threads -> Nat]
    BY DEF Init
  <2>4. /\ mode \in {"default", "threaded"}
        /\ muxReady \in BOOLEAN /\ done \in BOOLEAN /\ traceFp \in BOOLEAN
        /\ dbvSize = 0 /\ dbv = 0 /\ maxCursors = 0 /\ tables = 0 /\ count = 0
    BY DEF Init
  <2> QED
    BY <2>1, <2>2, <2>3, <2>4, SMT DEF Types
<1>2. Types /\ [Next]_vars => Types'
  <2>1. ASSUME Types, Next PROVE Types'
    BY <2>1, TypesStep DEF Next
  <2>2. ASSUME Types, UNCHANGED vars PROVE Types'
    BY <2>2 DEF vars, shared, own, Types
  <2> QED
    BY <2>1, <2>2
<1> QED
  BY <1>1, <1>2, PTL DEF Spec

IInv == OneInitialises /\ TableMade /\ MutexesHeld /\ FilesOwned

\* From what the first thread does alone to what all may do together.
LEMMA Invariance ==
  ASSUME Orderly
  PROVE  Spec => []IInv
<1>1. Init => IInv
  <2> SUFFICES ASSUME Init PROVE IInv
    OBVIOUS
  <2>1. OneInitialises
    BY DEF Init, OneInitialises, UserPlaces, Inside
  <2>2. TableMade
    BY ThreadAssumption DEF Init, TableMade, Inside
  <2>3. MutexesHeld
    BY DEF Init, MutexesHeld, TableMutexKept, Inside
  <2>4. FilesOwned
    BY DEF Init, FilesOwned, FilesReachable
  <2> QED
    BY <2>1, <2>2, <2>3, <2>4 DEF IInv
<1>2. Types /\ IInv /\ [Next]_vars => IInv'
  <2>1. ASSUME Types, IInv, Next PROVE IInv'
    <3>1. PICK t \in Threads : Call(t) \/ InitStep(t) \/ UserStep(t)
      BY <2>1 DEF Next
    <3>2. OneInitialises /\ TableMade /\ MutexesHeld /\ FilesOwned
      BY <2>1 DEF IInv
    <3>3. OneInitialises'
      BY <2>1, <3>1, <3>2, OneStep
    <3>4. TableMade'
      BY <2>1, <3>1, <3>2, TableStep
    <3>5. MutexesHeld'
      BY <2>1, <3>1, <3>2, MutexStep
    <3>6. FilesOwned'
      BY <2>1, <3>1, <3>2, FilesStep
    <3> QED
      BY <3>3, <3>4, <3>5, <3>6 DEF IInv
  <2>2. ASSUME IInv, UNCHANGED vars PROVE IInv'
    BY <2>2 DEF vars, shared, own, IInv, OneInitialises, TableMade, MutexesHeld,
      TableMutexKept, FilesOwned, FilesReachable
  <2> QED
    BY <2>1, <2>2
<1> QED
  BY <1>1, <1>2, TypesInvariant, PTL DEF Spec

\* Whatever fails and whoever calls: the limits stay within those of the library, and
\* a thread's connection is in a table that was allocated.
THEOREM TypeCorrect == Spec => []TypeOK
<1>1. Types => TypeOK
  BY SMT DEF Types, TypeOK
<1> QED
  BY <1>1, TypesInvariant, PTL

\* With any limits sqlo_init is asked for, the handles within the limits it sets decode
\* to what they encode, and SQLO_STH_INIT is none of them.
THEOREM HandlesAlwaysFit == Spec => []HandlesFit
<1>1. Types => HandlesFit
  <2> SUFFICES ASSUME Types PROVE HandlesFit
    OBVIOUS
  <2>1. /\ dbvSize \in Nat /\ dbvSize <= SQLO_MAX_DB
        /\ maxCursors \in Nat /\ maxCursors <= SQLO_MAX_CURSORS
    BY LimitsOK, SMT DEF Types
  <2>2. ~InRange(SQLO_STH_INIT, dbvSize, maxCursors)
    <3>1. SQLO_STH_INIT \in Int /\ -65536 <= SQLO_STH_INIT /\ SQLO_STH_INIT <= -1
      BY SMT DEF SQLO_STH_INIT
    <3> QED
      BY <2>1, <3>1, StatusIsNoHandle
  <2>3. ASSUME dbvSize > 0, maxCursors > 0, NEW dbh \in {0, dbvSize - 1},
               NEW sth \in {0, maxCursors - 1}
        PROVE  /\ 0 <= ENCODE_STH(sth, dbh) /\ ENCODE_STH(sth, dbh) <= INT_MAX
               /\ DECODE_DBH(ENCODE_STH(sth, dbh)) = dbh
               /\ DECODE_STH(ENCODE_STH(sth, dbh)) = sth
    <3>1. dbh \in Nat /\ sth \in Nat /\ dbh < SQLO_MAX_DB /\ sth < SQLO_MAX_CURSORS
      BY <2>1, <2>3, LimitsOK, SMT
    <3> QED
      BY <3>1, DecodeEncode
  <2> QED
    BY <2>2, <2>3 DEF HandlesFit
<1> QED
  BY <1>1, TypesInvariant, PTL

\* A thread that was told the library is initialised finds a table that covers every
\* connection handle taken for valid, however often sqlo_init failed before or is
\* called again.
THEOREM TableStays ==
  ASSUME Orderly
  PROVE  Spec => []TableCovers
<1>1. IInv => TableCovers
  BY DEF IInv, OneInitialises, TableMade, TableCovers
<1> QED
  BY <1>1, Invariance, PTL

\* The threads that use the table exclude each other: no call of sqlo_init initialises
\* _dbv_mux under its holder.
THEOREM TableMutexStays ==
  ASSUME Orderly
  PROVE  Spec => []TableMutexKept
<1>1. IInv => TableMutexKept
  BY DEF IInv, MutexesHeld
<1> QED
  BY <1>1, Invariance, PTL

\* No thread leaves sqlo_init, with an error or without, and keeps its mutex.
THEOREM InitGivesBack ==
  ASSUME Orderly
  PROVE  Spec => []InitMutexFree
<1>1. IInv => InitMutexFree
  BY DEF IInv, MutexesHeld, InitMutexFree, Locked, Inside
<1> QED
  BY <1>1, Invariance, PTL

\* The trace file of every session is closed or can be.
THEOREM FilesStay ==
  ASSUME Orderly
  PROVE  Spec => []FilesReachable
<1>1. IInv => FilesReachable
  BY DEF IInv, FilesOwned
<1> QED
  BY <1>1, Invariance, PTL
=============================================================================
