------------------------------ MODULE Startup -------------------------------
(***************************************************************************)
(* sqlo_init of sqlora.c, called again and by several threads, and the     *)
(* global state that it sets up for all others: the mode of the library,   *)
(* the mutexes, the table _dbv, the limits that the handles of statements  *)
(* rest on, and the trace files.  Each action is one access to shared      *)
(* state by one thread.  The library is compiled with threads and traced,  *)
(* and the application asks for SQLO_ON.                                   *)
(***************************************************************************)
EXTENDS Handles

CONSTANTS
  Threads, First,
  Alone,        \* only First calls the library until it is initialised
  Requests,     \* the arguments max_db and max_cursors
  MaxCalls,     \* bound: how often a thread calls the library
  Faults,       \* the calls that may fail
  Again         \* a session may be begun again on a connection

Free == "free"
Labels == {"getenv", "tracefile", "initialize", "envcreate", "mutex", "malloc", "sessionfile"}

ASSUME ThreadAssumption == First \in Threads /\ Free \notin Threads
ASSUME BoundAssumption  == MaxCalls \in Nat \ {0} /\ Requests \subseteq [db : Nat, cursors : Nat]
ASSUME FaultAssumption  == Faults \subseteq Labels /\ {Alone, Again} \subseteq BOOLEAN

VARIABLES
  mode,       \* _oci_init_mode
  muxReady,   \* _init_mux_initialized
  mux,        \* the holders of _init_mux and _dbv_mux
  done,       \* _sqlo_init
  dbvSize,    \* _dbv_size
  maxCursors, \* _max_cursors
  dbv,        \* the entries of the table _dbv, 0 if it is not allocated
  tables,     \* how many tables have been allocated
  traceFp,    \* whether the global trace file is open
  count,      \* _session_count
  pc, calls,
  request,    \* the arguments of sqlo_init
  read,       \* the session count a thread has read
  up,         \* whether a thread was told that the library is initialised
  conn,       \* the table a thread has its connection in, 0 for none
  session,    \* session_created of its connection
  file,       \* trace_fp of its connection: the number in the file's name, 0 for NULL
  files       \* the files of sessions that are open

shared == <<mode, muxReady, mux, done, dbvSize, maxCursors, dbv, tables, traceFp, count>>
own    == <<request, read, up, conn, session, file>>
vars   == <<shared, own, pc, calls, files>>

Init ==
  /\ mode = "default" /\ muxReady = FALSE /\ mux = [init |-> Free, dbv |-> Free]
  /\ done = FALSE /\ dbvSize = 0 /\ maxCursors = 0 /\ dbv = 0 /\ tables = 0
  /\ traceFp = FALSE /\ count = 0
  /\ pc = [t \in Threads |-> "idle"] /\ calls = [t \in Threads |-> 0]
  /\ request = [t \in Threads |-> [db |-> 0, cursors |-> 0]] /\ read = [t \in Threads |-> 0]
  /\ up = [t \in Threads |-> FALSE] /\ conn = [t \in Threads |-> 0]
  /\ session = [t \in Threads |-> FALSE] /\ file = [t \in Threads |-> 0]
  /\ files = {}

-----------------------------------------------------------------------------

Outcomes(l) == {TRUE} \union {ok \in {FALSE} : l \in Faults}

At(t, l) == pc[t] = l
Go(t, l) == pc' = [pc EXCEPT ![t] = l]

\* A call is begun by a thread that is in none.
Begin(t, l) ==
  /\ At(t, "idle") /\ calls[t] < MaxCalls
  /\ calls' = [calls EXCEPT ![t] = @ + 1]
  /\ Go(t, l)
  /\ UNCHANGED files

Step(t, from) == At(t, from) /\ UNCHANGED calls

-----------------------------------------------------------------------------
(* sqlo_init.                                                              *)

CallInit(t) ==
  /\ Alone => t = First \/ up[First]
  /\ Begin(t, "lock")
  /\ \E r \in Requests : request' = [request EXCEPT ![t] = r]
  /\ UNCHANGED <<shared, read, up, conn, session, file>>

\* _init_lock: as long as the mode is OCI_DEFAULT there is no lock.
InitLock(t) ==
  /\ Step(t, "lock")
  /\ Go(t, IF mode = "default" THEN "check" ELSE IF muxReady THEN "acquire" ELSE "initmux")
  /\ UNCHANGED <<shared, own, files>>

\* _init_init_mux
InitInitMux(t) ==
  /\ Step(t, "initmux")
  /\ mux' = [mux EXCEPT !.init = Free]
  /\ muxReady' = TRUE
  /\ Go(t, "acquire")
  /\ UNCHANGED <<mode, done, dbvSize, maxCursors, dbv, tables, traceFp, count, own, files>>

InitAcquire(t) ==
  /\ Step(t, "acquire") /\ mux.init = Free
  /\ mux' = [mux EXCEPT !.init = t]
  /\ Go(t, "check")
  /\ UNCHANGED <<mode, muxReady, done, dbvSize, maxCursors, dbv, tables, traceFp, count, own, files>>

\* Mutants: the library is initialised again; the early return keeps the lock.
AfterCheckNever == "mode"
AfterCheckLocked == IF done THEN "idle" ELSE "mode"

AfterCheck == IF done THEN "unlock" ELSE "mode"

InitCheck(t) ==
  /\ Step(t, "check")
  /\ Go(t, AfterCheck)
  /\ UNCHANGED <<shared, own, files>>

SetMode(t) ==
  /\ Step(t, "mode")
  /\ mode' = "threaded"
  /\ Go(t, "env")
  /\ UNCHANGED <<muxReady, mux, done, dbvSize, maxCursors, dbv, tables, traceFp, count, own, files>>

\* _sqlo_getenv, and _open_global_trace_file, whose failure is not looked at.
GetEnv(t) ==
  /\ Step(t, "env")
  /\ \E ok \in Outcomes("getenv"), opened \in Outcomes("tracefile") :
       /\ traceFp' = (traceFp \/ (ok /\ opened))
       /\ Go(t, IF ok THEN "initialize" ELSE "failed")
  /\ UNCHANGED <<mode, muxReady, mux, done, dbvSize, maxCursors, dbv, tables, count, own, files>>

\* Mutant: no limit.
LimitCursorsNever(n) == n

LimitDb(n)      == IF n <= SQLO_MAX_DB THEN n ELSE SQLO_MAX_DB
LimitCursors(n) == IF n <= SQLO_MAX_CURSORS THEN n ELSE SQLO_MAX_CURSORS

\* OCIInitialize; after a failure the function returns without an unlock.  Then the
\* limits are stored.
OciInitialize(t) ==
  /\ Step(t, "initialize")
  /\ \E ok \in Outcomes("initialize") :
       /\ dbvSize' = IF ok THEN LimitDb(request[t].db) ELSE dbvSize
       /\ maxCursors' = IF ok THEN LimitCursors(request[t].cursors) ELSE maxCursors
       /\ Go(t, IF ok THEN "envcreate" ELSE "idle")
  /\ UNCHANGED <<mode, muxReady, mux, done, dbv, tables, traceFp, count, own, files>>

\* OCIEnvCreate and OCIHandleAlloc, for Oracle's threads.
OciEnvCreate(t) ==
  /\ Step(t, "envcreate")
  /\ \E ok \in Outcomes("envcreate") : Go(t, IF ok THEN "mutexes" ELSE "failed")
  /\ UNCHANGED <<shared, own, files>>

\* _init_mutexes; after a failure the function returns without an unlock.
InitMutexes(t) ==
  /\ Step(t, "mutexes")
  /\ \E ok \in Outcomes("mutex") :
       /\ mux' = IF ok THEN [mux EXCEPT !.dbv = Free] ELSE mux
       /\ Go(t, IF ok THEN "table" ELSE "idle")
  /\ UNCHANGED <<mode, muxReady, done, dbvSize, maxCursors, dbv, tables, traceFp, count, own, files>>

LookForTable(t) ==
  /\ Step(t, "table")
  /\ Go(t, IF dbv = 0 THEN "alloc" ELSE "mark")
  /\ UNCHANGED <<shared, own, files>>

TableSize(t) == dbvSize

AllocTable(t) ==
  /\ Step(t, "alloc")
  /\ \E ok \in Outcomes("malloc") :
       /\ dbv' = IF ok THEN TableSize(t) ELSE dbv
       /\ tables' = IF ok THEN tables + 1 ELSE tables
       /\ Go(t, IF ok THEN "mark" ELSE "failed")
  /\ UNCHANGED <<mode, muxReady, mux, done, dbvSize, maxCursors, traceFp, count, own, files>>

MarkDone(t) ==
  /\ Step(t, "mark")
  /\ done' = TRUE
  /\ Go(t, "unlock")
  /\ UNCHANGED <<mode, muxReady, mux, dbvSize, maxCursors, dbv, tables, traceFp, count, own, files>>

\* Mutant: the mutex is not unlocked after an error.
UnlockedAfter(t) == IF At(t, "failed") THEN mux.init ELSE Free

Unlocked(t) == Free

\* _init_unlock, also by the first call, which did not lock.
InitUnlock(t) ==
  /\ At(t, "unlock") \/ At(t, "failed")
  /\ mux' = IF mode = "threaded" THEN [mux EXCEPT !.init = Unlocked(t)] ELSE mux
  /\ up' = [up EXCEPT ![t] = @ \/ At(t, "unlock")]
  /\ Go(t, "idle")
  /\ UNCHANGED <<mode, muxReady, done, dbvSize, maxCursors, dbv, tables, traceFp, count,
                 request, read, conn, session, file, calls, files>>

-----------------------------------------------------------------------------
(* The users of what it sets up: _db_add and _db_release, which hold       *)
(* _dbv_mux, and the trace file of a session.                              *)

CallAttach(t) ==
  /\ up[t] /\ conn[t] = 0
  /\ Begin(t, "add")
  /\ UNCHANGED <<shared, own>>

\* Mutant: the pointer is forgotten only.
ClosedNever(t) == files

\* _close_session_trace_file
Closed(t) == files \ {<<t, file[t]>>}

\* sqlo_server_detach: the file of the session is closed before the slot is freed.
CallDetach(t) ==
  /\ conn[t] # 0
  /\ At(t, "idle") /\ calls[t] < MaxCalls
  /\ calls' = [calls EXCEPT ![t] = @ + 1]
  /\ Go(t, "release")
  /\ files' = Closed(t)
  /\ file' = [file EXCEPT ![t] = 0]
  /\ UNCHANGED <<shared, request, read, up, conn, session>>

DbvLock(t) ==
  /\ Step(t, "add") \/ Step(t, "release")
  /\ mux.dbv = Free
  /\ mux' = [mux EXCEPT !.dbv = t]
  /\ Go(t, IF At(t, "add") THEN "adding" ELSE "releasing")
  /\ UNCHANGED <<mode, muxReady, done, dbvSize, maxCursors, dbv, tables, traceFp, count, own, files>>

UseTable(t) ==
  /\ Step(t, "adding") \/ Step(t, "releasing")
  /\ conn' = [conn EXCEPT ![t] = IF At(t, "adding") THEN tables ELSE 0]
  /\ session' = [session EXCEPT ![t] = FALSE]
  /\ Go(t, "dbvunlock")
  /\ UNCHANGED <<shared, request, read, up, file, files>>

DbvUnlock(t) ==
  /\ Step(t, "dbvunlock")
  /\ mux' = [mux EXCEPT !.dbv = Free]
  /\ Go(t, "idle")
  /\ UNCHANGED <<mode, muxReady, done, dbvSize, maxCursors, dbv, tables, traceFp, count, own, files>>

\* sqlo_session_begin, which ends with _open_session_trace_file.
CallSessionBegin(t) ==
  /\ conn[t] # 0 /\ ~session[t] /\ (Again \/ file[t] = 0)
  /\ Begin(t, "count")
  /\ session' = [session EXCEPT ![t] = TRUE]
  /\ UNCHANGED <<shared, request, read, up, conn, file>>

\* _session_count++ is a read and a write, and no lock is held.
ReadCount(t) ==
  /\ Step(t, "count")
  /\ read' = [read EXCEPT ![t] = count]
  /\ Go(t, "store")
  /\ UNCHANGED <<shared, request, up, conn, session, file, files>>

StoreCount(t) ==
  /\ Step(t, "store")
  /\ count' = read[t] + 1
  /\ Go(t, "open")
  /\ UNCHANGED <<mode, muxReady, mux, done, dbvSize, maxCursors, dbv, tables, traceFp, own, files>>

\* The name is made of the count there is by now; the file of an earlier session of
\* the connection stays open.
OpenSessionFile(t) ==
  /\ Step(t, "open")
  /\ \E ok \in Outcomes("sessionfile") :
       /\ file' = [file EXCEPT ![t] = IF ok THEN count ELSE 0]
       /\ files' = IF ok THEN files \union {<<t, count>>} ELSE files
  /\ Go(t, "idle")
  /\ UNCHANGED <<shared, request, read, up, conn, session>>

CallSessionEnd(t) ==
  /\ session[t]
  /\ Begin(t, "idle")
  /\ session' = [session EXCEPT ![t] = FALSE]
  /\ UNCHANGED <<shared, request, read, up, conn, file>>

-----------------------------------------------------------------------------

InitStep(t) ==
  \/ InitLock(t) \/ InitInitMux(t) \/ InitAcquire(t) \/ InitCheck(t) \/ SetMode(t)
  \/ GetEnv(t) \/ OciInitialize(t) \/ OciEnvCreate(t) \/ InitMutexes(t)
  \/ LookForTable(t) \/ AllocTable(t) \/ MarkDone(t) \/ InitUnlock(t)
UserStep(t) ==
  \/ DbvLock(t) \/ UseTable(t) \/ DbvUnlock(t)
  \/ ReadCount(t) \/ StoreCount(t) \/ OpenSessionFile(t)
Call(t) ==
  \/ CallInit(t) \/ CallAttach(t) \/ CallDetach(t)
  \/ CallSessionBegin(t) \/ CallSessionEnd(t)

Next == \E t \in Threads : Call(t) \/ InitStep(t) \/ UserStep(t)

\* A thread that has begun a call goes on with it.
Spec == Init /\ [][Next]_vars /\ \A t \in Threads : WF_vars(InitStep(t) \/ UserStep(t))

-----------------------------------------------------------------------------
(* Properties.                                                             *)

Places == {"idle", "lock", "initmux", "acquire", "check", "mode", "env", "initialize",
           "envcreate", "mutexes", "table", "alloc", "mark", "unlock", "failed", "add",
           "adding", "release", "releasing", "dbvunlock", "count", "store", "open"}

TypeOK ==
  /\ mode \in {"default", "threaded"} /\ {muxReady, done, traceFp} \subseteq BOOLEAN
  /\ {mux.init, mux.dbv} \subseteq Threads \union {Free}
  /\ {dbvSize, dbv} \subseteq 0 .. SQLO_MAX_DB /\ maxCursors \in 0 .. SQLO_MAX_CURSORS
  /\ tables \in Nat /\ count \in Nat
  /\ \A t \in Threads : pc[t] \in Places /\ conn[t] \in 0 .. tables

\* Every handle in the range that the library takes for valid has its entry in the
\* table, also after sqlo_init was called again with another limit.
TableCovers == (\E t \in Threads : up[t]) => dbv > 0 /\ dbvSize <= dbv

\* With the limits as they are, the handles of the last connection and of the last slot
\* are ints that decode to what they encode, and SQLO_STH_INIT is no handle.
HandlesFit ==
  /\ ~InRange(SQLO_STH_INIT, dbvSize, maxCursors)
  /\ dbvSize > 0 /\ maxCursors > 0 =>
       \A dbh \in {0, dbvSize - 1}, sth \in {0, maxCursors - 1} :
         LET handle == ENCODE_STH(sth, dbh)
         IN /\ 0 <= handle /\ handle <= INT_MAX
            /\ DECODE_DBH(handle) = dbh /\ DECODE_STH(handle) = sth

\* A table that threads have connections in is not replaced.
OneTable == \A t \in Threads : conn[t] # 0 => conn[t] = tables

\* Who is in a critical section of the table holds its mutex, which is not
\* initialised under it.
TableMutexKept ==
  \A t \in Threads : pc[t] \in {"adding", "releasing", "dbvunlock"} => mux.dbv = t

\* The mutex of sqlo_init is held by nobody who is not in sqlo_init.
InitMutexFree == mux.init # Free => pc[mux.init] # "idle"

\* Every file of a session can still be closed: it is the trace_fp of its connection.
FilesReachable == files = {<<t, file[t]>> : t \in {u \in Threads : file[u] # 0}}

\* The comment of _open_session_trace_file: "The trace file name is made unique, by
\* incrementing a _session_count, for each created session."
NamesUnique == \A f, g \in files : f[2] = g[2] => f = g

\* Every call returns.
CallsReturn == \A t \in Threads : pc[t] # "idle" ~> pc[t] = "idle"
=============================================================================
