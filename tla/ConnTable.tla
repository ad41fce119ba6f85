------------------------------ MODULE ConnTable ------------------------------
(***************************************************************************)
(* The connection table of sqlora.c under several threads: the vector _dbv *)
(* of database structures, the three mutexes, and the functions that move  *)
(* a connection through its life (connect, attach, begin, end, detach,     *)
(* free, finish, commit, a repeated sqlo_init).                            *)
(*                                                                         *)
(* Each thread runs one function at a time, a step per access to the       *)
(* shared state: pc[t] is the next step, stack[t] the labels to which the  *)
(* functions it is in return, rv[t] the value the last one returned.  A    *)
(* label in Faults is an OCI call, an allocation or a lock that may fail.  *)
(*                                                                         *)
(* The table is already initialised (see the README on sqlo_init).         *)
(***************************************************************************)
EXTENDS Integers, Sequences

CONSTANTS
  Threads,        \* the application's threads
  NoThread,       \* the owner of a free mutex or slot
  MaxDb,          \* _dbv_size, the number of slots
  Faults,         \* the labels of the calls that may fail
  OwnerChecked,   \* TRUE: a mutex ignores an unlock by a thread that does not
                  \* hold it (Windows); FALSE: that is undefined (POSIX)
  ClientCalls     \* the functions the application calls

ASSUME ThreadAssumption  == NoThread \notin Threads
ASSUME MaxDbAssumption   == MaxDb \in Nat
ASSUME OwnerAssumption   == OwnerChecked \in BOOLEAN

\* finish_early is sqlo_finish on a connection without a session.
Functions == {"connect", "attach", "begin", "end", "detach", "free", "finish",
              "finish_early", "commit", "init"}

ASSUME ClientCallsAssumption == ClientCalls \subseteq Functions

Slots   == 0 .. MaxDb - 1
NoSlot  == -1
Mutexes == {"dbv", "env", "init"}

AttachCalls == {"att_svchp", "att_errhp", "att_srvhp",
                "att_server", "att_service", "att_authp"}
OciHandles  == {"envhp", "svchp", "errhp", "srvhp", "authp"}

\* Labels a function returns to, inside the library and in the application.
LibraryReturns == {"con_attached", "con_begun", "con_freed", "fin_ended",
                   "fin_detached", "fin_freed", "det_ended"}
ClientReturns  == {"c_connect", "c_attach", "c_begin", "c_end", "c_detach",
                   "c_free", "c_finish", "c_commit", "c_init"}
ReturnLabels   == LibraryReturns \union ClientReturns

DbvSection  == {"add_find", "add_mark", "add_unlock", "add_full",
                "rel_clear", "rel_unlock"}
EnvSection  == {"env_create", "env_unlock"}
InitSection == {"ini_test"}

Labels == {"idle", "add_lock", "add_stmtv", "att_split", "env_lock", "att_done",
           "rel_free", "rel_lock", "read_status", "beg_check", "beg_attr",
           "beg_login", "beg_bind", "end_check", "end_call", "det_check",
           "det_call", "free_check", "free_call", "fin_check", "com_check",
           "com_call", "ini_lock", "ua_dbv", "ua_env", "ua_init"}
            \union AttachCalls \union ReturnLabels
            \union DbvSection \union EnvSection \union InitSection

VARIABLES
  body,      \* "null": no database structure, "struct": without its stmtv, "full"
  used, attached, session,   \* the flags of a slot, session is session_created
  status,    \* the slot's status field: "ok" is OCI_SUCCESS
  res,       \* the OCI handles of a slot
  mux,       \* the holder of each mutex
  pc, stack, rv,
  dbh,       \* the handle a thread works on, *dbhp in the calls that return one
  view,      \* what the returned values told the thread about its connection
  owner      \* history: the thread to which _db_add gave a slot

table  == <<body, used, attached, session, status, res, owner>>
thread == <<pc, stack, rv, dbh, view>>
vars   == <<table, mux, thread>>

Init ==
  /\ body     = [s \in Slots |-> "null"]
  /\ used     = [s \in Slots |-> FALSE]
  /\ attached = [s \in Slots |-> FALSE]
  /\ session  = [s \in Slots |-> FALSE]
  /\ status   = [s \in Slots |-> "ok"]
  /\ res      = [s \in Slots |-> {}]
  /\ owner    = [s \in Slots |-> NoThread]
  /\ mux      = [m \in Mutexes |-> NoThread]
  /\ pc       = [t \in Threads |-> "idle"]
  /\ stack    = [t \in Threads |-> <<>>]
  /\ rv       = [t \in Threads |-> "ok"]
  /\ dbh      = [t \in Threads |-> NoSlot]
  /\ view     = [t \in Threads |-> "none"]

-----------------------------------------------------------------------------
(* Control: steps inside a function, calls, returns, mutexes.              *)

At(t, l) == pc[t] = l

Goto(t, l) == pc' = [pc EXCEPT ![t] = l] /\ UNCHANGED <<stack, rv>>

Call(t, l, back) ==
  /\ pc'    = [pc EXCEPT ![t] = l]
  /\ stack' = [stack EXCEPT ![t] = <<back>> \o @]
  /\ UNCHANGED rv

Return(t, value) ==
  /\ stack[t] # <<>>
  /\ pc'    = [pc EXCEPT ![t] = Head(stack[t])]
  /\ stack' = [stack EXCEPT ![t] = Tail(@)]
  /\ rv'    = [rv EXCEPT ![t] = value]

\* What the call at the thread's label may answer.
Outcomes(t) == IF pc[t] \in Faults THEN {"ok", "fail"} ELSE {"ok"}

\* A lock that fails (_winmutex_lock's timeout) goes unnoticed: no caller
\* looks at the value _dbv_lock and _env_lock return.
Lock(t, m) ==
  \/ mux[m] = NoThread /\ mux' = [mux EXCEPT ![m] = t]
  \/ mux[m] # NoThread /\ pc[t] \in Faults /\ UNCHANGED mux

Unlock(t, m) ==
  \E holder \in IF mux[m] = t     THEN {NoThread}
                ELSE IF OwnerChecked THEN {mux[m]}
                ELSE {mux[m], NoThread} :
    mux' = [mux EXCEPT ![m] = holder]

\* VALID_DBH_RANGE and the used flag, the test every function starts with.
ValidDbh(t) == dbh[t] \in Slots /\ used[dbh[t]]

\* UNLOCK_ALL, then the return of an error.
UnlockAllStep(t) ==
  \/ At(t, "ua_dbv")  /\ Unlock(t, "dbv")  /\ Goto(t, "ua_env")
  \/ At(t, "ua_env")  /\ Unlock(t, "env")  /\ Goto(t, "ua_init")
  \/ At(t, "ua_init") /\ Unlock(t, "init") /\ Return(t, "fail")

UnlockAll(t) == UnlockAllStep(t) /\ UNCHANGED <<table, dbh, view>>

-----------------------------------------------------------------------------
(* _db_add: find a slot and mark it used under the table's mutex, then     *)
(* give it its vector of statements.                                       *)

FreeSlots == {s \in Slots : body[s] # "null" /\ ~used[s]}
NullSlots == {s \in Slots : body[s] = "null"}
First(S)  == CHOOSE s \in S : \A u \in S : s <= u

AddLock(t) ==
  /\ At(t, "add_lock")
  /\ Lock(t, "dbv")
  /\ dbh' = [dbh EXCEPT ![t] = NoSlot]
  /\ Goto(t, "add_find")
  /\ UNCHANGED <<table, view>>

\* Mutant: a full table hands out its first slot.
AddFindOverflow(t) ==
  /\ At(t, "add_find")
  /\ dbh' = [dbh EXCEPT ![t] =
               IF FreeSlots # {} THEN First(FreeSlots)
               ELSE IF NullSlots # {} THEN First(NullSlots) ELSE First(Slots)]
  /\ Goto(t, "add_mark")
  /\ UNCHANGED <<table, mux, view>>

\* Mutant: of a full table the index at which the scan ended is taken.
AddFindPast(t) ==
  /\ At(t, "add_find")
  /\ dbh' = [dbh EXCEPT ![t] =
               IF FreeSlots # {} THEN First(FreeSlots)
               ELSE IF NullSlots # {} THEN First(NullSlots) ELSE MaxDb]
  /\ Goto(t, "add_mark")
  /\ UNCHANGED <<table, mux, view>>

\* _find_free_dbv_entry: a slot that was used before is preferred to one
\* that was never allocated.
AddFind(t) ==
  /\ At(t, "add_find")
  /\ \/ /\ FreeSlots \union NullSlots # {}
        /\ dbh' = [dbh EXCEPT ![t] = IF FreeSlots # {} THEN First(FreeSlots)
                                                       ELSE First(NullSlots)]
        /\ Goto(t, "add_mark")
     \/ /\ FreeSlots \union NullSlots = {}
        /\ UNCHANGED dbh
        /\ Goto(t, "add_full")
  /\ UNCHANGED <<table, mux, view>>

\* Mutant: the used flag is left to the end of sqlo_server_attach.
AddMarkLate(t) ==
  /\ At(t, "add_mark")
  /\ body'  = [body EXCEPT ![dbh[t]] = IF @ = "null" THEN "struct" ELSE @]
  /\ owner' = [owner EXCEPT ![dbh[t]] = t]
  /\ Goto(t, "add_unlock")
  /\ UNCHANGED <<used, attached, session, status, res, mux, dbh, view>>

AddMark(t) ==
  /\ At(t, "add_mark")
  /\ \/ /\ body'  = [body EXCEPT ![dbh[t]] = IF @ = "null" THEN "struct" ELSE @]
        /\ used'  = [used EXCEPT ![dbh[t]] = TRUE]
        /\ owner' = [owner EXCEPT ![dbh[t]] = t]
        /\ Goto(t, "add_unlock")
        /\ UNCHANGED dbh
     \/ /\ body[dbh[t]] = "null" /\ "add_mark" \in Faults      \* _db_alloc fails
        /\ dbh' = [dbh EXCEPT ![t] = NoSlot]
        /\ Goto(t, "add_full")
        /\ UNCHANGED <<body, used, owner>>
  /\ UNCHANGED <<attached, session, status, res, mux, view>>

AddUnlock(t) ==
  /\ At(t, "add_unlock")
  /\ Unlock(t, "dbv")
  /\ Goto(t, "add_stmtv")
  /\ UNCHANGED <<table, dbh, view>>

\* Mutants: a full table is reported without giving back its mutex, and one
\* is waited for with the mutex held.
AddFullLocked(t) ==
  /\ At(t, "add_full")
  /\ Return(t, "fail")
  /\ UNCHANGED <<table, mux, dbh, view>>
AddFullWaits(t) ==
  /\ At(t, "add_full")
  /\ Goto(t, "add_find")
  /\ UNCHANGED <<table, mux, dbh, view>>

\* No slot: _db_add returns NULL and sqlo_server_attach SQLO_ERROR.
AddFull(t) ==
  /\ At(t, "add_full")
  /\ Unlock(t, "dbv")
  /\ Return(t, "fail")
  /\ UNCHANGED <<table, dbh, view>>

\* _stmtv_alloc; when it fails the slot stays used, and *dbhp is still -1.
AddStmtv(t) ==
  /\ At(t, "add_stmtv")
  /\ \/ /\ body' = [body EXCEPT ![dbh[t]] = "full"]
        /\ Goto(t, "att_split")
        /\ UNCHANGED <<status, dbh>>
     \/ /\ body[dbh[t]] # "full" /\ "add_stmtv" \in Faults
        /\ status' = [status EXCEPT ![dbh[t]] = "fail"]
        /\ dbh' = [dbh EXCEPT ![t] = NoSlot]
        /\ Goto(t, "ua_dbv")
        /\ UNCHANGED body
  /\ UNCHANGED <<used, attached, session, res, owner, mux, view>>

Add(t) == AddLock(t) \/ AddFind(t) \/ AddMark(t) \/ AddUnlock(t)
            \/ AddFull(t) \/ AddStmtv(t)

-----------------------------------------------------------------------------
(* sqlo_server_attach after _db_add.                                       *)

\* sqlo_split_cstring; on failure the slot stays used, and *dbhp is still -1.
AttachSplit(t) ==
  /\ At(t, "att_split")
  /\ \/ /\ status' = [status EXCEPT ![dbh[t]] = "ok"]
        /\ Goto(t, "env_lock")
        /\ UNCHANGED dbh
     \/ /\ "att_split" \in Faults
        /\ dbh' = [dbh EXCEPT ![t] = NoSlot]
        /\ Return(t, "fail")
        /\ UNCHANGED status
  /\ UNCHANGED <<body, used, attached, session, res, owner, mux, view>>

EnvLock(t) ==
  /\ At(t, "env_lock")
  /\ Lock(t, "env")
  /\ Goto(t, "env_create")
  /\ UNCHANGED <<table, dbh, view>>

EnvCreate(t) ==
  /\ At(t, "env_create")
  /\ \E out \in Outcomes(t) :
       /\ status' = [status EXCEPT ![dbh[t]] = out]
       /\ res' = [res EXCEPT ![dbh[t]] = IF out = "ok" THEN @ \union {"envhp"} ELSE @]
  /\ Goto(t, "env_unlock")
  /\ UNCHANGED <<body, used, attached, session, owner, mux, dbh, view>>

EnvUnlock(t) ==
  /\ At(t, "env_unlock")
  /\ Unlock(t, "env")
  /\ Goto(t, IF status[dbh[t]] = "ok" THEN "att_svchp" ELSE "rel_free")
  /\ UNCHANGED <<table, dbh, view>>

\* The calls on the environment, in order, and the handle each allocates.
AttachNext == [att_svchp   |-> "att_errhp",   att_errhp |-> "att_srvhp",
               att_srvhp   |-> "att_server",  att_server |-> "att_service",
               att_service |-> "att_authp",   att_authp |-> "att_done"]
AttachGets == [att_svchp |-> {"svchp"}, att_errhp |-> {"errhp"},
               att_srvhp |-> {"srvhp"}, att_server |-> {},
               att_service |-> {},      att_authp |-> {"authp"}]

AttachCall(t) ==
  /\ pc[t] \in AttachCalls
  /\ \E out \in Outcomes(t) :
       /\ status' = [status EXCEPT ![dbh[t]] = out]
       /\ res' = [res EXCEPT ![dbh[t]] =
                    IF out = "ok" THEN @ \union AttachGets[pc[t]] ELSE @]
       /\ Goto(t, IF out = "ok" THEN AttachNext[pc[t]] ELSE "rel_free")
  /\ UNCHANGED <<body, used, attached, session, owner, mux, dbh, view>>

AttachDone(t) ==
  /\ At(t, "att_done")
  /\ used'     = [used EXCEPT ![dbh[t]] = TRUE]
  /\ attached' = [attached EXCEPT ![dbh[t]] = TRUE]
  /\ Goto(t, "read_status")
  /\ UNCHANGED <<body, session, status, res, owner, mux, dbh, view>>

Attach(t) == AttachSplit(t) \/ EnvLock(t) \/ EnvCreate(t) \/ EnvUnlock(t)
               \/ AttachCall(t) \/ AttachDone(t)

-----------------------------------------------------------------------------
(* _db_release, and the `return dbp->status` all its callers end with.     *)

\* Mutant: one OCI handle is not freed.
ReleaseFreeLeaks(t) ==
  /\ At(t, "rel_free")
  /\ res'    = [res EXCEPT ![dbh[t]] = @ \intersect {"authp"}]
  /\ status' = [status EXCEPT ![dbh[t]] = "ok"]
  /\ Goto(t, "rel_lock")
  /\ UNCHANGED <<body, used, attached, session, owner, mux, dbh, view>>

ReleaseFree(t) ==
  /\ At(t, "rel_free")
  /\ res'    = [res EXCEPT ![dbh[t]] = {}]
  /\ status' = [status EXCEPT ![dbh[t]] = "ok"]
  /\ Goto(t, "rel_lock")
  /\ UNCHANGED <<body, used, attached, session, owner, mux, dbh, view>>

\* Mutant: _db_release without _dbv_lock.
ReleaseLockSkipped(t) ==
  /\ At(t, "rel_lock")
  /\ Goto(t, "rel_clear")
  /\ UNCHANGED <<table, mux, dbh, view>>

ReleaseLock(t) ==
  /\ At(t, "rel_lock")
  /\ Lock(t, "dbv")
  /\ Goto(t, "rel_clear")
  /\ UNCHANGED <<table, dbh, view>>

ReleaseClear(t) ==
  /\ At(t, "rel_clear")
  /\ attached' = [attached EXCEPT ![dbh[t]] = FALSE]
  /\ session'  = [session EXCEPT ![dbh[t]] = FALSE]
  /\ used'     = [used EXCEPT ![dbh[t]] = FALSE]
  /\ owner'    = [owner EXCEPT ![dbh[t]] = NoThread]
  /\ Goto(t, "rel_unlock")
  /\ UNCHANGED <<body, status, res, mux, dbh, view>>

ReleaseUnlock(t) ==
  /\ At(t, "rel_unlock")
  /\ Unlock(t, "dbv")
  /\ Goto(t, "read_status")
  /\ UNCHANGED <<table, dbh, view>>

ReadStatus(t) ==
  /\ At(t, "read_status")
  /\ Return(t, status[dbh[t]])
  /\ UNCHANGED <<table, mux, dbh, view>>

Release(t) == ReleaseFree(t) \/ ReleaseLock(t) \/ ReleaseClear(t)
                \/ ReleaseUnlock(t) \/ ReadStatus(t)

-----------------------------------------------------------------------------
(* sqlo_session_begin and sqlo_session_end.  The loops that repeat a call  *)
(* while it answers OCI_STILL_EXECUTING change nothing and are left out.   *)

BeginCheck(t) ==
  /\ At(t, "beg_check")
  /\ \/ /\ ValidDbh(t) /\ attached[dbh[t]] /\ ~session[dbh[t]]
        /\ Goto(t, "beg_attr")
     \/ /\ \/ ~(ValidDbh(t) /\ attached[dbh[t]] /\ ~session[dbh[t]])
           \/ "beg_check" \in Faults         \* no user name, or no memory for it
        /\ Return(t, "fail")
  /\ UNCHANGED <<table, mux, dbh, view>>

\* User name and password, the login, the session set in the service context.
BeginCall(t) ==
  /\ pc[t] \in {"beg_attr", "beg_login", "beg_bind"}
  /\ \E out \in Outcomes(t) :
       /\ status' = [status EXCEPT ![dbh[t]] = out]
       /\ \/ out = "fail" /\ Goto(t, "ua_dbv") /\ UNCHANGED session
          \/ /\ out = "ok" /\ pc[t] # "beg_bind"
             /\ Goto(t, IF At(t, "beg_attr") THEN "beg_login" ELSE "beg_bind")
             /\ UNCHANGED session
          \/ /\ out = "ok" /\ At(t, "beg_bind")
             /\ session' = [session EXCEPT ![dbh[t]] = TRUE]
             /\ Return(t, "ok")
  /\ UNCHANGED <<body, used, attached, res, owner, mux, dbh, view>>

EndCheck(t) ==
  /\ At(t, "end_check")
  /\ \/ ValidDbh(t) /\ session[dbh[t]] /\ Goto(t, "end_call")
     \/ ~(ValidDbh(t) /\ session[dbh[t]]) /\ Return(t, "fail")
  /\ UNCHANGED <<table, mux, dbh, view>>

\* The session counts as ended even when OCISessionEnd fails.
EndCall(t) ==
  /\ At(t, "end_call")
  /\ \E out \in Outcomes(t) :
       /\ status' = [status EXCEPT ![dbh[t]] = out]
       /\ \/ out = "ok"   /\ Return(t, "ok")
          \/ out = "fail" /\ Goto(t, "ua_dbv")
  /\ session' = [session EXCEPT ![dbh[t]] = FALSE]
  /\ UNCHANGED <<body, used, attached, res, owner, mux, dbh, view>>

Session(t) == BeginCheck(t) \/ BeginCall(t) \/ EndCheck(t) \/ EndCall(t)

-----------------------------------------------------------------------------
(* sqlo_server_detach, sqlo_server_free, sqlo_commit.                      *)

DetachCheck(t) ==
  /\ At(t, "det_check")
  /\ \/ ~(ValidDbh(t) /\ attached[dbh[t]]) /\ Return(t, "fail")
     \/ ValidDbh(t) /\ attached[dbh[t]] /\ session[dbh[t]]
          /\ Call(t, "end_check", "det_ended")
     \/ ValidDbh(t) /\ attached[dbh[t]] /\ ~session[dbh[t]] /\ Goto(t, "det_call")
  /\ UNCHANGED <<table, mux, dbh, view>>

DetachEnded(t) ==
  /\ At(t, "det_ended")
  /\ Goto(t, IF rv[t] = "fail" /\ status[dbh[t]] # "ok" THEN "ua_dbv" ELSE "det_call")
  /\ UNCHANGED <<table, mux, dbh, view>>

\* Both outcomes of OCIServerDetach release the slot.
DetachCall(t) ==
  /\ At(t, "det_call")
  /\ \E out \in Outcomes(t) : status' = [status EXCEPT ![dbh[t]] = out]
  /\ Goto(t, "rel_free")
  /\ UNCHANGED <<body, used, attached, session, res, owner, mux, dbh, view>>

FreeCheck(t) ==
  /\ At(t, "free_check")
  /\ Goto(t, IF ValidDbh(t) THEN "free_call" ELSE "ua_dbv")
  /\ UNCHANGED <<table, mux, dbh, view>>

FreeCall(t) ==
  /\ At(t, "free_call")
  /\ \/ /\ attached[dbh[t]]
        /\ \E out \in Outcomes(t) : status' = [status EXCEPT ![dbh[t]] = out]
     \/ ~attached[dbh[t]] /\ UNCHANGED status
  /\ Goto(t, "rel_free")
  /\ UNCHANGED <<body, used, attached, session, res, owner, mux, dbh, view>>

CommitCheck(t) ==
  /\ At(t, "com_check")
  /\ Goto(t, IF ValidDbh(t) THEN "com_call" ELSE "ua_dbv")
  /\ UNCHANGED <<table, mux, dbh, view>>

CommitCall(t) ==
  /\ At(t, "com_call")
  /\ \E out \in Outcomes(t) :
       /\ status' = [status EXCEPT ![dbh[t]] = out]
       /\ \/ out = "ok"   /\ Return(t, "ok")
          \/ out = "fail" /\ Goto(t, "ua_dbv")
  /\ UNCHANGED <<body, used, attached, session, res, owner, mux, dbh, view>>

Detach(t) == DetachCheck(t) \/ DetachEnded(t) \/ DetachCall(t)
               \/ FreeCheck(t) \/ FreeCall(t) \/ CommitCheck(t) \/ CommitCall(t)

-----------------------------------------------------------------------------
(* sqlo_connect, sqlo_finish, and an sqlo_init after the first one.        *)

\* Mutant: a failed login is reported without sqlo_server_free.
ConnectLeaks(t) ==
  /\ \/ At(t, "con_attached") /\ rv[t] = "ok"   /\ Call(t, "beg_check", "con_begun")
     \/ At(t, "con_attached") /\ rv[t] = "fail" /\ Call(t, "free_check", "con_freed")
     \/ At(t, "con_begun")    /\ Return(t, rv[t])
     \/ At(t, "con_freed")    /\ Return(t, "fail")
  /\ UNCHANGED <<table, mux, dbh, view>>

Connect(t) ==
  /\ \/ At(t, "con_attached") /\ rv[t] = "ok"   /\ Call(t, "beg_check", "con_begun")
     \/ At(t, "con_attached") /\ rv[t] = "fail" /\ Call(t, "free_check", "con_freed")
     \/ At(t, "con_begun")    /\ rv[t] = "ok"   /\ Return(t, "ok")
     \/ At(t, "con_begun")    /\ rv[t] = "fail" /\ Call(t, "free_check", "con_freed")
     \/ At(t, "con_freed")    /\ Return(t, "fail")
  /\ UNCHANGED <<table, mux, dbh, view>>

\* Mutants: after a session that did not end, sqlo_finish returns without
\* sqlo_server_free, or tries again.
FinishLeaks(t) ==
  /\ \/ At(t, "fin_check") /\ ~ValidDbh(t) /\ Goto(t, "ua_dbv")
     \/ At(t, "fin_check") /\ ValidDbh(t) /\ ~session[dbh[t]] /\ Return(t, "ok")
     \/ At(t, "fin_check") /\ ValidDbh(t) /\ session[dbh[t]]
          /\ Call(t, "end_check", "fin_ended")
     \/ At(t, "fin_ended")    /\ rv[t] = "ok"   /\ Call(t, "det_check", "fin_detached")
     \/ At(t, "fin_ended")    /\ rv[t] = "fail" /\ Return(t, "fail")
     \/ At(t, "fin_detached") /\ Return(t, rv[t])
  /\ UNCHANGED <<table, mux, dbh, view>>

FinishRetries(t) ==
  /\ \/ At(t, "fin_check") /\ ~ValidDbh(t) /\ Goto(t, "ua_dbv")
     \/ At(t, "fin_check") /\ ValidDbh(t) /\ ~session[dbh[t]] /\ Return(t, "ok")
     \/ At(t, "fin_check") /\ ValidDbh(t) /\ session[dbh[t]]
          /\ Call(t, "end_check", "fin_ended")
     \/ At(t, "fin_ended")    /\ rv[t] = "ok"   /\ Call(t, "det_check", "fin_detached")
     \/ At(t, "fin_ended")    /\ rv[t] = "fail" /\ Call(t, "end_check", "fin_ended")
     \/ At(t, "fin_detached") /\ Return(t, rv[t])
  /\ UNCHANGED <<table, mux, dbh, view>>

Finish(t) ==
  /\ \/ At(t, "fin_check") /\ ~ValidDbh(t) /\ Goto(t, "ua_dbv")
     \/ At(t, "fin_check") /\ ValidDbh(t) /\ ~session[dbh[t]] /\ Return(t, "ok")
     \/ At(t, "fin_check") /\ ValidDbh(t) /\ session[dbh[t]]
          /\ Call(t, "end_check", "fin_ended")
     \/ At(t, "fin_ended")    /\ rv[t] = "ok"   /\ Call(t, "det_check", "fin_detached")
     \/ At(t, "fin_ended")    /\ rv[t] = "fail" /\ Call(t, "free_check", "fin_freed")
     \/ At(t, "fin_detached") /\ rv[t] = "ok"   /\ Return(t, "ok")
     \/ At(t, "fin_detached") /\ rv[t] = "fail" /\ Call(t, "free_check", "fin_freed")
     \/ At(t, "fin_freed")    /\ Return(t, "fail")
  /\ UNCHANGED <<table, mux, dbh, view>>

\* The library is initialised: take the lock, see it, leave.
InitAgain(t) ==
  /\ \/ At(t, "ini_lock") /\ Lock(t, "init")   /\ Goto(t, "ini_test")
     \/ At(t, "ini_test") /\ Unlock(t, "init") /\ Return(t, "ok")
  /\ UNCHANGED <<table, dbh, view>>

Api(t) == Connect(t) \/ Finish(t) \/ InitAgain(t)

-----------------------------------------------------------------------------
(* The application.  A thread keeps one connection and believes what the   *)
(* library returns: view "broken" is a connection on which ending the      *)
(* session or detaching failed and that it still has to get rid of.        *)

CallLabel == [connect |-> "add_lock",   attach |-> "add_lock",
              begin   |-> "beg_check",  end    |-> "end_check",
              detach  |-> "det_check",  free   |-> "free_check",
              finish  |-> "fin_check",  finish_early |-> "fin_check",
              commit  |-> "com_check",  init   |-> "ini_lock"]

Stack0 == [connect |-> <<"con_attached", "c_connect">>, attach |-> <<"c_attach">>,
           begin   |-> <<"c_begin">>,   end    |-> <<"c_end">>,
           detach  |-> <<"c_detach">>,  free   |-> <<"c_free">>,
           finish  |-> <<"c_finish">>,  finish_early |-> <<"c_finish">>,
           commit  |-> <<"c_commit">>,  init   |-> <<"c_init">>]

\* The states of its connection in which a thread calls a function.
CalledIn == [connect |-> {"none"},     attach |-> {"none"},
             begin   |-> {"attached"}, end    |-> {"session"},
             detach  |-> {"attached", "session", "broken"},
             free    |-> {"attached", "session", "broken"},
             finish  |-> {"session"},  finish_early |-> {"attached"},
             commit  |-> {"session"},  init   |-> {"none", "session"}]

ClientCall(t) ==
  /\ At(t, "idle")
  /\ \E f \in ClientCalls :
       /\ view[t] \in CalledIn[f]
       /\ pc'    = [pc EXCEPT ![t] = CallLabel[f]]
       /\ stack' = [stack EXCEPT ![t] = Stack0[f]]
  /\ UNCHANGED <<table, mux, rv, dbh, view>>

\* What a thread believes after a function returned.
ViewAfter(t) ==
  CASE pc[t] = "c_connect" -> IF rv[t] = "ok" THEN "session" ELSE "none"
    [] pc[t] = "c_attach"  -> IF rv[t] = "ok" THEN "attached" ELSE "none"
    [] pc[t] = "c_begin"   -> IF rv[t] = "ok" THEN "session" ELSE "attached"
    [] pc[t] = "c_end"     -> IF rv[t] = "ok" THEN "attached" ELSE "broken"
    [] pc[t] = "c_detach"  -> IF rv[t] = "ok" THEN "none" ELSE "broken"
    [] pc[t] \in {"c_free", "c_finish"} -> "none"
    [] pc[t] \in {"c_commit", "c_init"} -> view[t]

ClientReturn(t) ==
  /\ pc[t] \in ClientReturns
  /\ pc'   = [pc EXCEPT ![t] = "idle"]
  /\ view' = [view EXCEPT ![t] = ViewAfter(t)]
  /\ dbh'  = [dbh EXCEPT ![t] = IF ViewAfter(t) = "none" THEN NoSlot ELSE @]
  /\ rv'   = [rv EXCEPT ![t] = "ok"]
  /\ UNCHANGED <<table, mux, stack>>

-----------------------------------------------------------------------------

\* A step inside a function of the library.
Step(t) == Add(t) \/ Attach(t) \/ Release(t) \/ Session(t) \/ Detach(t)
             \/ Api(t) \/ UnlockAll(t)
             \/ ClientReturn(t)

Next == \E t \in Threads : Step(t) \/ ClientCall(t)

\* A thread that is in a function goes on with it, as far as it can; a thread
\* that is not need never call one.  A mutex promises no order to its waiters.
Spec == Init /\ [][Next]_vars /\ \A t \in Threads : WF_vars(Step(t))

-----------------------------------------------------------------------------
(* Properties.                                                             *)

TypeOK ==
  /\ body \in [Slots -> {"null", "struct", "full"}]
  /\ used \in [Slots -> BOOLEAN]
  /\ attached \in [Slots -> BOOLEAN]
  /\ session \in [Slots -> BOOLEAN]
  /\ status \in [Slots -> {"ok", "fail"}]
  /\ res \in [Slots -> SUBSET OciHandles]
  /\ owner \in [Slots -> Threads \union {NoThread}]
  /\ mux \in [Mutexes -> Threads \union {NoThread}]
  /\ pc \in [Threads -> Labels]
  /\ stack \in [Threads -> Seq(ReturnLabels)]
  /\ rv \in [Threads -> {"ok", "fail"}]
  /\ dbh \in [Threads -> Slots \union {NoSlot}]
  /\ view \in [Threads -> {"none", "attached", "session", "broken"}]

\* The steps protected by a mutex.
Section == [dbv |-> DbvSection, env |-> EnvSection, init |-> InitSection]

\* The steps in which a function works on a database structure that it takes
\* for its own: it writes it, or uses or frees the OCI handles in it.
Using == {"add_stmtv", "att_split", "env_create", "env_unlock", "att_done",
          "rel_free", "rel_lock", "rel_clear", "beg_attr", "beg_login", "beg_bind",
          "end_call", "det_call", "free_call", "com_call"} \union AttachCalls

\* The critical sections of _db_add and _db_release (the scan of the table and
\* the used flag), of OCIEnvCreate and of sqlo_init exclude each other.
Exclusion ==
  \A m \in Mutexes, t, u \in Threads :
    pc[t] \in Section[m] /\ pc[u] \in Section[m] => t = u

\* A function never works on a database structure that _db_add gave to another
\* thread, or that was released meanwhile: no login on, detach of or double
\* free of somebody else's connection.
OwnUse == \A t \in Threads : pc[t] \in Using => owner[dbh[t]] = t

\* The used flag is what decides who gets a slot: it is set exactly while the
\* slot belongs to a thread, also when an attach sets it again, and a thread
\* that owns a slot still has the handle to give it back: no slot is lost.
SlotsAccounted ==
  \A s \in Slots :
    /\ used[s] <=> owner[s] # NoThread
    /\ \A t \in Threads : owner[s] = t => dbh[t] = s

\* A slot that is handed out starts clean: no OCI handle of its former owner
\* survives in it, and neither of its flags.
FreeIsClean ==
  \A s \in Slots : owner[s] = NoThread => res[s] = {} /\ ~attached[s] /\ ~session[s]

\* What the returned values told a thread is the state of its connection.
ViewTrue ==
  \A t \in Threads : At(t, "idle") =>
    CASE view[t] = "none"     -> \A s \in Slots : owner[s] # t
      [] view[t] = "attached" -> /\ owner[dbh[t]] = t
                                 /\ attached[dbh[t]] /\ ~session[dbh[t]]
      [] view[t] = "session"  -> /\ owner[dbh[t]] = t
                                 /\ attached[dbh[t]] /\ session[dbh[t]]
                                 /\ res[dbh[t]] = OciHandles
      [] view[t] = "broken"   -> owner[dbh[t]] = t

\* sqlo_finish that returns SQLO_SUCCESS has given back the connection.
FinishGivesBack ==
  \A t \in Threads : At(t, "c_finish") /\ rv[t] = "ok" => \A s \in Slots : owner[s] # t

\* The table implements the abstract pool of handles.
Pool == INSTANCE HandlePool
PoolSpec == Pool!Spec

\* No function returns with a mutex held, on whatever error path it leaves a
\* section: the next connect of any thread would wait for ever.
HeldInSection == \A m \in Mutexes, t \in Threads : mux[m] = t => pc[t] \in Section[m]

\* And nothing in a section takes for ever: every mutex that is taken is free
\* again some time later, also when the table is full or a call fails under it.
LocksReleased == \A m \in Mutexes : mux[m] # NoThread ~> mux[m] = NoThread

\* Every call returns, on each of its error paths.
CallsReturn == \A t \in Threads : ~At(t, "idle") ~> At(t, "idle")

-----------------------------------------------------------------------------
(* The invariants the proofs rest on.                                      *)

\* The steps of each function, and the stacks with which it runs: who called.
AttachSteps  == {"add_lock", "add_find", "add_mark", "add_unlock", "add_full",
                 "add_stmtv", "att_split", "env_lock", "env_create", "env_unlock",
                 "att_done"} \union AttachCalls
ReleaseSteps == {"rel_free", "rel_lock", "rel_clear", "rel_unlock", "read_status"}
BeginSteps   == {"beg_check", "beg_attr", "beg_login", "beg_bind"}
EndSteps     == {"end_check", "end_call"}
DetachSteps  == {"det_check", "det_ended", "det_call"}
FreeSteps    == {"free_check", "free_call"}
CommitSteps  == {"com_check", "com_call"}
InitSteps    == {"ini_lock", "ini_test"}
UnlockSteps  == {"ua_dbv", "ua_env", "ua_init"}
ConnectSteps == {"con_attached", "con_begun", "con_freed"}
FinishSteps  == {"fin_check", "fin_ended", "fin_detached", "fin_freed"}
ClientSteps  == {"idle"} \union ClientReturns

InConnect == <<"c_connect">>
InFinish  == <<"c_finish">>
AttachStacks == {<<"c_attach">>, <<"con_attached", "c_connect">>}
BeginStacks  == {<<"c_begin">>, <<"con_begun", "c_connect">>}
NestedEnd    == {<<"det_ended", "c_detach">>, <<"det_ended", "fin_detached", "c_finish">>}
EndStacks    == {<<"c_end">>, <<"fin_ended", "c_finish">>} \union NestedEnd
DetachStacks == {<<"c_detach">>, <<"fin_detached", "c_finish">>}
FreeStacks   == {<<"c_free">>, <<"con_freed", "c_connect">>, <<"fin_freed", "c_finish">>}
FailStacks   == AttachStacks \union BeginStacks \union EndStacks \union DetachStacks
                  \union FreeStacks \union {InFinish, <<"c_commit">>}

PathOK(l, st) ==
  /\ l \in AttachSteps  => st \in AttachStacks
  /\ l \in ReleaseSteps => st \in AttachStacks \union DetachStacks \union FreeStacks
  /\ l \in BeginSteps   => st \in BeginStacks
  /\ l \in EndSteps     => st \in EndStacks
  /\ l \in DetachSteps  => st \in DetachStacks
  /\ l \in FreeSteps    => st \in FreeStacks
  /\ l \in CommitSteps  => st = <<"c_commit">>
  /\ l \in InitSteps    => st = <<"c_init">>
  /\ l \in UnlockSteps  => st \in FailStacks
  /\ l \in ConnectSteps => st = InConnect
  /\ l \in FinishSteps  => st = InFinish
  /\ l \in ClientSteps  => st = <<>>

\* Every function returns to the one that called it.
CallPath == \A t \in Threads : PathOK(pc[t], stack[t])

\* The steps that index _dbv with the thread's handle do so within its bounds;
\* an sqlo_session_end inside sqlo_server_detach keeps the handle.
NeedsSlot == Using \union {"add_mark", "add_unlock", "env_lock", "rel_unlock",
                           "read_status", "det_ended"}
HandleOK ==
  \A t \in Threads : pc[t] \in NeedsSlot \/ stack[t] \in NestedEnd => dbh[t] \in Slots

\* A thread in a section holds its mutex, when the calls that lock it wait as
\* long as they have to.
LockCalls  == [dbv |-> {"add_lock", "rel_lock"}, env |-> {"env_lock"}, init |-> {"ini_lock"}]
Reliable   == {m \in Mutexes : Faults \intersect LockCalls[m] = {}}
HoldsMutex == \A m \in Reliable, t \in Threads : pc[t] \in Section[m] => mux[m] = t
\* What the thread holds: nothing, or a slot that is as yet without a server
\* and has the OCI handles h, attached to one, or logged in.
HoldsNone(t) == \A s \in Slots : owner[s] # t
Owns(t)      == dbh[t] \in Slots /\ owner[dbh[t]] = t
Bare(t, h)   == Owns(t) /\ ~attached[dbh[t]] /\ ~session[dbh[t]] /\ res[dbh[t]] = h
Joined(t)    == Owns(t) /\ attached[dbh[t]] /\ ~session[dbh[t]] /\ res[dbh[t]] = OciHandles
LoggedIn(t)  == Owns(t) /\ attached[dbh[t]] /\ session[dbh[t]] /\ res[dbh[t]] = OciHandles

\* The failures that are left in a slot's status.
StatusFaults == {"env_create", "beg_attr", "beg_login", "beg_bind", "end_call",
                 "det_call", "free_call", "com_call"} \union AttachCalls
Failing == Faults \intersect StatusFaults # {}

\* One thread, which leaves the attach to sqlo_connect.
Alone == (\A t, u \in Threads : t = u) /\ "attach" \notin ClientCalls

\* The conditions under which the table is kept in order: no slot is lost by
\* _db_add or the split of the connect string, nor by an sqlo_finish without a
\* session; and no status is read that another thread has left.
Orderly ==
  /\ Faults \intersect {"add_stmtv", "att_split"} = {}
  /\ "finish_early" \notin ClientCalls
  /\ Failing => Alone

\* The thread holds nothing, and its handle does not pass for another's.
Nothing(t) == HoldsNone(t) /\ (Failing \/ dbh[t] = NoSlot)

\* The OCI handles a slot has before each call of sqlo_server_attach.
Got == [att_svchp   |-> {"envhp"},
        att_errhp   |-> {"envhp", "svchp"},
        att_srvhp   |-> {"envhp", "svchp", "errhp"},
        att_server  |-> OciHandles \ {"authp"},
        att_service |-> OciHandles \ {"authp"},
        att_authp   |-> OciHandles \ {"authp"},
        att_done    |-> OciHandles]

\* What a thread holds at each step of each function.
HeldAttach(t) ==
  /\ pc[t] \in {"add_lock", "add_mark"} => HoldsNone(t)
  /\ pc[t] = "add_mark" => owner[dbh[t]] = NoThread
  /\ pc[t] \in {"add_find", "add_full"} => HoldsNone(t) /\ dbh[t] = NoSlot
  /\ pc[t] \in {"add_unlock", "add_stmtv", "att_split", "env_lock", "env_create"} =>
       Bare(t, {})
  /\ pc[t] = "env_unlock" =>
       /\ Bare(t, res[dbh[t]])
       /\ status[dbh[t]] = "ok" => res[dbh[t]] = {"envhp"}
  /\ pc[t] \in AttachCalls \union {"att_done"} => Bare(t, Got[pc[t]])
  /\ pc[t] = "att_done" => status[dbh[t]] = "ok"
  /\ pc[t] \in AttachSteps \union ReleaseSteps /\ stack[t] = <<"c_attach">> =>
       "attach" \in ClientCalls

HeldRelease(t) ==
  /\ pc[t] \in {"rel_free", "rel_lock", "rel_clear", "rel_unlock"}
       /\ stack[t] \in AttachStacks => Failing
  /\ pc[t] \in {"rel_free", "rel_lock", "rel_clear"} => Owns(t)
  /\ pc[t] \in {"rel_lock", "rel_clear"} => res[dbh[t]] = {}
  /\ pc[t] = "rel_unlock" => HoldsNone(t)
  /\ pc[t] \in {"rel_lock", "rel_clear", "rel_unlock", "read_status"} =>
       status[dbh[t]] = "ok"
  /\ pc[t] = "read_status" =>
       \/ HoldsNone(t) /\ (stack[t] \in AttachStacks => Failing)
       \/ Joined(t) /\ stack[t] \in AttachStacks

HeldSession(t) ==
  /\ pc[t] = "beg_check" =>
       \/ Joined(t)
       \/ stack[t] = <<"con_begun", "c_connect">> /\ Failing /\ HoldsNone(t)
  /\ pc[t] \in {"beg_attr", "beg_login", "beg_bind", "det_ended", "det_call", "fin_ended"} =>
       Joined(t)
  /\ pc[t] \in {"end_check", "end_call", "fin_check"} => LoggedIn(t)
  /\ pc[t] = "det_check" => Joined(t) \/ (LoggedIn(t) /\ stack[t] = <<"c_detach">>)
  /\ pc[t] = "free_check" =>
       \/ Joined(t) \/ LoggedIn(t)
       \/ stack[t] = <<"con_freed", "c_connect">> /\ Nothing(t)
  /\ pc[t] = "free_call" => Joined(t) \/ LoggedIn(t)
  /\ pc[t] \in {"com_check", "com_call"} => LoggedIn(t) /\ view[t] = "session"

HeldUnlock(t) ==
  pc[t] \in UnlockSteps =>
    \/ Joined(t) /\ stack[t] \in BeginStacks \union EndStacks \union DetachStacks
    \/ Nothing(t) /\ stack[t] = <<"con_freed", "c_connect">>
    \/ LoggedIn(t) /\ stack[t] = <<"c_commit">> /\ view[t] = "session"

\* What a thread holds where a function has returned.
HeldReturn(t) ==
  /\ pc[t] = "con_attached" =>
       \/ rv[t] = "ok" /\ (Joined(t) \/ (Failing /\ HoldsNone(t)))
       \/ rv[t] = "fail" /\ Nothing(t)
  /\ pc[t] = "con_begun" =>
       \/ rv[t] = "ok" /\ LoggedIn(t)
       \/ rv[t] = "fail" /\ (Joined(t) \/ Nothing(t))
  /\ pc[t] \in {"con_freed", "fin_freed", "c_free", "c_finish"} => HoldsNone(t)
  /\ pc[t] \in {"fin_detached", "c_detach"} =>
       IF rv[t] = "ok" THEN HoldsNone(t) ELSE Joined(t)
  /\ pc[t] = "c_connect" => IF rv[t] = "ok" THEN LoggedIn(t) ELSE HoldsNone(t)
  /\ pc[t] = "c_attach" => IF rv[t] = "ok" THEN Joined(t) ELSE HoldsNone(t)
  /\ pc[t] = "c_begin" => IF rv[t] = "ok" THEN LoggedIn(t) ELSE Joined(t)
  /\ pc[t] = "c_end" => Joined(t)
  /\ pc[t] = "c_commit" => LoggedIn(t) /\ view[t] = "session"

HeldClient(t) ==
  pc[t] \in {"idle", "ini_lock", "ini_test", "c_init"} =>
    /\ view[t] = "none" => HoldsNone(t)
    /\ view[t] \in {"attached", "broken"} => Joined(t)
    /\ view[t] = "session" => LoggedIn(t)

Held(t) == HeldAttach(t) /\ HeldRelease(t) /\ HeldSession(t) /\ HeldUnlock(t)
             /\ HeldReturn(t) /\ HeldClient(t)

\* A status that some thread may still read, of a slot it has given back, is
\* never that of another thread's failure.
StatusTrue == ~Failing => \A s \in Slots : status[s] = "ok"

\* A slot in use has a database structure: none is handed out as a new one.
UsedHasBody == \A s \in Slots : used[s] => body[s] # "null"

\* The table is right, and what the threads know of it is true.
TableRight == SlotsAccounted /\ FreeIsClean /\ StatusTrue /\ UsedHasBody
Accounts   == TableRight /\ \A t \in Threads : Held(t)

\* Without failures, and with a slot for every thread, no function fails.
Smooth(t) ==
  /\ rv[t] = "ok"
  /\ pc[t] \notin UnlockSteps \union {"add_full", "con_freed", "fin_freed"}
  /\ pc[t] \in FreeSteps \union ReleaseSteps =>
       stack[t] \notin {<<"con_freed", "c_connect">>, <<"fin_freed", "c_finish">>}
AllSmooth == \A t \in Threads : Smooth(t)
=============================================================================
