------------------------------- MODULE Cursors -------------------------------
(***************************************************************************)
(* The statements of one connection of sqlora.c: the vector stmtv of       *)
(* statement structures and the functions that open, execute, fetch, break *)
(* and close a cursor, in blocking and in non-blocking mode.               *)
(*                                                                         *)
(* A connection belongs to one thread, so a call is one step.  A function  *)
(* of the library is an operator that gives the set of its outcomes        *)
(* [db, ret]: the connection afterwards and the value returned.  A label   *)
(* in Faults is an OCI call, or an allocation, that may fail.  In          *)
(* non-blocking mode an OCI call may also answer "busy",                   *)
(* OCI_STILL_EXECUTING, and is repeated by the application until it ends.  *)
(***************************************************************************)
EXTENDS Integers

CONSTANTS
  Cursors,      \* the application's variables that hold a statement handle
  MaxCursors,   \* stmtv_size
  Args, NoArgs, \* the vectors of bind values, and argc = 0
  Statements,   \* the statements the application gives to sqlo_exec
  Kinds,        \* the kinds of the other statements
  Faults,       \* the labels of the calls that may fail
  ClientCalls   \* the functions the application calls

AllKinds  == {"query", "dml", "plsql"}
Functions == {"open", "open2", "reopen", "reopen_plain", "fetch", "result", "close", "prepare",
              "bind", "define", "execute", "refcursor", "ntable", "exec", "exists", "run",
              "break", "blocking", "autocommit", "finish", "free", "connect"}

ASSUME CursorAssumption == MaxCursors \in Nat \ {0}
ASSUME ArgsAssumption   == NoArgs \notin Args
ASSUME KindAssumption   == Kinds \subseteq AllKinds
ASSUME CallAssumption   == ClientCalls \subseteq Functions

Sths     == 0 .. MaxCursors - 1
NoSth    == -1
NoCursor == "none"
NoStmt   == "none"
NoKind   == "none"
ExecHandle == -2     \* the busy statement is the one of sqlo_exec

ASSUME CursorNames    == NoCursor \notin Cursors
ASSUME StatementNames == NoStmt \notin Statements

VARIABLES
  db,     \* the database structure and its statements
  cur,    \* the statement handle in each of the application's variables
  last,   \* the last call and what it returned
  want    \* history: the modes the application has to reckon with

vars == <<db, cur, last, want>>

\* A statement structure.  defs: is num_defnpv > 0, output columns are defined;
\* ran: is num_executions > 0.  The last three describe the OCI handle: the values
\* bound, those with which it ran, and whether it has run.
EmptyStmt ==
  [used |-> FALSE, opened |-> FALSE, prepared |-> FALSE, still |-> FALSE,
   ran |-> FALSE, ctype |-> "default", stype |-> NoKind, defs |-> FALSE,
   hp |-> "null", bound |-> NoArgs, with |-> NoArgs, exec |-> FALSE]

\* nb: the server handle is in non-blocking mode.  auto: exec_flags has
\* OCI_COMMIT_ON_SUCCESS.  xhp: stmthp, the handle of sqlo_exec; xstmt and
\* xran: the statement prepared on it, and the one the last sqlo_exec ran.
\* busy: the handle on which an OCI call goes on.
EmptyDb ==
  [up |-> TRUE, status |-> "ok", nb |-> FALSE, auto |-> FALSE,
   xhp |-> "null", xstmt |-> NoStmt, xran |-> NoStmt, busy |-> NoSth,
   st |-> [s \in Sths |-> EmptyStmt]]

Calls == [op : Functions \union {"none"}, cur : Cursors \union {NoCursor},
          kind : AllKinds \union {NoKind},
          arg : Args \union Statements \union {NoArgs} \union BOOLEAN]

Init ==
  /\ db   = EmptyDb
  /\ cur  = [c \in Cursors |-> NoSth]
  /\ last = [call |-> [op |-> "none", cur |-> NoCursor, kind |-> NoKind, arg |-> NoArgs],
             ret  |-> "ok"]
  /\ want = [nb |-> {FALSE}, auto |-> FALSE]

-----------------------------------------------------------------------------
(* Outcomes.                                                               *)

Result(x, value) == [db |-> x, ret |-> value]

\* `dbp->status = ...; return dbp->status`.
Sets(x, value) == Result([x EXCEPT !.status = value], value)

Answers(l) == IF l \in Faults THEN {"ok", "error"} ELSE {"ok"}

\* A call of OCI, or of an allocation, whose answer becomes dbp->status.
Oci(x, l) == {Sets(x, a) : a \in Answers(l)}

\* CHECK_OCI_STATUS_RETURN: go on after a success, else return.
Then(R, F(_)) == {r \in R : r.ret # "ok"} \union UNION {F(r.db) : r \in {q \in R : q.ret = "ok"}}

\* Repeat a call until it no longer answers "busy"; a repetition that is
\* "busy" again leaves the state it found.
Until(R, F(_)) == {q \in R \union UNION {F(r.db) : r \in {p \in R : p.ret = "busy"}} :
                     q.ret # "busy"}

-----------------------------------------------------------------------------
(* OCI: the calls on a statement handle.                                   *)

\* OCIStmtExecute; a call that was busy goes on with the values it began with.
ExecAnswers(x, s) ==
  IF x.st[s].hp # "live" THEN {"error"}
  ELSE Answers("execute") \union (IF x.nb THEN {"busy"} ELSE {})
         \union (IF x.st[s].stype = "query" THEN {} ELSE Faults \intersect {"nodata"})
ExecCall(x, s) ==
  {Sets([x EXCEPT !.busy = IF a = "busy" THEN s ELSE NoSth,
                  !.st[s].exec = a \in {"ok", "nodata"},
                  !.st[s].with = IF x.busy = s THEN x.st[s].with ELSE x.st[s].bound], a) :
     a \in ExecAnswers(x, s)}

\* OCIStmtFetch; it needs a statement that has run.
FetchAnswers(x, s) ==
  IF x.st[s].hp # "live" \/ ~x.st[s].exec THEN {"error"}
  ELSE Answers("fetch") \union {"nodata"} \union (IF x.nb THEN {"busy"} ELSE {})
FetchCall(x, s) ==
  {Sets([x EXCEPT !.busy = IF a = "busy" THEN s ELSE NoSth], a) : a \in FetchAnswers(x, s)}

-----------------------------------------------------------------------------
(* Statement structures.                                                   *)

\* Mutant: _stmt_release without `still_executing = FALSE`.
ReleasedKeepsStill(stmt) ==
  [stmt EXCEPT !.used = FALSE, !.opened = FALSE, !.prepared = FALSE, !.ran = FALSE]

\* _stmt_release
Released(stmt) ==
  [stmt EXCEPT !.used = FALSE, !.opened = FALSE, !.prepared = FALSE,
               !.still = FALSE, !.ran = FALSE]

\* Mutant: sqlo_close leaves the defined columns.
CloseSlotsKeepDefs(x, S, E) ==
  LET Closed(s) == [x.st[s] EXCEPT !.hp = "null"]
  IN  [x EXCEPT !.st = [s \in Sths |-> IF s \notin S THEN x.st[s]
                                       ELSE IF s \in E THEN Closed(s)
                                       ELSE Released(Closed(s))],
                !.busy = IF @ \in S THEN NoSth ELSE @]

\* Mutant: a slot is released although its OCI handle could not be freed.
CloseSlotsAnyway(x, S, E) ==
  [x EXCEPT !.st = [s \in Sths |-> IF s \notin S THEN x.st[s]
                                   ELSE Released([x.st[s] EXCEPT !.defs = FALSE])],
            !.busy = IF @ \in S THEN NoSth ELSE @]

\* sqlo_close of the slots S, all used, of which those in E fail to free their
\* OCI handle: they stay used, without the handle.
CloseSlots(x, S, E) ==
  LET Closed(s) == [x.st[s] EXCEPT !.defs = FALSE, !.hp = "null"]
  IN  [x EXCEPT !.st = [s \in Sths |-> IF s \notin S THEN x.st[s]
                                       ELSE IF s \in E THEN Closed(s)
                                       ELSE Released(Closed(s))],
                !.busy = IF @ \in S THEN NoSth ELSE @]

\* sqlo_close; the handle of a slot that is not used is invalid.
Close(x, s) ==
  IF ~x.st[s].used THEN {Result(x, "error")}
  ELSE {Sets(CloseSlots(x, {s}, IF a = "ok" THEN {} ELSE {s}), a) :
          a \in IF x.st[s].hp = "null" THEN {"ok"} ELSE Answers("free")}

\* CHECK_OCI_STATUS(dbp, sqlo_close(sth), ...) evaluates the call twice.
CloseTwice(x, s) ==
  {Sets(r.db, r.ret) : r \in UNION {Close(q.db, s) : q \in Close(x, s)}}

FreeSths(x) == {s \in Sths : ~x.st[s].used}
\* Mutant: the slot after the free one is handed out.
FirstFreeNext(x) == ((CHOOSE s \in FreeSths(x) : \A u \in FreeSths(x) : s <= u) + 1) % MaxCursors

FirstFree(x) == CHOOSE s \in FreeSths(x) : \A u \in FreeSths(x) : s <= u

\* Mutant: the slot of a statement whose allocation failed stays in use.
StmtNewKeeps(x) ==
  IF FreeSths(x) = {} THEN {Sets(x, "error")}
  ELSE {Sets([x EXCEPT !.st[FirstFree(x)] =
                [EmptyStmt EXCEPT !.used = TRUE, !.hp = IF a = "ok" THEN "live" ELSE "null",
                                  !.defs = x.st[FirstFree(x)].defs]], a) :
          a \in Answers("alloc")}

\* _stmt_new with _get_stmt_ptr and _stmt_init: the first free slot; the number
\* of its defined columns is left as it was.
StmtNew(x) ==
  IF FreeSths(x) = {} THEN {Sets(x, "error")}
  ELSE {Sets([x EXCEPT !.st[FirstFree(x)] =
                [EmptyStmt EXCEPT !.used = a = "ok", !.hp = IF a = "ok" THEN "live" ELSE "null",
                                  !.defs = x.st[FirstFree(x)].defs]], a) :
          a \in Answers("alloc")}

\* _prepare with the statement type.
Prepare(x, s, kind) ==
  Then(Oci(x, "prepare"), LAMBDA y :
  Then(Oci([y EXCEPT !.st[s].prepared = TRUE], "type"), LAMBDA z :
  {Result([z EXCEPT !.st[s].stype = kind], "ok")}))

SetPrefetch(x) == Oci(x, "prefetch")

BindArgv(x, s, a) ==
  Then(Oci(x, "bind"), LAMBDA y : {Result([y EXCEPT !.st[s].bound = a], "ok")})

\* _define_output: describe the statement, unless it has run, and define its
\* columns; an error may come before or after the first of them.
DefineColumns(x, s) ==
  LET y == IF x.st[s].ctype = "ref" THEN [x EXCEPT !.st[s].opened = TRUE] ELSE x
  IN  {Sets([y EXCEPT !.st[s].defs = TRUE], "ok")} \union
      (IF "define" \in Faults
       THEN {Sets([y EXCEPT !.st[s].defs = d], "error") : d \in BOOLEAN} ELSE {})

DefineOutput(x, s) ==
  IF x.st[s].defs THEN {Sets(x, "ok")}
  ELSE IF x.st[s].ran \/ x.st[s].ctype = "ref" THEN DefineColumns(x, s)
  ELSE Then(ExecCall(x, s), LAMBDA y : DefineColumns([y EXCEPT !.st[s].ran = TRUE], s))

-----------------------------------------------------------------------------
(* _sqlo_reopen.                                                           *)

\* Mutant: a statement that has run keeps the values it ran with.
RebindOnce(x, s, a) ==
  IF a = NoArgs \/ x.st[s].ran THEN {Result(x, "ok")} ELSE BindArgv(x, s, a)

\* The values are bound only if there are some and no call is going on.
Rebind(x, s, a) ==
  IF a = NoArgs \/ x.st[s].still THEN {Result(x, "ok")} ELSE BindArgv(x, s, a)

Opens(r, s) == Result([r.db EXCEPT !.st[s].opened = r.ret = "ok"], r.ret)

\* A query is executed: the first time by the describe, later again.  What
\* has failed is closed, and closed once more after the later executions.
OpenQueryEnd(x, s, r) ==
  CASE r.ret = "busy" ->
         {Opens(Result([r.db EXCEPT !.st[s].still = TRUE], "busy"), s)}
    [] r.ret = "error" /\ ~x.st[s].ran ->
         {Sets(c.db, "error") : c \in Close(r.db, s)}
    [] r.ret = "error" /\ x.st[s].ran ->
         {Opens(Sets(c.db, "error"), s) :
            c \in UNION {Close(q.db, s) : q \in Close(r.db, s)}}
    [] r.ret = "ok" ->
         LET y == [r.db EXCEPT !.st[s].still = FALSE]
         IN  {Opens(q, s) :
                q \in IF y.st[s].ran THEN {Result(y, "ok")}
                      ELSE DefineOutput([y EXCEPT !.st[s].ran = TRUE], s)}

OpenQuery(x, s) ==
  UNION {OpenQueryEnd(x, s, r) :
           r \in IF x.st[s].ran THEN ExecCall(x, s) ELSE DefineOutput(x, s)}

\* A statement that is no query is not executed here, and one without values
\* sets no status: the function returns the one it found.
Reopen(x, s, a) ==
  UNION {IF b.ret # "ok" THEN {Result(c.db, c.db.status) : c \in Close(b.db, s)}
         ELSE IF b.db.st[s].stype = "query" THEN OpenQuery(b.db, s)
         ELSE {Opens(Result(b.db, b.db.status), s)} :
         b \in Rebind(x, s, a)}

-----------------------------------------------------------------------------
(* Modes of the connection.                                                *)

\* Mutant: the mode is stored where the status belongs.
GetBlockingInStatus(x) == {Sets(x, IF x.nb THEN "off" ELSE "on")}

GetBlocking(x) == Oci(x, "attr")

\* sqlo_set_blocking toggles the attribute of the server handle.
SetBlocking(x, on) ==
  Then(GetBlocking(x), LAMBDA y :
       IF y.nb # on THEN GetBlocking(y)
       ELSE Then(Oci(y, "toggle"), LAMBDA z : GetBlocking([z EXCEPT !.nb = ~@])))

\* sqlo_set_autocommit: `|=` to set the flag, `^=` to clear it.
SetAutocommit(x, on) ==
  {Result([x EXCEPT !.auto = IF on THEN TRUE ELSE ~@], "ok")}

-----------------------------------------------------------------------------
(* sqlo_open, sqlo_open2, sqlo_prepare.                                    *)

\* Mutant: what failed to parse is not closed.
CloseFailedLeaks(x, s) == {Result(x, "error")}

CloseFailed(x, s) == {Result(r.db, "error") : r \in CloseTwice(x, s)}

\* From _prepare to the prefetch count; what fails is closed.
Parsed(x, s, kind) ==
  UNION {IF r.ret # "ok" \/ r.db.st[s].stype = "plsql" THEN CloseFailed(r.db, s)
         ELSE IF r.db.st[s].stype # "query" THEN {r}
         ELSE UNION {IF q.ret = "ok" THEN {q} ELSE CloseFailed(q.db, s) :
                       q \in SetPrefetch(r.db)} :
         r \in Prepare(x, s, kind)}

\* A new statement that is parsed.
NewParsed(x, kind) == Then(StmtNew(x), LAMBDA n : Parsed(n, FirstFree(x), kind))

\* Mutant: the flag that the mode was changed is never initialised (the
\* release before 2.2.0beta3, NEWS line 6).
OpenFlagUnset(x, kind, a) ==
  Then(GetBlocking(x), LAMBDA y :
  Then(IF y.nb THEN SetBlocking(y, TRUE) ELSE {Result(y, "ok")}, LAMBDA z :
  Then(NewParsed(z, kind), LAMBDA p :
       UNION {Then(SetBlocking(r.db, FALSE), LAMBDA m : {Result(m, r.ret)}) :
                r \in Reopen(p, FirstFree(z), a)})))

\* sqlo_open runs in blocking mode.  It sets the other one again after the
\* execution, whether that failed or not; what fails before it returns at
\* once and leaves the connection in blocking mode.
Open(x, kind, a) ==
  Then(GetBlocking(x), LAMBDA y :
  Then(IF y.nb THEN SetBlocking(y, TRUE) ELSE {Result(y, "ok")}, LAMBDA z :
  Then(NewParsed(z, kind), LAMBDA p :
       IF ~y.nb THEN Reopen(p, FirstFree(z), a)
       ELSE UNION {Then(SetBlocking(r.db, FALSE), LAMBDA m : {Result(m, r.ret)}) :
                     r \in Reopen(p, FirstFree(z), a)})))

\* Does sqlo_open2 go on with the statement h it is given?
GoesOn(x, h) == x.nb /\ h \in Sths /\ x.st[h].used /\ ~x.st[h].opened
                  /\ x.st[h].stype = "query" /\ x.st[h].still

Open2(x, h, kind, a) ==
  Then(GetBlocking(x), LAMBDA y :
       IF GoesOn(y, h) THEN Reopen(y, h, a)
       ELSE Then(NewParsed(y, kind), LAMBDA p : Reopen(p, FirstFree(y), a)))

\* sqlo_prepare; an error after _stmt_new leaves the slot in use.
PrepareStmt(x, kind) ==
  Then(StmtNew(x), LAMBDA n :
  Then(Prepare(n, FirstFree(x), kind), LAMBDA p :
       IF kind = "query" THEN SetPrefetch(p) ELSE {Result(p, "ok")}))

-----------------------------------------------------------------------------
(* sqlo_bind_by_name, sqlo_define_by_pos, sqlo_bind_ref_cursor,            *)
(* sqlo_define_ntable, sqlo_execute, sqlo_fetch, sqlo_query_result.        *)

BindByName(x, s, a) ==
  IF ~x.st[s].prepared THEN {Sets(x, "error")} ELSE BindArgv(x, s, a)

DefineByPos(x, s) ==
  IF ~x.st[s].prepared THEN {Sets(x, "error")}
  ELSE Then(Oci(x, "define"), LAMBDA y : {Result([y EXCEPT !.st[s].defs = TRUE], "ok")})

\* A cursor of the statement in slot s: a REF CURSOR it binds, or a nested
\* table it defines.  OCI gives the REF CURSOR's handle an open cursor.
NewCursor(x, s, ctype) ==
  IF ~x.st[s].prepared THEN {Sets(x, "error")}
  ELSE Then(StmtNew(x), LAMBDA n :
       Then(Oci(n, IF ctype = "ref" THEN "bind" ELSE "define"), LAMBDA y :
            {Result([y EXCEPT !.st[FirstFree(x)].ctype = ctype,
                              !.st[FirstFree(x)].prepared = TRUE,
                              !.st[FirstFree(x)].exec = ctype = "ref",
                              !.st[s].defs = @ \/ ctype = "ntable"], "ok")}))

\* Mutant: sqlo_execute does not mark the statement that goes on.
ExecuteForgetsStill(x, s) ==
  IF x.st[s].ctype # "default" /\ ~x.st[s].ran
  THEN Then(Oci(x, "type"), LAMBDA y : DefineOutput([y EXCEPT !.st[s].stype = "query"], s))
  ELSE IF ~x.st[s].prepared THEN {Sets(x, "error")}
  ELSE {CASE r.ret \in {"ok", "nodata"} ->
               Result([r.db EXCEPT !.st[s].opened = TRUE, !.st[s].still = FALSE], r.ret)
          [] r.ret = "busy"  -> Result([r.db EXCEPT !.st[s].opened = TRUE], "busy")
          [] r.ret = "error" -> r : r \in ExecCall(x, s)}

\* sqlo_execute; the cursors of an other statement are described first.
Execute(x, s) ==
  IF x.st[s].ctype # "default" /\ ~x.st[s].ran
  THEN Then(Oci(x, "type"), LAMBDA y : DefineOutput([y EXCEPT !.st[s].stype = "query"], s))
  ELSE IF ~x.st[s].prepared THEN {Sets(x, "error")}
  ELSE {CASE r.ret \in {"ok", "nodata"} ->
               Result([r.db EXCEPT !.st[s].opened = TRUE, !.st[s].still = FALSE], r.ret)
          [] r.ret = "busy" ->
               Result([r.db EXCEPT !.st[s].opened = TRUE, !.st[s].still = TRUE], "busy")
          [] r.ret = "error" -> r : r \in ExecCall(x, s)}

\* The statement goes on if the call answers "busy", and no longer if it
\* answers a member of Ended; any other answer leaves the mark as it is.
MarkStill(R, s, Ended) ==
  {Result([r.db EXCEPT !.st[s].still = r.ret = "busy" \/ (@ /\ r.ret \notin Ended)], r.ret) :
     r \in R}

\* sqlo_fetch executes what is no query.
Fetch(x, s) ==
  IF x.st[s].stype = "query" THEN MarkStill(FetchCall(x, s), s, {"ok", "nodata"})
  ELSE MarkStill(ExecCall(x, s), s, {"ok"})

\* sqlo_query_result
QueryResult(x, s) ==
  IF x.st[s].stype # "query" THEN {Sets(x, "error")}
  ELSE MarkStill(FetchCall(x, s), s, {"ok"})

-----------------------------------------------------------------------------
(* sqlo_exec, sqlo_exists and sqlo_count, sqlo_run.                        *)

ExecFree(x) == [x EXCEPT !.xhp = "null", !.xstmt = NoStmt]

\* The execution on the handle of sqlo_exec, and its end.
ExecRun(x) ==
  LET y == [x EXCEPT !.xran = IF x.xhp # "live" THEN "dead"
                                ELSE IF x.xstmt = NoStmt THEN "unparsed" ELSE x.xstmt]
      Answer == IF x.xhp # "live" \/ x.xstmt = NoStmt THEN {"error"}
                ELSE Answers("execute") \union (Faults \intersect {"nodata"})
                       \union (IF x.nb THEN {"busy"} ELSE {})
      \* row count, then the handle is freed
      End(z) == UNION {IF c.ret = "error" THEN {Result(ExecFree(c.db), "error")}
                       ELSE Then(Oci(c.db, "free"), LAMBDA f : {Result(ExecFree(f), "ok")}) :
                         c \in Oci(z, "attr")}
  IN  UNION {LET z == [y EXCEPT !.status = a, !.busy = IF a = "busy" THEN ExecHandle ELSE NoSth]
             IN  CASE a = "ok"   -> End(z)
                   [] a = "busy" -> {Result(z, "busy")}
                   [] a \in {"error", "nodata"} -> {Result(ExecFree(z), a)} :
             a \in Answer}

\* sqlo_exec: a handle left in the database structure is executed again.
Exec(x, stmt) ==
  LET y == [x EXCEPT !.xran = NoStmt]
  IN  IF y.xhp # "null" THEN ExecRun(y)
      ELSE Then(Oci(y, "alloc"), LAMBDA n :
           Then(Oci([n EXCEPT !.xhp = "live"], "prepare"), LAMBDA p :
                ExecRun([p EXCEPT !.xstmt = stmt])))

\* The functions open a cursor of their own, fetch from it and close
\* it; sqlo_exists and sqlo_count do not close it after a fetch that failed.
OwnCursor(x, kind, a, always) ==
  LET s == FirstFree(x)
      Opened == Until(Open2(x, NoSth, kind, a), LAMBDA y : Open2(y, s, kind, a))
      Fetched(y) == Until(Fetch(y, s), LAMBDA z : Fetch(z, s))
  IN  Then(Opened, LAMBDA y :
      UNION {IF f.ret = "error" /\ ~always THEN {Sets(f.db, "error")}
             ELSE {IF always \/ c.ret = "ok" THEN Result(c.db, f.ret) ELSE c :
                     c \in Close(f.db, s)} :
             f \in Fetched(y)})

Exists(x, a)    == IF FreeSths(x) = {} THEN {Sets(x, "error")} ELSE OwnCursor(x, "query", a, FALSE)
Run(x, kind, a) == IF FreeSths(x) = {} THEN {Sets(x, "error")} ELSE OwnCursor(x, kind, a, TRUE)

-----------------------------------------------------------------------------
(* sqlo_break, and what the end of a session or of a connection does.      *)

\* sqlo_close of all the slots S, in order; the errors are ignored, but
\* dbp->status is that of the last one.
CloseAll(x, S) ==
  {LET y == CloseSlots(x, S, E)
       Last == CHOOSE s \in S : \A u \in S : u <= s
   IN  IF S = {} THEN y ELSE [y EXCEPT !.status = IF Last \in E THEN "error" ELSE "ok"] :
     E \in IF "free" \in Faults THEN SUBSET {s \in S : x.st[s].hp # "null"} ELSE {{}}}

UsedSths(x)  == {s \in Sths : x.st[s].used}
StillSths(x) == {s \in UsedSths(x) : x.st[s].still}

\* Mutant: the statement of sqlo_exec is left as it is.
BreakLeavesHandle(x) ==
  Then(GetBlocking(x), LAMBDA y :
       IF ~y.nb THEN {Sets(y, "ok")}
       ELSE Then(Oci([y EXCEPT !.busy = NoSth], "break"), LAMBDA z :
            {Result(c, c.status) : c \in CloseAll(z, StillSths(z))}))

\* sqlo_break
Break(x) ==
  Then(GetBlocking(x), LAMBDA y :
       IF ~y.nb THEN {Sets(y, "ok")}
       ELSE Then({IF r.ret = "ok" THEN Result([r.db EXCEPT !.busy = NoSth], "ok") ELSE r :
                    r \in Oci(y, "break")}, LAMBDA z :
            UNION {IF c.xhp = "null" THEN {Result(c, c.status)}
                   ELSE {Sets(ExecFree(c), a) : a \in Answers("free")} :
                     c \in UNION {CloseAll(r.db, StillSths(r.db)) : r \in Oci(z, "reset")}}))

\* Mutant: the statements of the connection are not released.
DbReleaseKeeps(x) ==
  [x EXCEPT !.up = FALSE, !.status = "ok", !.busy = NoSth]

\* _db_release: the statements are released, and the handles of the
\* environment are freed with it, those that stmtv and stmthp point to too.
DbRelease(x) ==
  LET Dead(h) == IF h = "live" THEN "dead" ELSE h
  IN  [x EXCEPT !.up = FALSE, !.status = "ok", !.busy = NoSth, !.xhp = Dead(@),
                !.st = [s \in Sths |-> [Released(x.st[s]) EXCEPT !.hp = Dead(@)]]]

\* sqlo_finish: sqlo_session_end closes the cursors, sqlo_server_detach
\* releases the structure; sqlo_server_free only releases it.
DbFinish(x) == {Result(DbRelease(y), "ok") : y \in CloseAll(x, UsedSths(x))}
DbFree(x)   == {Result(DbRelease(x), "ok")}

\* sqlo_server_attach gives the structure a new server handle.
DbConnect(x) == {Result([x EXCEPT !.up = TRUE, !.status = "ok", !.nb = FALSE, !.auto = FALSE], "ok")}

-----------------------------------------------------------------------------
(* The application.  While a call answers "busy" it may repeat it with the *)
(* same arguments or give up with sqlo_break or sqlo_server_free; a handle *)
(* is given up when the call that was to open it, or to reopen it, failed. *)

Busy == last.ret = "busy"
Call(op, c, kind, a) == [op |-> op, cur |-> c, kind |-> kind, arg |-> a]

\* want.nb is what an application can know of the mode without asking for it:
\* that of its last sqlo_set_blocking that succeeded, any after one that
\* failed, and also blocking mode after an sqlo_open that failed.

\* The call gives one of the outcomes R; h are the handles afterwards.
Step(call, R, h(_)) ==
  /\ call.op \in ClientCalls
  /\ Busy => \/ call.op \in {"break", "free"}
             \/ call = last.call
  /\ db.up <=> call.op # "connect"
  /\ \E r \in R :
       /\ db'   = r.db
       /\ last' = [call |-> call, ret |-> r.ret]
       /\ cur'  = h(r)

Keep(r) == cur
Opened(c, s) == [cur EXCEPT ![c] = s]
Gone(c) == [cur EXCEPT ![c] = NoSth]
AllGone == [c \in Cursors |-> NoSth]
Fails(r) == r.ret \notin {"ok", "busy"}

OpenCall(c, kind, a) ==
  /\ cur[c] = NoSth
  /\ Step(Call("open", c, kind, a), Open(db, kind, a),
          LAMBDA r : IF Fails(r) THEN cur ELSE Opened(c, FirstFree(db)))
  /\ want' = [want EXCEPT !.nb = IF last'.ret = "ok" THEN @ ELSE @ \union {FALSE}]

Open2Call(c, kind, a) ==
  /\ cur[c] = NoSth \/ Busy
  /\ Step(Call("open2", c, kind, a), Open2(db, cur[c], kind, a),
          LAMBDA r : IF Fails(r) THEN Gone(c)
                     ELSE Opened(c, IF cur[c] = NoSth THEN FirstFree(db) ELSE cur[c]))
  /\ UNCHANGED want

PrepareCall(c, kind) ==
  /\ cur[c] = NoSth
  /\ Step(Call("prepare", c, kind, NoArgs), PrepareStmt(db, kind),
          LAMBDA r : IF Fails(r) THEN cur ELSE Opened(c, FirstFree(db)))
  /\ UNCHANGED want

\* A call on the statement in variable c.  Only a statement that was opened
\* or prepared is reopened, without values only a query; a REF CURSOR comes
\* from a PL/SQL block and a nested table from a query.
On(c, op, a, R, h(_)) == cur[c] # NoSth /\ Step(Call(op, c, NoKind, a), R, h) /\ UNCHANGED want

CursorCall(c) ==
  \/ \E a \in Args \union {NoArgs} :
       /\ cur[c] # NoSth => /\ db.st[cur[c]].ctype = "default"
                            /\ a = NoArgs => db.st[cur[c]].stype = "query"
       /\ On(c, IF a = NoArgs THEN "reopen_plain" ELSE "reopen", a, Reopen(db, cur[c], a),
             LAMBDA r : IF Fails(r) THEN Gone(c) ELSE cur)
  \/ \E a \in Args : On(c, "bind", a, BindByName(db, cur[c], a), Keep)
  \/ On(c, "define", NoArgs, DefineByPos(db, cur[c]), Keep)
  \/ On(c, "execute", NoArgs, Execute(db, cur[c]), Keep)
  \/ On(c, "fetch", NoArgs, Fetch(db, cur[c]), Keep)
  \/ On(c, "result", NoArgs, QueryResult(db, cur[c]), Keep)
  \/ On(c, "close", NoArgs, Close(db, cur[c]), LAMBDA r : IF Fails(r) THEN cur ELSE Gone(c))

\* The cursor in variable c gives one to variable e.
NewCursorCall(c, e) ==
  /\ cur[e] = NoSth
  /\ \E op \in {"refcursor", "ntable"} :
       /\ cur[c] # NoSth =>
            db.st[cur[c]].stype = IF op = "refcursor" THEN "plsql" ELSE "query"
       /\ On(c, op, NoArgs, NewCursor(db, cur[c], IF op = "refcursor" THEN "ref" ELSE "ntable"),
             LAMBDA r : IF Fails(r) THEN cur ELSE Opened(e, FirstFree(db)))

OneShotCall ==
  /\ \/ \E stmt \in Statements : Step(Call("exec", NoCursor, NoKind, stmt), Exec(db, stmt), Keep)
     \/ \E a \in Args : Step(Call("exists", NoCursor, "query", a), Exists(db, a), Keep)
     \/ \E kind \in Kinds, a \in Args :
          Step(Call("run", NoCursor, kind, a), Run(db, kind, a), Keep)
  /\ UNCHANGED want

\* The statement that was going on is closed by sqlo_break; if it fails it is
\* called again.
BreakCall ==
  LET c == IF Busy THEN last.call.cur ELSE NoCursor
  IN  /\ Step(Call("break", c, NoKind, NoArgs),
              {IF Busy /\ r.ret # "ok" THEN Result(r.db, "busy") ELSE r : r \in Break(db)},
              LAMBDA r : IF r.ret = "ok" /\ c # NoCursor THEN Gone(c) ELSE cur)
      /\ UNCHANGED want

ModeCall ==
  \/ \E on \in BOOLEAN :
       /\ Step(Call("blocking", NoCursor, NoKind, on), SetBlocking(db, on), Keep)
       /\ want' = [want EXCEPT !.nb = IF last'.ret = "ok" THEN {~on} ELSE BOOLEAN]
  \/ \E on \in BOOLEAN :
       /\ Step(Call("autocommit", NoCursor, NoKind, on), SetAutocommit(db, on), Keep)
       /\ want' = [want EXCEPT !.auto = on]

ConnectionCall ==
  /\ \/ Step(Call("finish", NoCursor, NoKind, NoArgs), DbFinish(db), LAMBDA r : AllGone)
     \/ Step(Call("free", NoCursor, NoKind, NoArgs), DbFree(db), LAMBDA r : AllGone)
     \/ Step(Call("connect", NoCursor, NoKind, NoArgs), DbConnect(db), Keep)
  /\ want' = [nb |-> {FALSE}, auto |-> FALSE]

Next ==
  \/ \E c \in Cursors : \/ \E kind \in Kinds, a \in Args \union {NoArgs} :
                             OpenCall(c, kind, a) \/ Open2Call(c, kind, a)
                        \/ \E kind \in Kinds : PrepareCall(c, kind)
                        \/ CursorCall(c)
                        \/ \E e \in Cursors : NewCursorCall(c, e)
  \/ OneShotCall \/ BreakCall \/ ModeCall \/ ConnectionCall

Spec == Init /\ [][Next]_vars

-----------------------------------------------------------------------------
(* Properties.                                                             *)

Held == {cur[c] : c \in Cursors} \ {NoSth}

Rets  == {"ok", "error", "nodata", "busy"}
Stmts == [used : BOOLEAN, opened : BOOLEAN, prepared : BOOLEAN, still : BOOLEAN,
          ran : BOOLEAN, ctype : {"default", "ref", "ntable"},
          stype : AllKinds \union {NoKind}, defs : BOOLEAN, hp : {"null", "live", "dead"},
          bound : Args \union {NoArgs}, with : Args \union {NoArgs}, exec : BOOLEAN]
Dbs   == [up : BOOLEAN, status : Rets, nb : BOOLEAN, auto : BOOLEAN,
          xhp : {"null", "live", "dead"}, xstmt : Statements \union {NoStmt},
          xran : Statements \union {NoStmt, "dead", "unparsed"},
          busy : Sths \union {NoSth, ExecHandle}, st : [Sths -> Stmts]]

TypeOK ==
  /\ db \in Dbs
  /\ cur \in [Cursors -> Sths \union {NoSth}]
  /\ last \in [call : Calls, ret : Rets]
  /\ want \in [nb : SUBSET BOOLEAN, auto : BOOLEAN]

\* A handle that a call returned, and that was not closed since, is that of a
\* statement in use, and of no other handle's.
HandlesValid ==
  \A c, e \in Cursors :
    cur[c] # NoSth => /\ db.st[cur[c]].used
                      /\ cur[c] = cur[e] => c = e

\* Every statement in use is one the application has the handle of: what
\* fails, is broken off or is released leaves none behind.
NoLostSlot == UsedSths(db) \subseteq Held

\* A statement structure that is free holds no OCI statement.
FreeHoldsNothing == \A s \in Sths : ~db.st[s].used => db.st[s].hp # "live"

\* A statement on which an OCI call goes on is marked still_executing: the
\* flag is what sqlo_break closes by, and sqlo_open2 goes on by.
GoingOnIsMarked == db.busy \in Sths => db.st[db.busy].still

\* And no other statement is.
StillTruth == \A s \in Sths : db.st[s].still <=> db.busy = s

\* A query that was opened or reopened with values has run with them.
RanWithArgs ==
  /\ last.call.op \in {"open", "open2", "reopen"}
  /\ last.ret = "ok" /\ last.call.arg # NoArgs
  /\ db.st[cur[last.call.cur]].stype = "query"
  => db.st[cur[last.call.cur]].with = last.call.arg

\* A query that is open has been executed by the server.
OpenedHasRun ==
  \A s \in Sths :
    /\ db.st[s].used /\ db.st[s].opened /\ db.st[s].stype = "query" /\ db.busy # s
    => db.st[s].exec

\* What sqlo_exec executes is the statement it was given.
ExecRunsItsStatement ==
  last.call.op = "exec" => db.xran \in {NoStmt, last.call.arg}

\* The connection is in a mode its application has to reckon with: no call but
\* sqlo_set_blocking changes it for good, sqlo_open that changes it for a while
\* gives it back when it succeeds, and when it fails, at whatever step, it
\* leaves the connection as it was or in blocking mode, never the reverse.
ModesAsAsked == db.up => db.nb \in want.nb

\* An sqlo_open that failed leaves the connection in blocking mode, as NEWS has
\* it.
BlocksAfterError == last.call.op = "open" /\ last.ret # "ok" => ~db.nb

\* Autocommit is on if the application switched it on last, and off if it
\* switched it off or never did.
AutocommitAsAsked == db.up => db.auto = want.auto
=============================================================================
