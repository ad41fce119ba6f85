# TLA+ models of libsqlora8

libsqlora8 is a C library over the Oracle Call Interface (OCI). Nearly all of
it is one file, `src/sqlora.c`; `src/sqlora.h` documents the interface,
`src/sqlora_compat.c` keeps old names, and `src/testlora.c` is the test program.
This directory holds TLA+ models of its stateful parts: how the library is
**initialised**, the **connection table** shared by the threads of a program,
the **statements (cursors)** of one connection, the **vectors** that bind and
define them, the **text of a column**, and the streams of **large objects**;
with TLC configurations and machine-checked proofs.

| file | contents |
| --- | --- |
| `HandlePool.tla` | what the connection table promises: a pool of handles, each with at most one owner |
| `ConnTable.tla` | how `sqlora.c` does it: `_dbv`, the three mutexes, attach, login, logout, detach, free, finish |
| `ConnTable_proofs.tla` | type correctness and mutual exclusion of `ConnTable`, proved for all constants |
| `ConnAccounts_proofs.tla` | whose slot is whose: the other invariants of `ConnTable`, and that it implements `HandlePool` |
| `MCConnTable.tla`, `Conn*.cfg` | its instances for TLC |
| `Cursors.tla` | the statements of a connection: open, reopen, prepare, bind, execute, fetch, close, break, exec |
| `Cursors_proofs.tla` | types, freed handles, modes, valid handles and marked calls of `Cursors`, proved |
| `CursorSlots_proofs.tla` | which statement goes on, which slots are in use and what has run: the other invariants of `Cursors`, proved |
| `MCCursors.tla`, `Cur*.cfg` | its instances for TLC |
| `Columns.tla`, `MCColumns.tla`, `Col*.cfg` | the bind and define vectors of a statement structure, used by one statement after the other |
| `Columns_proofs.tla` | the invariants of `Columns`, proved for any vectors, lists and sizes |
| `ColumnText.tla`, `MCColumnText.tla`, `Text*.cfg` | the size of a column's buffer, and a value on its way to the application |
| `ColumnText_proofs.tla` | that every value fits and is given out as fetched, proved for every column |
| `ByteTransfer.tla` | what the functions for large objects promise: every byte, once, in order |
| `LobStream.tla`, `MCLobStream.tla`, `Lob*.cfg` | how `sqlora.c` does it |
| `LobStream_proofs.tla` | that it does, proved for every length and size of the buffer |
| `Handles.tla` | the numbers that stand for statements |
| `Startup.tla`, `MCStartup.tla`, `Start*.cfg` | `sqlo_init`, its lock, limits and table, and the trace files |
| `Startup_proofs.tla` | facts about those numbers, and the invariants of `Startup`, proved for any number of threads and any limits |
| `PROJECT.json` | index: runs, mutants, which lines each definition models, findings, hazards, theorems |

`tlc -config ConnFull.cfg MCConnTable` runs one configuration,
`tlapm ConnTable_proofs.tla` checks the proofs.

How the modules fit together: `Startup` ends where `ConnTable` begins, with a
table of connections and its mutex; `ConnTable` gives a thread its connection,
and `Cursors` is what that thread does with it; `Columns` opens up one statement
of `Cursors`, its vectors and what OCI was told of them, which `Cursors`
abstracts to `bound` and `defined`; `ColumnText` is one column of `Columns`
from fetch to `sqlo_values`; `LobStream` works on a connection without
statements. `Startup` extends `Handles`, whose numbers name the slots of
`Cursors`.

## Inventory of the library

| component | state | operations | interaction |
| --- | --- | --- | --- |
| connection table | `_dbv[]`, `_dbv_size`; per slot `used`, `attached`, `session_created`, `status`, the OCI handles | `_db_add`, `_db_release`, `sqlo_server_attach`, `sqlo_session_begin/end`, `sqlo_server_detach/free`, `sqlo_connect`, `sqlo_finish`, `sqlo_commit/rollback` | shared by all threads; every API function looks its handle up in it |
| mutexes | `_dbv_mux`, `_env_mux`, `_init_mux` | lock, unlock, `UNLOCK_ALL` | taken by the table, by attach and by `sqlo_init`; released by the error macros of every function |
| initialisation, tracing | `_sqlo_init`, `_oci_init_mode`, `_init_mux_initialized`, the limits, parameters from the environment, `_trace_fp`, `_session_count` | `sqlo_init`, `_open_session_trace_file` | decides whether there are mutexes at all |
| statements | `stmtv[]` of a connection; per slot `used`, `opened`, `prepared`, `still_executing`, `num_executions`, `cursor_type`, `num_defnpv`, the OCI handle | `_stmt_new`, `_stmt_release`, `sqlo_open(2)`, `sqlo_reopen`, `sqlo_prepare`, `sqlo_execute`, `sqlo_fetch`, `sqlo_close`, REF CURSORs, nested tables | within a connection, so within one thread |
| one-shot statements | `dbp->stmthp` | `sqlo_exec`, `sqlo_exists`, `sqlo_count`, `sqlo_run` | open cursors of their own in the same `stmtv` |
| modes | the blocking attribute of the server handle, `exec_flags` | `sqlo_set_blocking`, `sqlo_set_autocommit`, `sqlo_break` | decides whether OCI may answer `OCI_STILL_EXECUTING` |
| bind and define vectors, output columns | buffers and their sizes | `_alloc_bindp`, `_alloc_definep`, `_define_ocol_by_pos`, `_terminate_ocols` | hang off a statement |
| large objects | a piecewise transfer through one buffer | `sqlo_lob_write_stream`, `sqlo_lob_read_stream` | use a connection's service handle |
| texts | error messages, traces, connect strings | `_save_oci_status`, `sqlo_geterror`, `sqlo_split_cstring` | read by the application |
| compatibility, information, interrupt handlers | none | `sqlora_compat.c`, `sqlo_version` ..., `sqlo_register_int_handler` | pass through |

What makes these parts correct, and what is hard about them:

* *Connection table* (concurrency, failure). A connection has one owner at a
  time; no slot is lost whatever call fails; a slot is handed out clean; what a
  call returns is what has happened. Hard: steps of several threads in any
  order, error paths that unlock every mutex, a status read after its slot was
  given back.
* *Mutexes* (interleaving, deadlock). At most one thread in a section, and
  every mutex is released on every path.
* *Statements* (long sequences of calls, partial failure, retries). A handle
  the application holds is valid and nobody else's; a statement in use has a
  holder; an OCI statement is freed once; a call that is still executing is the
  one that is marked so. Hard: flags that outlive the call, the statement or
  the connection they belong to, read by a later call.
* *Initialisation* (interleaving, retries). A second `sqlo_init` changes nothing
  that is in use; one after a failure starts from what the failure left. Hard:
  the lock of `sqlo_init` is one of the things it initialises.
* *Vectors and columns* (long sequences of calls, stale state, sizes). OCI has
  the address of buffers and indicators that are there and long enough, and is
  never given a handle of an earlier statement. Hard: memory is kept from one
  statement to the next, grows, moves, and is cleared up to a count.
* *Large objects* (sizes, retries, partial failure). All bytes arrive once, for
  every length; a call that is still executing is repeated and nothing else is.
* *Modes*. The connection is in the mode asked for also after calls that change
  it for a while.

The hazards, each at its line, are in `PROJECT.json`.

## The connection table: `ConnTable`

Several threads, each in at most one function of the library. A function is
modelled statement by statement as far as it touches what other threads see:
`pc[t]` is the next step, `stack[t]` the labels the functions it is in return
to, `rv[t]` the last returned value. `sqlo_connect` is thus `Call`s of attach,
begin and free, and the error path of each is the real one.

| model | code |
| --- | --- |
| `body` | is `_dbv[i]` NULL, without its `stmtv`, or complete |
| `used`, `attached`, `session`, `status`, `res` | the flags, `dbp->status`, and which OCI handles of the slot are allocated |
| `mux` | the holders of the three mutexes |
| `dbh[t]` | the handle the thread works with, `*dbhp` |
| `view[t]` | what the returned values told the thread about its connection |
| `owner` | history: the thread `_db_add` gave the slot to |
| `AddLock` ... `AddStmtv` | `_db_add`, with the choice of `_find_free_dbv_entry` |
| `AttachSplit` ... `AttachDone` | `sqlo_server_attach` |
| `ReleaseFree` ... `ReleaseUnlock`, `ReadStatus` | `_db_release`, and the `return dbp->status` after it |
| `BeginCheck` ... `EndCall` | `sqlo_session_begin`, `sqlo_session_end` |
| `Detach...`, `Free...`, `Commit...` | `sqlo_server_detach`, `sqlo_server_free`, `sqlo_commit` |
| `Connect`, `Finish`, `InitAgain` | `sqlo_connect`, `sqlo_finish`, `sqlo_init` when initialised |
| `UnlockAllStep` | `UNLOCK_ALL` before an error return, one mutex a step |

`Faults` is the set of labels whose call may fail, so that each run says what
goes wrong in it. `OwnerChecked` chooses the kind of mutex: Windows mutexes
ignore an unlock by a thread that does not hold them; for default POSIX mutexes
that is undefined, and the model lets it either do nothing or free the mutex.

The application (`ClientCall`, `ClientReturn`) follows the documentation: a
thread has one connection, calls what is legal for the connection it believes
to have, and frees a connection on which a logout or detach has failed.
`finish_early`, `sqlo_finish` without a session, is used by one
configuration only.

Left out: `sqlo_rollback` (it is `sqlo_commit` with another OCI call);
the repetition of a login or logout while OCI answers `OCI_STILL_EXECUTING`,
which changes nothing; the closing of cursors in `sqlo_session_end`, which is in
`Cursors`; the split of the connect string in `sqlo_connect` before anything is
done; error texts. The table is already initialised.

**Fairness.** `WF_vars(Step(t))` for each thread: a thread that is inside a
function goes on when it can, as the operating system's scheduler gives. Nothing
forces a thread to call a function, and mutexes promise no order: `CallsReturn`
is claimed for a single thread only, since several threads that call for ever
may overtake one that waits. `LocksReleased` (`ConnErrors`) holds with several, because the
holder of a mutex never waits for another.

### Runs

| run | instance | what it shows |
| --- | --- | --- |
| `ConnErrors` | 2 threads, 1 slot, a failure for each way out of a section and for each `UNLOCK_ALL`, mutexes that check their holder | with a full table, an environment or a slot that cannot be created, and `UNLOCK_ALL` of one thread while the other is in a section: `Exclusion`, no mutex is kept by a thread outside its section (`HeldInSection`), and each is given back (`LocksReleased`) |
| `ConnFull` | 3 threads, 2 slots, all calls, the lock of the environment may time out | `TypeOK`; a full table is reported and nothing is handed out twice or used by another thread (`OwnUse`); the refinement `PoolSpec` of `HandlePool` |
| `ConnSingle` | 1 thread, `sqlo_connect` and what follows it, every OCI failure | a failed connect leaves nothing behind (`FreeIsClean`), no slot is lost (`SlotsAccounted`), the application believes what is true (`ViewTrue`), every call returns (`CallsReturn`) |

`ConnErrors` is a small instance of the theorem `MutualExclusion`; with `AllFaults`,
`AllCalls` and the invariants under that theorem (`CallPath`, `HandleOK`,
`HoldsMutex`) it takes longer and finds no error either.

Further configurations are kept beside the runs. `ConnPosix` (2 threads, 2 slots,
all calls, no failures, mutexes that anybody may unlock) finds no error in
`Exclusion`, `OwnUse` and `PoolSpec`: it is the small instance of the theorem
`PosixExclusion`. In the others TLC finds the property violated:

| configuration | property | what the counterexample shows |
| --- | --- | --- |
| `ConnLostLock` | `Exclusion` | a failing `sqlo_commit` runs `UNLOCK_ALL` and frees the mutex another thread holds, against "Thread safe" of `README.md` |
| `ConnConnectFails` | `OwnUse` | a failed attach returns success, so `sqlo_connect` logs in on a slot that is another thread's by then |
| `ConnStaleStatus` | `OwnUse` | `sqlo_server_detach` returns the `status` of a slot it gave back; another thread's failure there makes `sqlo_finish` free that thread's connection |
| `ConnEarlyFinish` | `FinishGivesBack` | `sqlo_finish` without a session returns success and keeps the connection |
| `ConnTableTimeout` | `OwnUse` | the lock of the table times out unnoticed, and two threads take one slot |

**Bounds.** Two threads show every race between two users of the table; three
on two slots add a full table with one waiting. A function touches one slot, so
two slots are enough to tell the own one from another's, and one is enough for
the mutexes. Failures are separated from the races of `ConnPosix` and
`ConnFull` on purpose: with POSIX mutexes and failures `Exclusion` does not
hold (`ConnLostLock`), and with failures `OwnUse` does not (`ConnConnectFails`,
`ConnStaleStatus`); what does hold with failures is checked by one thread, and what concerns the
mutexes alone by two, in `ConnErrors`. There one slot makes the table full for the second
thread; the failures are one for each return between a lock and its unlock and
one for each function that runs `UNLOCK_ALL`. A slot that is lost when `malloc` fails in `_db_add`, or
when the connect string given to `sqlo_server_attach` cannot be split, is in
the model (`add_stmtv`, `att_split`) and left out of the runs with
`SlotsAccounted`, since nothing in the documentation speaks of it.

### Proofs

`ConnTable_proofs` proves, for any set of threads, any table size, any set of
calls and failures:

* `TypeCorrect`: `Spec => []TypeOK`. `TypeOK` is not inductive: `ReadStatus`
  returns `status[dbh[t]]`, which is a status only if `dbh[t]` is a slot, and
  `Return` pops a stack that must not be empty. The inductive invariant `IInv`
  adds to the types (`DataOK`, `MuxOK`, `ControlOK`) that every function runs
  with the stack of one of its callers (`CallPath`, over `PathOK`) and that
  the steps that index the table have a slot (`HandleOK`). The proof goes action
  by action; `CallOK`, `ReturnOK` and the like are lemmas about the control
  operators.
* `MutualExclusion`: `Spec => []Exclusion`, assuming `OwnerChecked` and that no
  lock is among the `Faults`. The inductive part is `HoldsMutex`, a thread in a
  section of a mutex whose lock never times out holds it, from which exclusion
  is immediate. Both assumptions are needed: `ConnLostLock` shows the first, a
  lock that times out the second.
* `NoLockKept`: `Spec => []HeldInSection`, with no hypothesis. A thread gets a mutex only
  in a step that leads into its section (`LockMoves`); inside, no step touches a mutex
  (`SameMoves`); each step out unlocks it, and no unlock, of `UNLOCK_ALL` either,
  leaves its caller as the holder (`UnlockMoves`).

`ConnAccounts_proofs` goes on with the data. Its theorems are `NoForeignUse`
(`OwnUse`), `NoSlotLost` (`SlotsAccounted`), `CleanSlots` (`FreeIsClean`),
`TrueAnswers` (`ViewTrue`), `FinishFrees` (`FinishGivesBack`), the refinement
`TableIsPool` (`Spec => PoolSpec`), and `PosixExclusion`. All of them rest on one
inductive invariant, `Accounts`, beside `IInv`: `Held(t)` says at each step of
each function what the thread has, nothing, a slot without server (`Bare`), one
that is attached (`Joined`) or logged in (`LoggedIn`), with exactly the OCI
handles it has by then; and `TableRight` that flags, owners and handles of all
slots agree. None of the properties is inductive: that `sqlo_connect` loses no
slot, say, depends on what its attach had got when it failed. A step of a thread
leaves the others' slots alone (`Aside`), so that the proof is one lemma for each
function about the thread that makes the step, and one, `OthersHeld`, for the rest.

The hypotheses, each with what happens without it:

* `Orderly`, first part: neither `add_stmtv` nor `att_split` fails; both lose a slot
  (see **Bounds**). No `finish_early`: `ConnEarlyFinish`.
* `Orderly`, second part, `Failing => Alone`: where calls of OCI fail there is one
  thread, which attaches with `sqlo_connect`. A function that fails reads the
  `status` of a slot it has given back. `ConnConnectFails` and `ConnStaleStatus` are
  counterexamples with two threads. Lock timeouts of `env_lock` do not count.
* `Guarded`: the sections of the table exclude each other, because there is one
  thread, or the mutexes check their holder (and `_dbv_mux` does not time out), or
  nothing fails and there is room for all (`Roomy`). `ConnLostLock` shows why.
  `ConnSingle`, `ConnFull` and `ConnPosix` are instances of the three cases.

In the third case exclusion is a theorem too, `PosixExclusion`: with mutexes
that anybody may unlock, `UNLOCK_ALL` is harmless as long as nobody runs it, and
nobody does (`Smooth`) if no call fails and no attach finds the table full, by
the pigeonhole principle.

Only model-checked: `LocksReleased` and `CallsReturn`, which are liveness and out of
the prover's reach.

## The statements of a connection: `Cursors`

A connection belongs to one thread (`NEWS`: "one connection per thread"), so a
call of the API is one step. Each function of the library is an operator from a
state of the connection to the set of its outcomes `[db, ret]`; `Then` is
`CHECK_OCI_STATUS_RETURN`, `Oci` a call that may fail, and functions that call
functions are written as they are in C. `db` is the `sqlo_db_struct_t` with its
`stmtv`; the last fields of a statement (`hp`, `bound`, `with`, `exec`) are
what OCI knows of its handle: whether it is allocated or dangling, the values
bound, those of the last execution, and whether it ran.

| model | code |
| --- | --- |
| `StmtNew`, `Released`, `Close` | `_stmt_new`, `_stmt_release`, `sqlo_close` |
| `Prepare`, `BindArgv`, `DefineOutput` | `_prepare`, `_bind_argv`, `_define_output` |
| `Reopen`, `OpenQuery` | `_sqlo_reopen` |
| `Open`, `Open2`, `PrepareStmt` | `sqlo_open`, `sqlo_open2`, `sqlo_prepare` |
| `BindByName`, `DefineByPos`, `NewCursor`, `Execute` | the same, `NewCursor` is `sqlo_bind_ref_cursor` and `sqlo_define_ntable` |
| `Fetch`, `QueryResult` | `sqlo_fetch`, `sqlo_query_result` |
| `Exec`, `ExecRun` | `sqlo_exec` with `dbp->stmthp` (`xhp`) |
| `Exists`, `Run` | `sqlo_exists` and `sqlo_count`, `sqlo_run` |
| `SetBlocking`, `SetAutocommit`, `Break` | the same |
| `DbFinish`, `DbFree`, `DbRelease`, `DbConnect` | what the end of a connection and the next one in its slot do to the statements |

In non-blocking mode (`db.nb`) an execution or a fetch may answer `"busy"`,
`SQLO_STILL_EXECUTING`. The application then does what `NEWS` allows: it repeats
the call with the same arguments, calls `sqlo_break`, or drops the connection.
The end of data is `"nodata"`; for statements that are no query it is an answer
listed in `Faults`. A repetition that is busy again changes nothing, so the
loops of `sqlo_exists` and `sqlo_run` are two steps (`Until`). Failures of the
calls that make and end connections are in `ConnTable`, not here.

The application keeps handles in variables, believes errors (a handle whose
open or reopen failed is given up, as `sqlora.h` says of `sqlo_open` and
`sqlo_open2`), uses statements of a fitting kind for REF CURSORs and nested
tables, and reopens without values only queries.

`want` is history: the modes the application has to reckon with. `want.nb` is a
set, that of the last `sqlo_set_blocking` that succeeded. After one that
failed it is both modes, and after an `sqlo_open` that failed blocking mode is added
to it, never taken from what the connection is: `sqlo_open` switches to
blocking mode, and returns from its early failures (lines 5249, 5259,
5268, 5280) without switching back, but from a failed execution after it. Which of the two an
application gets it cannot tell; `ModesAsAsked` says that it is one of them.

### Runs

All have two variables, two slots and one or two bind values. Each names the
calls the application makes and those that may fail; the larger sets are
defined in `MCCursors`.

| run | what it shows |
| --- | --- |
| `CurOpen` | open, reopen, fetch, close, break and `sqlo_exists` in both modes, with every failure before a statement is open: flags, handles, values and modes agree (`TypeOK`, `HandlesValid`, `NoLostSlot`, `StillTruth`, `RanWithArgs`, `OpenedHasRun`, `ModesAsAsked`) |
| `CurNested` | prepared statements, REF CURSORs and nested tables with failures, reopening included: no slot lost (`NoLostSlot`) |
| `CurErrors` | failures of the server in both modes, with opened, prepared and one-shot statements: what goes on is marked (`GoingOnIsMarked`), `sqlo_exec` runs its own statement (`ExecRunsItsStatement`) |
| `CurLifecycle` | connections that end or are dropped with open cursors, OCI handles that cannot be allocated or freed, and the successors in the same slot: no slot lost (`NoLostSlot`), no OCI handle freed twice (`FreeHoldsNothing`) |

One run has a property that the code violates:

| run | property | what the counterexample shows |
| --- | --- | --- |
| `CurStaleBinds` | `RanWithArgs` | `still_executing` left by a failed fetch makes `sqlo_reopen` keep the old values |

Further configurations, kept beside the runs, whose invariant TLC finds violated:

| configuration | property | what the counterexample shows |
| --- | --- | --- |
| `CurOpenError` | `BlocksAfterError` | `sqlo_open` switches back to non-blocking mode after an execution that failed, where `NEWS` says that the connection stays in blocking mode |
| `CurAutocommit` | `AutocommitAsAsked` | switching autocommit off when it is off switches it on |
| `CurReconnect` | `OpenedHasRun` | after `sqlo_server_free` a slot's old columns make the next query skip its execution |
| `CurBindFails` | `HandlesValid` | a failed bind in `sqlo_open` returns a handle that is closed |
| `CurPrepareFails` | `NoLostSlot` | a failed `sqlo_prepare` loses its slot |
| `CurBreakIdle` | `HandlesValid` | an idle cursor is closed by `sqlo_break` |

`CurReconnect` with `ClientCalls = {"exec", "blocking", "free", "connect"}` violates
`ExecRunsItsStatement`: after `sqlo_server_free` `sqlo_exec` executes a dangling handle.

**Bounds.** The functions look at one statement and at the set of free or used
slots; two slots and two variables give the own one, another one and a full
vector. Two bind values tell new from old. The passing runs leave out the
combinations of failures and calls that a counterexample above shows to break a
property: they say what is correct apart from those.

There is no fairness: every call is one step and the properties are invariants.

### Proofs

`Cursors_proofs` is about any number of slots and variables, any values, any
`ClientCalls` and any `Faults`. Its first half has a lemma for every function of the
library, which says of each outcome what a caller may rely on: the one slot it
has touched (`Within`), the connection's modes, whether the statement is still in
use and marked when the call is busy, and when it fails. A connection is `Sound`
if its fields have their types and its free slots no live handle. `NextIs`
takes `Next` apart into a call the application may make and one outcome of it.

* `TypeCorrect` (`TypeOK`), `FreeSlotsHoldNothing` (`FreeHoldsNothing`) and
  `AskedModes` (`ModesAsAsked`) need no hypothesis at all. `Base`,
  that the connection is `Sound`, is inductive because every function keeps it.
  `AskedModes` rests on two facts about `sqlo_open`: one that succeeds leaves the
  mode as it found it (`OpenIs`), and one in blocking mode ends in it, whatever
  fails (`OpenStaysBlocking`).
* `ValidHandles` (`HandlesValid`) assumes `Quiet`: no bind fails (`CurBindFails`), and an
  application that calls `sqlo_break` neither calls `sqlo_query_result` nor has an
  execution, a fetch or the freeing of a handle fail. `CurBreakIdle` shows why:
  these leave `still_executing` set on a statement whose handle is held and on
  which nothing goes on, and the next `sqlo_break` closes it. Without `sqlo_break`
  every failure but that of a bind is allowed. `HandlesValid` is not inductive:
  `sqlo_break` closes what is marked, so that nothing may be marked
  but the statement of the call that is going on (`StillHeld`), and OCI must be at
  work on a statement in use (`BusyUsed`). `StillGoing` adds what makes the repetition
  of that call find its statement as it left it; without it a repeated
  `sqlo_open2` might open a second statement.
* `MarkedGoesOn` (`GoingOnIsMarked`) assumes `Quiet` and that there are no nested
  tables: the first `sqlo_execute` of one leaves the execution to `_define_output`,
  returns its `SQLO_STILL_EXECUTING` at once, and marks nothing (`sqlora.c:6912`). It needs `BusyHeld`, the
  counterpart of `StillHeld` for the statement on which OCI is at work, and
  `OpenGoing`, that `sqlo_open2` goes on with the variable it was given. The run
  `CurErrors` has more failures than `Quiet` allows and finds no violation; there
  the invariant above fails, and no other was found.

`CursorSlots_proofs` goes on from there.

* `ExecutesItsStatement` (`ExecRunsItsStatement`) assumes `ShotAlone`: no parse and no
  freeing of a handle fails, and the calls are not those of the variant of
  `CurReconnect` above. `CurErrors` is an instance. The invariant is `ShotHeld`: the handle of
  `sqlo_exec` is there only while the call on it goes on, or after a break of it
  that failed.
* `StillIsBusy` (`StillTruth`), `NoSlotIsLost` (`NoLostSlot`), `OpenQueriesHaveRun`
  (`OpenedHasRun`) and `QueriesRunWithTheirValues` (`RanWithArgs`) assume `Orderly`; `CurOpen`
  and, for `NoLostSlot`, `CurNested` are instances. None of the four is inductive and
  none can be shown without the others: that a repeated `sqlo_open2` neither takes a
  second slot nor binds again rests on the flag, that the flag is right on
  there being no statement in use which nobody holds, and that a query is
  executed on what its slot had before. `SlotsInv` is the four and
  `Going`, what goes on is the last call, on the statement in the variable it was
  given, in non-blocking mode; `CleanSlots`, a free slot has no columns
  defined; and `InOrder`, what is known of one statement: it has its handle, and
  if its columns are defined or it is open it has run, or is about to. The lemma
  `Alone` says that a call starts while nothing goes on, or
  resumes what does.
* `NoFailureLosesASlot` states `NoLostSlot` for applications in either mode whose
  executions, fetches and defines may all fail, but which call neither
  `sqlo_break` nor `sqlo_reopen` with values nor `sqlo_define_ntable` (`Unbroken`). It needs
  no more than that a free slot is `Vacant`.

What `Orderly` and the other hypotheses exclude breaks a property; for most of
it TLC gives the steps:

| excluded | because |
| --- | --- |
| a bind that fails | `CurBindFails`; `sqlo_reopen` then runs with the old values, too |
| an OCI handle that cannot be freed | a break frees the slot and leaves its mark, on a statement on which nothing goes on |
| with `sqlo_break` or in non-blocking mode, `sqlo_query_result` or failures of execution and fetch (`Tidy`) | the mark stays on a statement whose call has failed: `CurStaleBinds`, `CurBreakIdle` |
| nested tables in non-blocking mode | their first execution marks nothing (see `MarkedGoesOn`) |
| in that mode, a `toggle` of it or a reading of it (`attr`) that fails | a repeated `sqlo_open` or `sqlo_open2` returns with its slot in use |
| a fetch that fails in `sqlo_exists` | its slot stays in use |
| `sqlo_server_free` and a new connection in the slot | `CurReconnect` |
| `sqlo_prepare` or `sqlo_define_ntable` failing half way (`NoLeak`) | `CurPrepareFails` |
| columns the application defines of what it reopens (`OpenRuns`, `ReopenRuns`) | `sqlo_reopen` takes them for the library's, of a query that has run, and executes nothing |
| `sqlo_execute` failing on an open query (`OpenRuns`) | it stays open, and nothing was executed |
| `sqlo_reopen` with values in non-blocking mode, after failures (`Unbroken`) | a statement that is no query, busy, then failing when repeated, stays marked; `sqlo_reopen` returns the old error, the handle is given up, and the slot is lost |

Only model-checked: `NoLostSlot` under the failures of `CurLifecycle`, where handles
cannot be freed and slots are used again after `sqlo_server_free`, and
`GoingOnIsMarked` under those of `CurErrors`.

Also in the model, without a property, because no documentation says what should
happen: `sqlo_reopen` of a statement that is no query, without values, returns
the status it found; a failed fetch in `sqlo_exists` and `sqlo_count` and a
failed bind of a REF CURSOR leave a slot in use. `NEWS` says that `sqlo_run`,
`sqlo_exists` and `sqlo_count` switch to blocking mode; they repeat the call
instead.

## The vectors of a statement: `Columns`

`sqlo_close` gives a slot of `stmtv` back but keeps its memory: the next
statement in that slot finds the vectors of binds and of output columns as they
were left. `Columns` follows one such slot through any sequence of statements of
three kinds: opened by `sqlo_open`, prepared and bound and defined by the
application, and REF CURSORs, which are open before they are described.

The state is one record, `st`, with the fields of `sqlo_stmt_struct_t` that
matter and, beside them, what OCI knows: `obind` and `odef` say for each
placeholder and column whose memory OCI was given the address of. An element
of `bindpv` or `defnpv` is a handle of the open statement, one of an earlier
statement, or NULL; a pointer is to the application's memory, the library's, or
to library memory that is gone. As in `Cursors`, a function is an operator that
gives the set of its outcomes, and a label in `Faults` is a call that may fail.

| model | code |
| --- | --- |
| `AllocBindp`, `AllocDefinep`, `Grown`, `Moved` | `_alloc_bindp`, `_alloc_definep`; `realloc` |
| `BindpvReset`, `CloseColumns`, `Closed`, `Deallocated` | `_bindpv_reset`, `sqlo_close`, `_dealloc_bindp`, `_dealloc_definep` |
| `BindByPos`, `BindByName`, `BindArgv` | `_bind_by_pos(2)`, `sqlo_bind_by_name` (a REF CURSOR is bound like a name), `_bind_argv` |
| `DefineByPos`, `DefineNtable`, `AllocOcolBuffer`, `DefineOcolByPos`, `DefineOutput` | `_define_by_pos(2)`, `sqlo_define_ntable`, `_alloc_ocol_buffer`, `_define_ocol_by_pos`, `_define_output` |
| `GetOcolDbDataType` ... `SetOcolName`, `SetAllOcolNames` | the functions that describe a column through a descriptor |
| `Reopen`, `Open`, `Execute`, `Ncols`, `GetOcolDtype` | the same |

The run `ColReuse` has two placeholders and columns, vectors that begin with one
element (so that the second makes them grow), a short, a long, a LONG and an
unsupported column, and the failures after which the properties hold: nothing of
an earlier statement is left in the vectors (`HandlesOwn`) or among the names
(`NamesOwn`), OCI's pointers to buffers and indicators are good
(`BuffersHold`, `IndicatorsLive`), a cursor said to be open has all its columns
(`OpenIsComplete`), and the counts stay within the sizes (`CountsWithin`, the
assertions of the code). Each of the following changes to `ColReuse` adds one failure
or one order of calls (the fourth is `ColRefCursorAgain.cfg`):

| change | property violated | what the counterexample shows |
| --- | --- | --- |
| `Faults = {"array"}` | `HandlesOwn` | a bind whose array call failed is not cleared at the close; the next statement's bind passes the freed handle |
| `AnyOrder = TRUE` | `CountsWithin` | the same column defined twice counts two, beyond the vector: the assertion at line 6704 |
| `Faults = {"buffer"}` | `BuffersHold` | a column is defined with a NULL buffer |
| `Retried = TRUE` | `OpenIsComplete` | a REF CURSOR whose define failed half way is open at the second try, with some of its columns |
| `Mixed = TRUE` | `IndicatorsLive` | `sqlo_bind_by_pos` beyond the values of `sqlo_open` moves the indicators of those |
| `Faults = {"realloc"}` | `VectorsWhole` | a failed `realloc` leaves NULL with the old size, against the assertions of `_dealloc_definep` |
| `Faults = {"attr"}`, or `{"name"}` | `ParamsFreed` | a descriptor is lost when its attribute cannot be read, or a name has no memory |

**Bounds.** A vector is at its first size, or has grown once; a position is the
last within or the first beyond. Sizes of buffers are 1 to 8: below the minimum,
above it, doubled, and LONG.

**Proofs.** `Columns_proofs` proves all six for any number of positions, any sizes of
vectors and buffers and any select lists. Each theorem assumes what the table above shows
to be needed (`NamesBelong` that no failure is one that `sqlo_ocol_names` ignores with
columns defined), and allows every other failure:

| theorem | property | assumes |
| --- | --- | --- |
| `TypeCorrect` | `TypeOK` | nothing |
| `CountsStay` | `CountsWithin` | `~AnyOrder` |
| `HandlesBelong` | `HandlesOwn` | `~AnyOrder`, `NoArray` |
| `IndicatorsStay` | `IndicatorsLive` | `~Mixed` |
| `BuffersSuffice` | `BuffersHold` | `NoBuffer` |
| `OpenHasColumns` | `OpenIsComplete` | `~Mixed`, `~Retried`, `NoBuffer` |
| `NamesBelong` | `NamesOwn` | `~AnyOrder`, `NamesSafe`: no name or attribute is refused, no `realloc` fails |

The code loops over placeholders and columns, and the model has recursive functions for
that. `LoopIs` shows that they exist and `UpTo` is the induction, on the set of numbers
for which a fact holds, by the well-foundedness of `<` on the naturals. `BindArgvBinds`,
`DefineColumnsDefines` and `SetAllOcolNamesSets` are its three uses.

One invariant, `ColumnsInv`, has them all as consequences, and each part is there because a
later call relies on it. The vectors hold nothing beyond their counts (`BindInv`,
`DefnpvOwn`): that is why clearing up to the count is enough. A define of the library's is
counted (`LibCounted`): when `_define_output` starts with a count of zero there is none,
so that no buffer is moved under OCI. Its vector has room for the whole list
(`InPlace`): `_set_all_ocol_names` therefore never makes it grow. What is recorded of a buffer
is at most what was allocated (`BuffersFit`), although the recorded size shrinks without
the buffer. A free slot is `Empty`, a REF CURSOR that has not run has no define, and an
open cursor has them all (`AllDefined`): `sqlo_reopen`, which does not describe the columns
again, relies on it.

## The text of a column: `ColumnText`

One column: `CalcObufSize` computes its buffer from the attributes OCI gives,
which are bytes; `Fetch` writes a value, its length and its indicator;
`GetValues` is `sqlo_values` with `_terminate_ocols` and `_strip_string`, which
write into the same buffer. The values are all strings of blanks and one other
character that fit, NULL, and, for a LONG, values that are cut off.

`TextColumns` checks `EveryValueFits` for every precision and scale Oracle has,
and for the short columns `ValueAsFetched`: any order of fetches and reads, with
and without stripping, gives the value fetched last. What Oracle writes
(`LongestText`) is taken from its documentation of NUMBER and of the conversion
to text. `TextStrip` shows that only one trailing blank is stripped where the
comment of `_strip_string` says all; `TextTruncated` that a value cut off, whose
indicator is its length, is given out as NULL.

**Proofs.** `ColumnText_proofs` proves both for every column, every `_max_long_size` and
every set of values. `EveryBufferFits` is a case for each type, with the
arithmetic of precision and scale as bytes. `ValueGiven` has the inductive
invariant `RowOK`: the buffer holds what OCI wrote, or that with its last blank
cut off, and in either case what `sqlo_values` gives is the same. It is needed because
`_terminate_ocols` writes into the buffer that the next call reads. Neither has a
hypothesis; that values are at most `LongestText` long is how Oracle is modelled.

## Large objects: `LobStream`, `ByteTransfer`

`way` chooses what the application does: write a file to a LOB, read a LOB to a
file, or append pieces itself. `src` is the source, byte `i` being the number
`i`, `dst` what has arrived, `buf` the buffer of `MAX_LONG_SIZE` bytes, which
keeps what was in it when less is read. `pc` is the next call of OCI; each
action makes one and has everything the code does until the next. In
non-blocking mode the calls in `Busy` may answer that they are still executing:
`pending` is that call.

| model | code |
| --- | --- |
| `AllocLobDesc`, `GetLength`, `FreeLobDesc` | `sqlo_alloc_lob_desc`, `sqlo_lob_get_length`, `sqlo_free_lob_desc` |
| `WriteStream`, `OpenLob`, `ReadPiece`, `WriteBuffer`, `AfterWrite`, `CloseLob` | `sqlo_lob_write_stream`, `sqlo_lob_write_buffer` |
| `AppendBuffer`, `PieceSent` | `sqlo_lob_append_buffer` |
| `ReadBuffer`, `Store`, `Kept` | `sqlo_lob_read_buffer`, `sqlo_lob_read_stream` |

The run `LobPieces` has sources of 0 to 10 bytes and a buffer of 3: shorter than
the buffer, equal, one more, two and three times it, and one more than that.
`TransferSpec` is the refinement of `ByteTransfer`, with `dst` and the outcome
mapped to nothing and "failed" once an error was returned. `PollsOneCall`,
`ClosedAfterSuccess` and `Returns` are about the calls that are still executing
and the way out. The other configurations:

| configuration | property | what the counterexample shows |
| --- | --- | --- |
| `LobOpenBusy` | `PollsOneCall` | `OCILobOpen` that is still executing is not repeated |
| `LobLeftOpen` | `ClosedAfterwards` | the LOB stays open when a piece fails |
| `LobShortFile` | `IoErrorReported` | a file that is too short is written with old bytes at its end, and with success |
| `LobDiskFull` | `TransferSpec` | `fwrite` fails and the read succeeds |

**Fairness.** `WF_vars(Next /\ status' # "busy")`: the server completes a call
some time. Without it the loops that wait for it need not end.

**Proofs.** `LobStream_proofs` proves for every `MaxLong` and `MaxLength`, if
files have the length they are said to have and `fwrite` does not fail
(`FilesGood`):

* `Transfers`: `Spec => TransferSpec`, the refinement. The inductive invariant
  `IInv` says of each call how far a transfer without an error has come
  (`Progress`): before a write the last `nbytes` bytes before `pos` are in the
  buffer and the others have arrived (`PieceLoaded`), a piece is the last one
  exactly if nothing remains, and between `sqlo_lob_read_buffer` and `fwrite` the
  buffer holds what follows `dst` (`PieceRead`). It is needed because
  `ByteTransfer` knows nothing of the buffer. Each step keeps `IInv` and
  `Advances`: without an error `dst` becomes a longer prefix of the source. The
  lemmas on `Bytes` say what concatenation and `SubSeq` make of prefixes.
* `RepeatsCalls`: `PollsOneCall`, if `OCILobOpen` is not among the calls that are
  still executing; `LobOpenBusy` shows that this is needed.
* `ClosesLob`: `ClosedAfterSuccess`, from `OpenInside`; `TypeCorrect`: `TypeOK`,
  the counts stay within their bounds.

`Returns` is liveness and only model-checked.

Two assumptions about OCI are in the model. The answer `OCI_SUCCESS_WITH_INFO` is given
to the first piece only: the check after a later piece (line 7678)
rejects negative answers and no positive one, so that with the same answer there the loop would end,
and the function report success with the rest of the file unsent. And a later piece
that is not the last is answered, apart from errors and while it is still executing, with
`OCI_NEED_DATA`. The code has no other protection.

## Initialisation: `Startup`, `Handles`

Threads that call `sqlo_init`, attach, log in, log out and detach; each action
is one access to state that the threads share. The first `sqlo_init` finds the
mode `OCI_DEFAULT` and takes no lock; it sets the mode, so that it unlocks one.
The library is compiled with threads and traced; `TRACE_ENABLED` decides on the
trace files.

| model | code |
| --- | --- |
| `mode`, `done`, `dbvSize`, `maxCursors`, `dbv` | `_oci_init_mode`, `_sqlo_init`, `_dbv_size`, `_max_cursors`, the entries of `_dbv` |
| `mux`, `muxReady` | the holders of `_init_mux` and `_dbv_mux`, `_init_mux_initialized` |
| `traceFp`, `count`, `file[t]`, `files` | `_trace_fp`, `_session_count`, `trace_fp` of a connection, and the files that are open |
| `InitLock` ... `InitUnlock` | `sqlo_init` with `_init_lock`, `_sqlo_getenv`, `_init_mutexes`, `_init_unlock` |
| `DbvLock`, `UseTable`, `DbvUnlock` | `_db_add` and `_db_release`, as far as they use the table |
| `ReadCount`, `StoreCount`, `OpenSessionFile` | `_open_session_trace_file` |

The run `StartRetry` has two threads with four calls each. One of them
initialises the library before the other calls it, as `sqlora.h` has it, and may
fail and try again; then all is allowed, also `sqlo_init` again, with limits
that are small, the largest, and too large. It checks that the table covers the
handles taken for valid (`TableCovers`), that who uses the table holds `_dbv_mux`
(`TableMutexKept`), that nobody outside `sqlo_init` holds `_init_mux` (`InitMutexFree`), that
each handle within the limits decodes (`HandlesFit`), that the files of sessions
can be closed (`FilesReachable`), and that every call returns (`CallsReturn`).

What it does not claim: that `_init_mux` excludes. It is first made by a later
`sqlo_init` (line 1383), since the first call takes no lock, and two threads may
do that at a time, the second while the first is already inside. That is in the model
(`InitInitMux`) and harmless in this run, since `_sqlo_init` is set by then and
both leave at once. And `FilesReachable` is about connections that log in
once; names of files that two sessions share and a second login of a connection are
outside the run and have configurations of their own:

| configuration | property | what the counterexample shows |
| --- | --- | --- |
| `StartRace` | `OneTable` | two first calls at a time: a table with a connection in it is replaced |
| `StartFailsTwice` | `CallsReturn` | after a failure of `OCIInitialize` the next calls lock a mutex that nobody gives back |
| `StartTraceNames` | `NamesUnique` | two sessions have one trace file, which a comment calls unique |
| `StartSessionAgain` | `FilesReachable` | a second login on a connection loses the file of the first |

**Bounds.** Four calls are an `sqlo_init` that fails, one that succeeds, an
attach and a login, or any others in their place; a third thread would do nothing the second
cannot. **Fairness.** `WF_vars` of the steps of each thread that is in a call.

`Startup_proofs` proves, for all limits: `DecodeEncode`, a handle is a positive
int and decodes to what it was made of; `HandlesDiffer`, no two slots share one;
`StatusIsNoHandle`, no number from -65536 to -1, among them `SQLO_STH_INIT`,
passes for a handle. The last rests on `SQLO_MAX_DB` being 32767, one less than
15 bits allow. `HandlesFit` is the same on the limits `sqlo_init` really sets.

It also proves the five invariants of `StartRetry` for any number of
threads, any requests and any number of calls. `HandlesAlwaysFit` and
`TypeCorrect` need nothing else. `TableStays` (`TableCovers`), `TableMutexStays`
(`TableMutexKept`), `InitGivesBack` (`InitMutexFree`) and `FilesStay`
(`FilesReachable`) assume `Orderly`: one thread initialises the library before the
others call it, `OCIInitialize` and the making of mutexes do not fail, limits are
positive, and no connection begins a second session. `StartRace`,
`StartFailsTwice` and `StartSessionAgain` show that this order, these failures
and this restriction matter. The invariant has four parts beside the types:
`OneInitialises`, who is in the inner part of `sqlo_init` is the first thread and
`_sqlo_init` is not yet set, while everybody else's call implies that it is;
`TableMade`, there is no table before the last step but one, so that its size is
the limit kept; `MutexesHeld`, the mode is never `OCI_DEFAULT` where a mutex is
held, and its holder is where it will give it back; `FilesOwned`, a session that
begins has no file. Only model-checked: `CallsReturn`, which is liveness.

## Mutants

Each property of each passing run has a mutant in `PROJECT.json`: an operator
beside the real one (its comment says "Mutant") with a plausible slip, such as
a forgotten unlock or a flag that is not reset, under which the run fails.

## Not modelled

* Error texts: `_save_oci_status`, `sqlo_geterror`; the status codes are in the
  modules, `_errmsg`, which threads share, is not.
* Connect strings and SQL text: functions of their arguments.
* What is written to trace files; the environment variables one by one.
* Interrupt handlers, which OCI runs; version and other information that is
  only read; `sqlora_compat.c`, whose functions call those of `sqlora.c`.
* The contents of rows of several columns and of arrays: a column is modelled
  alone, since no function mixes two.

## What could be added

1. The texts of errors: which call's message `sqlo_geterror` gives, when a
   handle is invalid and when several threads use `_errmsg`.
2. Proofs of `NoLostSlot` under the failures of `CurLifecycle`, and of
   `GoingOnIsMarked` under those of `CurErrors`.
3. An abstract specification of a cursor as the application sees it (closed,
   open, going on), implemented by `Cursors`.
