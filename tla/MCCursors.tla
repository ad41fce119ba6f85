------------------------------ MODULE MCCursors ------------------------------
(* Instances of Cursors for TLC. *)
EXTENDS Cursors

CONSTANTS c1, c2, a1, a2, s1, s2

TwoCursors == {c1, c2}
OneArg     == {a1}
TwoArgs    == {a1, a2}
TwoStmts   == {s1, s2}

\* Failures before a statement is open.
ParseFaults  == {"alloc", "prepare", "type", "prefetch", "define", "reset", "break"}
\* Failures of the server.
ServerFaults == {"execute", "fetch", "nodata", "alloc", "define"}
NestedFaults == {"execute", "fetch", "alloc"}
\* A statement's OCI handle cannot be allocated, or not be freed.
FreeFaults   == {"alloc", "free"}

OpenCalls   == {"open", "open2", "reopen", "reopen_plain", "fetch", "close", "exists",
                "blocking", "break", "finish", "connect"}
ErrorCalls  == {"open2", "prepare", "execute", "fetch", "result", "close", "exec", "run",
                "blocking", "break"}
NestedCalls == {"prepare", "bind", "define", "ntable", "refcursor", "execute", "fetch",
                "reopen", "reopen_plain", "close"}
LifeCalls   == {"open2", "fetch", "close", "free", "finish", "connect", "autocommit",
                "blocking", "break"}
=============================================================================
