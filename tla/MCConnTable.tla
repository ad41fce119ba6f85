---------------------------- MODULE MCConnTable ----------------------------
(* Instances of ConnTable for TLC. *)
EXTENDS ConnTable, TLC, FiniteSets

CONSTANTS t1, t2, t3

OneThread    == {t1}
TwoThreads   == {t1, t2}
ThreeThreads == {t1, t2, t3}
Symmetry     == Permutations(Threads)

NoFaults == {}
\* Everything after a successful attach.
SessionFaults == {"beg_check", "beg_attr", "beg_login", "beg_bind", "end_call", "det_call",
                  "free_call", "com_call"}
\* Every OCI call of an attach.
AttachFaults  == {"env_create"} \union AttachCalls
OciFaults     == SessionFaults \union AttachFaults
\* The wait for the environment's mutex may time out, which _env_lock's caller does not see.
LockTimeouts  == {"env_lock"}
\* And so may the wait for the table's.
TableTimeouts == {"add_lock", "rel_lock"}
\* The allocation of a slot and the split of its connect string, too.
AllFaults     == OciFaults \union {"add_mark", "add_stmtv", "att_split"}
\* One failure for each way out of a section, and for each kind of UNLOCK_ALL.
ErrorPaths    == {"env_create", "add_mark", "add_stmtv", "att_server", "beg_login",
                  "det_call", "com_call"}
CommitFaults  == {"com_call"}
EndFaults     == {"end_call"}
LinkFaults    == {"att_server"}

AllCalls      == {"connect", "attach", "begin", "end", "detach", "free", "finish",
                  "commit", "init"}
EasyCalls     == {"connect", "finish", "commit", "init"}
ConnectFinish == {"connect", "finish"}
ErrorCalls    == {"connect", "finish", "commit"}
SingleCalls   == AllCalls \ {"attach"}
EarlyFinish   == {"attach", "begin", "end", "finish_early"}
=============================================================================
