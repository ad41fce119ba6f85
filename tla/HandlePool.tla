----------------------------- MODULE HandlePool -----------------------------
(***************************************************************************)
(* What the connection table _dbv of sqlora.c promises its users: a        *)
(* database handle belongs to at most one thread at a time, a thread works *)
(* on one connection at a time, and only the owner gives a handle back.    *)
(* ConnTable describes how the library does it and is checked against this.*)
(***************************************************************************)
CONSTANTS
  Threads,   \* the threads of the application
  Slots,     \* the database handles, the indexes of _dbv
  NoThread   \* the owner of a free handle, no member of Threads

VARIABLE owner   \* owner[s] is the thread that holds handle s

TypeOK == owner \in [Slots -> Threads \union {NoThread}]

Init == owner = [s \in Slots |-> NoThread]

\* Thread t, which holds no handle, is given the free handle s.
Acquire(t, s) ==
  /\ owner[s] = NoThread
  /\ \A u \in Slots : owner[u] # t
  /\ owner' = [owner EXCEPT ![s] = t]

\* Thread t gives back its handle s.
Release(t, s) ==
  /\ owner[s] = t
  /\ owner' = [owner EXCEPT ![s] = NoThread]

Next == \E t \in Threads, s \in Slots : Acquire(t, s) \/ Release(t, s)

Spec == Init /\ [][Next]_owner
=============================================================================
