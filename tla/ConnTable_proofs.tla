--------------------------- MODULE ConnTable_proofs ---------------------------
(***************************************************************************)
(* Proofs about ConnTable, for any number of threads and slots.            *)
(***************************************************************************)
EXTENDS ConnTable, WellFoundedInduction, SequenceTheorems, TLAPS

(* A non-empty set of slots has a first element, the one First returns.    *)
LEMMA FirstIn ==
  ASSUME NEW S, S \subseteq Slots, S # {}
  PROVE  First(S) \in S
<1>1. S \subseteq Nat
  BY MaxDbAssumption DEF Slots
<1>2. PICK x \in S : \A y \in S : ~(<<y, x>> \in OpToRel(<, Nat))
  <2>1. IsWellFoundedOn(OpToRel(<, Nat), Nat)
    BY NatLessThanWellFounded
  <2> QED
    BY <2>1, <1>1, WFMin
<1>3. \A y \in S : x <= y
  <2>1. SUFFICES ASSUME NEW y \in S, y < x
                 PROVE  FALSE
    BY <1>1
  <2>2. <<y, x>> \in {ss \in Nat \X Nat : ss[1] < ss[2]}
    BY <1>1, <2>1
  <2> QED
    BY <2>2, <1>2, Zenon DEF OpToRel
<1> QED
  BY <1>3 DEF First

-----------------------------------------------------------------------------
(* The control state.  ControlOK types pc, stack and rv; with CallPath and *)
(* HandleOK it is what every kind of step, a move inside a function, a     *)
(* call or a return, keeps.                                                *)

ControlOK ==
  /\ pc \in [Threads -> Labels]
  /\ stack \in [Threads -> Seq(ReturnLabels)]
  /\ rv \in [Threads -> {"ok", "fail"}]
  /\ CallPath

LEMMA HeadsAndTails ==
  /\ \A a : Head(<<a>>) = a /\ Tail(<<a>>) = <<>>
  /\ \A a, b : Head(<<a, b>>) = a /\ Tail(<<a, b>>) = <<b>>
  /\ \A a, b, c : Head(<<a, b, c>>) = a /\ Tail(<<a, b, c>>) = <<b, c>>
OBVIOUS

LEMMA TuplesDiffer ==
  /\ \A a : <<a>> # <<>>
  /\ \A a, b : <<a, b>> # <<>> /\ \A c : <<c>> # <<a, b>>
  /\ \A a, b, c : /\ <<a, b, c>> # <<>>
                  /\ \A d : <<d>> # <<a, b, c>>
                  /\ \A d, e : <<d, e>> # <<a, b, c>>
OBVIOUS

(* The stacks with which the steps after a return may run.                 *)
LEMMA ReturnSteps ==
  /\ \A l \in ClientReturns : PathOK(l, <<>>)
  /\ \A l \in ConnectSteps : PathOK(l, InConnect)
  /\ \A l \in FinishSteps : PathOK(l, InFinish)
  /\ \A st \in DetachStacks : PathOK("det_ended", st)
BY DEF PathOK, AttachSteps, AttachCalls, ReleaseSteps, BeginSteps, EndSteps,
   DetachSteps, FreeSteps, CommitSteps, InitSteps, UnlockSteps, ConnectSteps, FinishSteps,
   ClientSteps, ClientReturns

(* Whatever stack a function runs with, its return leads to its caller.    *)
LEMMA ReturnPath ==
  ASSUME NEW st \in FailStacks \union {<<"c_init">>, InConnect}
  PROVE  /\ st # <<>>
         /\ Head(st) \in ReturnLabels
         /\ PathOK(Head(st), Tail(st))
         /\ Tail(st) \notin NestedEnd
         /\ Head(st) \in NeedsSlot => st \in NestedEnd
<1>1. CASE st \in {<<"c_attach">>, <<"c_begin">>, <<"c_end">>, <<"c_detach">>, <<"c_free">>,
                   <<"c_finish">>, <<"c_commit">>, <<"c_init">>, <<"c_connect">>}
  <2>1. Tail(st) = <<>> /\ Head(st) \in ClientReturns
    BY <1>1, HeadsAndTails DEF ClientReturns
  <2>2. PathOK(Head(st), Tail(st))
    BY <2>1, ReturnSteps
  <2>3. Head(st) \in ReturnLabels
    BY <2>1 DEF ReturnLabels, LibraryReturns, ClientReturns, ConnectSteps, FinishSteps
  <2>4. st # <<>> /\ Tail(st) \notin NestedEnd
    BY <1>1, <2>1, TuplesDiffer DEF NestedEnd, InConnect, InFinish
  <2>5. Head(st) \in NeedsSlot => st \in NestedEnd
    BY <1>1, <2>1 DEF NeedsSlot, Using, AttachCalls, ConnectSteps, FinishSteps, ClientReturns
  <2> QED
    BY <2>2, <2>3, <2>4, <2>5
<1>2. CASE st \in {<<"con_attached", "c_connect">>, <<"con_begun", "c_connect">>,
                   <<"con_freed", "c_connect">>}
  <2>0. PICK a \in ConnectSteps : st = <<a, "c_connect">>
    BY <1>2 DEF ConnectSteps
  <2>1. Tail(st) = InConnect /\ Head(st) \in ConnectSteps
    BY <2>0, HeadsAndTails DEF InConnect
  <2>2. PathOK(Head(st), Tail(st))
    BY <2>1, ReturnSteps
  <2>3. Head(st) \in ReturnLabels
    BY <2>1 DEF ReturnLabels, LibraryReturns, ClientReturns, ConnectSteps, FinishSteps
  <2>4. st # <<>> /\ Tail(st) \notin NestedEnd
    BY <2>0, <2>1, TuplesDiffer DEF NestedEnd, InConnect
  <2>5. Head(st) \in NeedsSlot => st \in NestedEnd
    BY <1>2, <2>1 DEF NeedsSlot, Using, AttachCalls, ConnectSteps, FinishSteps, ClientReturns
  <2> QED
    BY <2>2, <2>3, <2>4, <2>5
<1>3. CASE st \in {<<"fin_ended", "c_finish">>, <<"fin_detached", "c_finish">>,
                   <<"fin_freed", "c_finish">>}
  <2>0. PICK a \in FinishSteps \ {"fin_check"} : st = <<a, "c_finish">>
    BY <1>3 DEF FinishSteps
  <2>1. Tail(st) = InFinish /\ Head(st) \in FinishSteps \ {"fin_check"}
    BY <2>0, HeadsAndTails DEF InFinish
  <2>2. PathOK(Head(st), Tail(st))
    BY <2>1, ReturnSteps
  <2>3. Head(st) \in ReturnLabels
    BY <2>1 DEF ReturnLabels, LibraryReturns, ClientReturns, ConnectSteps, FinishSteps
  <2>4. st # <<>> /\ Tail(st) \notin NestedEnd
    <3>1. <<"c_finish">> # <<"det_ended", "c_detach">>
      BY TuplesDiffer
    <3>2. <<"c_finish">> # <<"det_ended", "fin_detached", "c_finish">>
      BY TuplesDiffer
    <3> QED
      BY <2>0, <2>1, <3>1, <3>2, TuplesDiffer DEF NestedEnd, InFinish
  <2>5. Head(st) \in NeedsSlot => st \in NestedEnd
    BY <1>3, <2>1 DEF NeedsSlot, Using, AttachCalls, ConnectSteps, FinishSteps, ClientReturns
  <2> QED
    BY <2>2, <2>3, <2>4, <2>5
<1>4. CASE st = <<"det_ended", "c_detach">>
  <2>1. Tail(st) = <<"c_detach">> /\ Head(st) = "det_ended"
    BY <1>4, HeadsAndTails
  <2> QED
    BY <1>4, <2>1, ReturnSteps, TuplesDiffer DEF NestedEnd, DetachStacks, ReturnLabels,
       LibraryReturns
<1>5. CASE st = <<"det_ended", "fin_detached", "c_finish">>
  <2>1. Tail(st) = <<"fin_detached", "c_finish">> /\ Head(st) = "det_ended"
    BY <1>5, HeadsAndTails
  <2> QED
    BY <1>5, <2>1, ReturnSteps, TuplesDiffer DEF NestedEnd, DetachStacks, ReturnLabels,
       LibraryReturns
<1> QED
  BY <1>1, <1>2, <1>3, <1>4, <1>5 DEF FailStacks, AttachStacks, BeginStacks, EndStacks, NestedEnd,
     DetachStacks, FreeStacks, InConnect, InFinish

(* A step that stays in its function, or goes on to the release of the     *)
(* structure or to UNLOCK_ALL, keeps its stack.                            *)
PathMove(k, l) ==
  \/ k \in AttachSteps /\ l \in AttachSteps
  \/ k \in BeginSteps  /\ l \in BeginSteps
  \/ k \in EndSteps    /\ l \in EndSteps
  \/ k \in DetachSteps /\ l \in DetachSteps
  \/ k \in FreeSteps   /\ l \in FreeSteps
  \/ k \in CommitSteps /\ l \in CommitSteps
  \/ k \in InitSteps   /\ l \in InitSteps
  \/ /\ k \in AttachSteps \union ReleaseSteps \union DetachSteps \union FreeSteps
     /\ l \in ReleaseSteps
  \/ /\ k \in AttachSteps \union BeginSteps \union EndSteps \union DetachSteps
            \union FreeSteps \union CommitSteps \union UnlockSteps
            \union {"fin_check"}
     /\ l \in UnlockSteps

LEMMA PathStays ==
  ASSUME NEW k, NEW l, NEW st, PathOK(k, st), PathMove(k, l)
  PROVE  PathOK(l, st)
BY DEF PathMove, PathOK, AttachSteps, AttachCalls, ReleaseSteps, BeginSteps, EndSteps,
   DetachSteps, FreeSteps, CommitSteps, InitSteps, UnlockSteps, ConnectSteps, FinishSteps,
   ClientSteps, ClientReturns, FailStacks

LEMMA GotoFrame ==
  ASSUME ControlOK, HandleOK, NEW t \in Threads, NEW l \in Labels,
         Goto(t, l), PathOK(l, stack[t]),
         \A u \in Threads \ {t} : dbh'[u] = dbh[u],
         l \in NeedsSlot \/ stack[t] \in NestedEnd => dbh'[t] \in Slots
  PROVE  ControlOK' /\ HandleOK'
<1>1. pc' \in [Threads -> Labels] /\ UNCHANGED <<stack, rv>>
  BY DEF ControlOK, Goto
<1>2. pc'[t] = l /\ \A u \in Threads \ {t} : pc'[u] = pc[u]
  BY DEF ControlOK, Goto
<1>3. CallPath'
  BY <1>1, <1>2 DEF ControlOK, CallPath
<1>4. HandleOK'
  BY <1>1, <1>2 DEF HandleOK
<1> QED
  BY <1>1, <1>3, <1>4 DEF ControlOK

LEMMA ReturnFrame ==
  ASSUME ControlOK, HandleOK, NEW t \in Threads, NEW v \in {"ok", "fail"}, Return(t, v),
         stack[t] \in FailStacks \union {<<"c_init">>, InConnect},
         \A u \in Threads \ {t} : dbh'[u] = dbh[u],
         stack[t] \in NestedEnd => dbh'[t] \in Slots
  PROVE  ControlOK' /\ HandleOK'
<1> DEFINE st == stack[t]
<1>0. st \in Seq(ReturnLabels) /\ st # <<>>
  BY DEF ControlOK, Return
<1>1. /\ Head(st) \in ReturnLabels
      /\ PathOK(Head(st), Tail(st))
      /\ Tail(st) \notin NestedEnd
      /\ Head(st) \in NeedsSlot => st \in NestedEnd
  BY ReturnPath
<1>2. Head(st) \in Labels /\ Tail(st) \in Seq(ReturnLabels)
  BY <1>0, <1>1, HeadTailProperties DEF Labels
<1>3. /\ pc' \in [Threads -> Labels]
      /\ stack' \in [Threads -> Seq(ReturnLabels)]
      /\ rv' \in [Threads -> {"ok", "fail"}]
  BY <1>2 DEF ControlOK, Return
<1>4. /\ pc'[t] = Head(st) /\ stack'[t] = Tail(st)
      /\ \A u \in Threads \ {t} : pc'[u] = pc[u] /\ stack'[u] = stack[u]
  BY DEF ControlOK, Return
<1>5. CallPath'
  BY <1>1, <1>4 DEF ControlOK, CallPath
<1>6. HandleOK'
  BY <1>1, <1>4 DEF HandleOK
<1> QED
  BY <1>3, <1>5, <1>6 DEF ControlOK

LEMMA CallFrame ==
  ASSUME ControlOK, HandleOK, NEW t \in Threads, NEW l \in Labels, NEW b \in ReturnLabels,
         Call(t, l, b), PathOK(l, <<b>> \o stack[t]), UNCHANGED dbh,
         l \in NeedsSlot \/ (<<b>> \o stack[t]) \in NestedEnd => dbh[t] \in Slots
  PROVE  ControlOK' /\ HandleOK'
<1> DEFINE st == <<b>> \o stack[t]
<1>0. st \in Seq(ReturnLabels)
  BY DEF ControlOK
<1>3. /\ pc' \in [Threads -> Labels]
      /\ stack' \in [Threads -> Seq(ReturnLabels)]
      /\ rv' \in [Threads -> {"ok", "fail"}]
  BY <1>0 DEF ControlOK, Call
<1>4. /\ pc'[t] = l /\ stack'[t] = st
      /\ \A u \in Threads \ {t} : pc'[u] = pc[u] /\ stack'[u] = stack[u]
  BY DEF ControlOK, Call
<1>5. CallPath'
  BY <1>4 DEF ControlOK, CallPath
<1>6. HandleOK'
  BY <1>4 DEF HandleOK
<1> QED
  BY <1>3, <1>5, <1>6 DEF ControlOK

-----------------------------------------------------------------------------
(* The data.  TypeOK by itself is not inductive: the last step of most     *)
(* functions returns status[dbh[t]], a value of the right type only when   *)
(* dbh[t] is a slot, and a Return needs a stack that is not empty.  IInv   *)
(* adds CallPath (in ControlOK) and HandleOK, which say so.                *)

MuxOK == mux \in [Mutexes -> Threads \union {NoThread}]

DataOK ==
  /\ body \in [Slots -> {"null", "struct", "full"}]
  /\ used \in [Slots -> BOOLEAN]
  /\ attached \in [Slots -> BOOLEAN]
  /\ session \in [Slots -> BOOLEAN]
  /\ status \in [Slots -> {"ok", "fail"}]
  /\ res \in [Slots -> SUBSET OciHandles]
  /\ owner \in [Slots -> Threads \union {NoThread}]
  /\ dbh \in [Threads -> Slots \union {NoSlot}]
  /\ view \in [Threads -> {"none", "attached", "session", "broken"}]

IInv == DataOK /\ MuxOK /\ ControlOK /\ HandleOK

LEMMA LockMux ==
  ASSUME MuxOK, NEW t \in Threads, NEW m \in Mutexes, Lock(t, m)
  PROVE  MuxOK'
BY DEF MuxOK, Lock

LEMMA UnlockMux ==
  ASSUME MuxOK, NEW t \in Threads, NEW m \in Mutexes, Unlock(t, m)
  PROVE  MuxOK'
BY DEF MuxOK, Unlock

LEMMA OutcomesOK == \A t : Outcomes(t) \subseteq {"ok", "fail"}
BY DEF Outcomes

(* Moves inside a function, to _db_release and to UNLOCK_ALL.              *)
LEMMA MoveFrame ==
  ASSUME ControlOK, HandleOK, NEW t \in Threads, NEW l \in Labels, Goto(t, l),
         PathMove(pc[t], l), UNCHANGED dbh, l \in NeedsSlot => dbh[t] \in Slots
  PROVE  ControlOK' /\ HandleOK'
<1>1. PathOK(l, stack[t])
  BY PathStays DEF ControlOK, CallPath
<1>2. stack[t] \in NestedEnd => dbh[t] \in Slots
  BY DEF HandleOK
<1> QED
  BY <1>1, <1>2, GotoFrame

(* The stack of a thread inside the library.                               *)
LEMMA InsideStack ==
  ASSUME ControlOK, NEW t \in Threads, pc[t] \in Labels \ ClientSteps
  PROVE  stack[t] \in FailStacks \union {<<"c_init">>, InConnect}
<1>1. PathOK(pc[t], stack[t])
  BY DEF ControlOK, CallPath
<1> QED
  BY <1>1 DEF PathOK, Labels, AttachSteps, ReleaseSteps, BeginSteps, EndSteps, DetachSteps,
     FreeSteps, CommitSteps, InitSteps, UnlockSteps, ConnectSteps, FinishSteps, ClientSteps,
     FailStacks, LibraryReturns, ReturnLabels, DbvSection, EnvSection, InitSection

LEMMA LeaveFrame ==
  ASSUME ControlOK, HandleOK, NEW t \in Threads, NEW v \in {"ok", "fail"},
         Return(t, v), pc[t] \notin ClientSteps, UNCHANGED dbh
  PROVE  ControlOK' /\ HandleOK'
<1>1. stack[t] \in FailStacks \union {<<"c_init">>, InConnect}
  BY InsideStack DEF ControlOK
<1>2. stack[t] \in NestedEnd => dbh[t] \in Slots
  BY DEF HandleOK
<1> QED
  BY <1>1, <1>2, ReturnFrame

(* An attach does not run inside sqlo_server_detach.                       *)
LEMMA AttachStack ==
  ASSUME ControlOK, NEW t \in Threads, pc[t] \in AttachSteps
  PROVE  stack[t] \in AttachStacks /\ stack[t] \notin NestedEnd
<1>1. PathOK(pc[t], stack[t])
  BY DEF ControlOK, CallPath
<1>2. stack[t] \in AttachStacks
  BY <1>1 DEF PathOK
<1>3. /\ <<"con_attached", "c_connect">> # <<"det_ended", "c_detach">>
      /\ <<"con_attached", "c_connect">> # <<"det_ended", "fin_detached", "c_finish">>
  BY TuplesDiffer
<1> QED
  BY <1>2, <1>3, TuplesDiffer DEF AttachStacks, NestedEnd

(* _db_add.                                                              *)
LEMMA AddKeeps ==
  ASSUME IInv, NEW t \in Threads, Add(t)
  PROVE  IInv'
<1>0. DataOK /\ MuxOK /\ ControlOK /\ HandleOK
  BY DEF IInv
<1>1. CASE AddLock(t)
  <2>0. pc[t] \in AttachSteps /\ stack[t] \in AttachStacks /\ stack[t] \notin NestedEnd
    BY <1>0, <1>1, AttachStack DEF AddLock, At, AttachSteps
  <2>1. DataOK'
    BY <1>0, <1>1 DEF AddLock, table, DataOK
  <2>2. MuxOK'
    BY <1>0, <1>1, LockMux DEF AddLock, Mutexes
  <2>3. ControlOK' /\ HandleOK'
    <3>1. \A l \in AttachSteps \union UnlockSteps : PathOK(l, stack[t])
      BY <1>0, <2>0, PathStays DEF ControlOK, CallPath, PathMove
    <3>2. Goto(t, "add_find") /\ "add_find" \in AttachSteps /\ "add_find" \notin NeedsSlot
      BY <1>1 DEF AddLock, AttachSteps, NeedsSlot, Using, AttachCalls
    <3>3. \A u \in Threads \ {t} : dbh'[u] = dbh[u]
      BY <1>0, <1>1 DEF AddLock, DataOK
    <3> QED
      BY <1>0, <2>0, <3>1, <3>2, <3>3, GotoFrame DEF Labels, DbvSection
  <2> QED
    BY <2>1, <2>2, <2>3 DEF IInv
<1>2. CASE AddFind(t)
  <2>0. pc[t] \in AttachSteps /\ stack[t] \in AttachStacks /\ stack[t] \notin NestedEnd
    BY <1>0, <1>2, AttachStack DEF AddFind, At, AttachSteps
  <2>4. /\ FreeSlots \subseteq Slots /\ (FreeSlots # {} => First(FreeSlots) \in Slots)
        /\ NullSlots \subseteq Slots /\ (NullSlots # {} => First(NullSlots) \in Slots)
    BY FirstIn DEF FreeSlots, NullSlots
  <2>1. DataOK'
    BY <1>0, <1>2, <2>4 DEF AddFind, table, DataOK
  <2>2. MuxOK'
    BY <1>0, <1>2 DEF AddFind, MuxOK
  <2>3. ControlOK' /\ HandleOK'
    <3>1. \A l \in AttachSteps \union UnlockSteps : PathOK(l, stack[t])
      BY <1>0, <2>0, PathStays DEF ControlOK, CallPath, PathMove
    <3>3. \A u \in Threads \ {t} : dbh'[u] = dbh[u]
      BY <1>0, <1>2 DEF AddFind, DataOK
    <3>4. CASE Goto(t, "add_mark") /\ dbh'[t] \in Slots
      BY <1>0, <2>0, <3>1, <3>3, <3>4, GotoFrame DEF AttachSteps, Labels, DbvSection
    <3>5. CASE Goto(t, "add_full")
      BY <1>0, <2>0, <3>1, <3>3, <3>5, GotoFrame DEF AttachSteps, Labels, DbvSection, NeedsSlot,
         Using, AttachCalls
    <3> QED
      BY <1>0, <1>2, <2>4, <3>4, <3>5 DEF AddFind, DataOK
  <2> QED
    BY <2>1, <2>2, <2>3 DEF IInv
<1>3. CASE AddMark(t)
  <2>0. pc[t] \in AttachSteps /\ stack[t] \in AttachStacks /\ stack[t] \notin NestedEnd
    BY <1>0, <1>3, AttachStack DEF AddMark, At, AttachSteps
  <2>1. DataOK'
    <3>1. body' \in [Slots -> {"null", "struct", "full"}]
      BY <1>0, <1>3 DEF AddMark, DataOK
    <3>2. used' \in [Slots -> BOOLEAN]
      BY <1>0, <1>3 DEF AddMark, DataOK
    <3>3. owner' \in [Slots -> Threads \union {NoThread}]
      BY <1>0, <1>3 DEF AddMark, DataOK
    <3>4. dbh' \in [Threads -> Slots \union {NoSlot}]
      BY <1>0, <1>3 DEF AddMark, DataOK
    <3> QED
      BY <1>0, <1>3, <3>1, <3>2, <3>3, <3>4 DEF AddMark, DataOK
  <2>2. MuxOK'
    BY <1>0, <1>3 DEF AddMark, MuxOK
  <2>3. ControlOK' /\ HandleOK'
    <3>1. \A l \in AttachSteps \union UnlockSteps : PathOK(l, stack[t])
      BY <1>0, <2>0, PathStays DEF ControlOK, CallPath, PathMove
    <3>2. dbh[t] \in Slots
      BY <1>0, <1>3 DEF AddMark, At, HandleOK, NeedsSlot
    <3>3. \A u \in Threads \ {t} : dbh'[u] = dbh[u]
      BY <1>0, <1>3 DEF AddMark, DataOK
    <3>4. CASE Goto(t, "add_unlock") /\ UNCHANGED dbh
      BY <1>0, <2>0, <3>1, <3>2, <3>3, <3>4, GotoFrame DEF AttachSteps, Labels, DbvSection
    <3>5. CASE Goto(t, "add_full")
      BY <1>0, <2>0, <3>1, <3>3, <3>5, GotoFrame DEF AttachSteps, Labels, DbvSection, NeedsSlot,
         Using, AttachCalls
    <3> QED
      BY <1>3, <3>4, <3>5 DEF AddMark
  <2> QED
    BY <2>1, <2>2, <2>3 DEF IInv
<1>4. CASE AddUnlock(t)
  <2>1. DataOK'
    BY <1>0, <1>4 DEF AddUnlock, table, DataOK
  <2>2. MuxOK'
    BY <1>0, <1>4, UnlockMux DEF AddUnlock, Mutexes
  <2>3. ControlOK' /\ HandleOK'
    BY <1>0, <1>4, MoveFrame DEF AddUnlock, At, PathMove, AttachSteps, AttachCalls, DbvSection, EnvSection, Labels, HandleOK, NeedsSlot, Using
  <2> QED
    BY <2>1, <2>2, <2>3 DEF IInv
<1>5. CASE AddFull(t)
  <2>1. DataOK'
    BY <1>0, <1>5 DEF AddFull, table, DataOK
  <2>2. MuxOK'
    BY <1>0, <1>5, UnlockMux DEF AddFull, Mutexes
  <2>3. ControlOK' /\ HandleOK'
    BY <1>0, <1>5, LeaveFrame DEF AddFull, At, ClientSteps, ClientReturns
  <2> QED
    BY <2>1, <2>2, <2>3 DEF IInv
<1>6. CASE AddStmtv(t)
  <2>0. pc[t] \in AttachSteps /\ stack[t] \in AttachStacks /\ stack[t] \notin NestedEnd
    BY <1>0, <1>6, AttachStack DEF AddStmtv, At, AttachSteps
  <2>1. DataOK'
    BY <1>0, <1>6 DEF AddStmtv, table, DataOK
  <2>2. MuxOK'
    BY <1>0, <1>6 DEF AddStmtv, MuxOK
  <2>3. ControlOK' /\ HandleOK'
    <3>1. \A l \in AttachSteps \union UnlockSteps : PathOK(l, stack[t])
      BY <1>0, <2>0, PathStays DEF ControlOK, CallPath, PathMove
    <3>2. dbh[t] \in Slots
      BY <1>0, <1>6 DEF AddStmtv, At, HandleOK, NeedsSlot, Using
    <3>3. \A u \in Threads \ {t} : dbh'[u] = dbh[u]
      BY <1>0, <1>6 DEF AddStmtv, DataOK
    <3>4. CASE Goto(t, "att_split") /\ UNCHANGED dbh
      BY <1>0, <2>0, <3>1, <3>2, <3>3, <3>4, GotoFrame DEF AttachSteps, Labels
    <3>5. CASE Goto(t, "ua_dbv")
      BY <1>0, <2>0, <3>1, <3>3, <3>5, GotoFrame DEF UnlockSteps, Labels, NeedsSlot, Using, AttachCalls
    <3> QED
      BY <1>6, <3>4, <3>5 DEF AddStmtv
  <2> QED
    BY <2>1, <2>2, <2>3 DEF IInv
<1> QED
  BY <1>1, <1>2, <1>3, <1>4, <1>5, <1>6 DEF Add

(* sqlo_server_attach after _db_add.                                     *)
LEMMA AttachKeeps ==
  ASSUME IInv, NEW t \in Threads, Attach(t)
  PROVE  IInv'
<1>0. DataOK /\ MuxOK /\ ControlOK /\ HandleOK
  BY DEF IInv
<1>1. CASE AttachSplit(t)
  <2>0. pc[t] \in AttachSteps /\ stack[t] \in AttachStacks /\ stack[t] \notin NestedEnd
    BY <1>0, <1>1, AttachStack DEF AttachSplit, At, AttachSteps
  <2>1. DataOK'
    BY <1>0, <1>1 DEF AttachSplit, table, DataOK
  <2>2. MuxOK'
    BY <1>0, <1>1 DEF AttachSplit, MuxOK
  <2>3. ControlOK' /\ HandleOK'
    <3>1. \A l \in AttachSteps \union UnlockSteps : PathOK(l, stack[t])
      BY <1>0, <2>0, PathStays DEF ControlOK, CallPath, PathMove
    <3>2. dbh[t] \in Slots
      BY <1>0, <1>1 DEF AttachSplit, At, HandleOK, NeedsSlot, Using
    <3>3. \A u \in Threads \ {t} : dbh'[u] = dbh[u]
      BY <1>0, <1>1 DEF AttachSplit, DataOK
    <3>4. CASE Goto(t, "env_lock") /\ UNCHANGED dbh
      BY <1>0, <2>0, <3>1, <3>2, <3>3, <3>4, GotoFrame DEF AttachSteps, Labels
    <3>5. CASE Return(t, "fail")
      BY <1>0, <2>0, <3>3, <3>5, ReturnFrame DEF FailStacks
    <3> QED
      BY <1>1, <3>4, <3>5 DEF AttachSplit
  <2> QED
    BY <2>1, <2>2, <2>3 DEF IInv
<1>2. CASE EnvLock(t)
  <2>1. DataOK'
    BY <1>0, <1>2 DEF EnvLock, table, DataOK
  <2>2. MuxOK'
    BY <1>0, <1>2, LockMux DEF EnvLock, Mutexes
  <2>3. ControlOK' /\ HandleOK'
    BY <1>0, <1>2, MoveFrame DEF EnvLock, At, PathMove, AttachSteps, AttachCalls, DbvSection, EnvSection, Labels, HandleOK, NeedsSlot, Using
  <2> QED
    BY <2>1, <2>2, <2>3 DEF IInv
<1>3. CASE EnvCreate(t)
  <2>1. DataOK'
    <3>1. PICK out \in {"ok", "fail"} :
            /\ status' = [status EXCEPT ![dbh[t]] = out]
            /\ res' = [res EXCEPT ![dbh[t]] = IF out = "ok" THEN @ \union {"envhp"} ELSE @]
      BY <1>3, OutcomesOK DEF EnvCreate
    <3> QED
      BY <1>0, <1>3, <3>1 DEF EnvCreate, DataOK, OciHandles
  <2>2. MuxOK'
    BY <1>0, <1>3 DEF EnvCreate, MuxOK
  <2>3. ControlOK' /\ HandleOK'
    BY <1>0, <1>3, MoveFrame DEF EnvCreate, At, PathMove, AttachSteps, AttachCalls, DbvSection, EnvSection, Labels, HandleOK, NeedsSlot, Using
  <2> QED
    BY <2>1, <2>2, <2>3 DEF IInv
<1>4. CASE EnvUnlock(t)
  <2>1. DataOK'
    BY <1>0, <1>4 DEF EnvUnlock, table, DataOK
  <2>2. MuxOK'
    BY <1>0, <1>4, UnlockMux DEF EnvUnlock, Mutexes
  <2>3. ControlOK' /\ HandleOK'
    <3>1. CASE Goto(t, "att_svchp")
      BY <1>0, <1>4, <3>1, MoveFrame DEF EnvUnlock, At, PathMove, AttachSteps, AttachCalls, Labels,
         HandleOK, NeedsSlot, Using
    <3>2. CASE Goto(t, "rel_free")
      BY <1>0, <1>4, <3>2, MoveFrame DEF EnvUnlock, At, PathMove, AttachSteps, ReleaseSteps, Labels,
         HandleOK, NeedsSlot, Using
    <3> QED
      BY <1>4, <3>1, <3>2 DEF EnvUnlock
  <2> QED
    BY <2>1, <2>2, <2>3 DEF IInv
<1>5. CASE AttachCall(t)
  <2>0. PICK out \in {"ok", "fail"} :
          /\ status' = [status EXCEPT ![dbh[t]] = out]
          /\ res' = [res EXCEPT ![dbh[t]] =
                       IF out = "ok" THEN @ \union AttachGets[pc[t]] ELSE @]
          /\ Goto(t, IF out = "ok" THEN AttachNext[pc[t]] ELSE "rel_free")
    BY <1>5, OutcomesOK DEF AttachCall
  <2>1. DataOK'
    <3>1. AttachGets[pc[t]] \in SUBSET OciHandles
      BY <1>5 DEF AttachCall, AttachCalls, AttachGets, OciHandles
    <3>2. status' \in [Slots -> {"ok", "fail"}]
      BY <1>0, <2>0 DEF DataOK
    <3>3. res' \in [Slots -> SUBSET OciHandles]
      BY <1>0, <2>0, <3>1 DEF DataOK
    <3> QED
      BY <1>0, <1>5, <3>2, <3>3 DEF AttachCall, DataOK
  <2>2. MuxOK'
    BY <1>0, <1>5 DEF AttachCall, MuxOK
  <2>3. ControlOK' /\ HandleOK'
    <3>1. pc[t] \in AttachSteps /\ dbh[t] \in Slots /\ UNCHANGED dbh
      BY <1>0, <1>5 DEF AttachCall, AttachSteps, HandleOK, NeedsSlot, Using
    <3>2. PICK l \in AttachCalls \union {"att_done", "rel_free"} : Goto(t, l)
      BY <1>5, <2>0 DEF AttachCall, AttachNext, AttachCalls
    <3>3. l \in Labels /\ PathMove(pc[t], l)
      BY <3>1 DEF PathMove, AttachSteps, ReleaseSteps, Labels
    <3> QED
      BY <1>0, <3>1, <3>2, <3>3, MoveFrame
  <2> QED
    BY <2>1, <2>2, <2>3 DEF IInv
<1>6. CASE AttachDone(t)
  <2>1. DataOK'
    BY <1>0, <1>6 DEF AttachDone, table, DataOK
  <2>2. MuxOK'
    BY <1>0, <1>6 DEF AttachDone, MuxOK
  <2>3. ControlOK' /\ HandleOK'
    BY <1>0, <1>6, MoveFrame DEF AttachDone, At, PathMove, AttachSteps, ReleaseSteps, Labels, HandleOK, NeedsSlot, Using
  <2> QED
    BY <2>1, <2>2, <2>3 DEF IInv
<1> QED
  BY <1>1, <1>2, <1>3, <1>4, <1>5, <1>6 DEF Attach

(* _db_release and the return of dbp->status.                            *)
LEMMA ReleaseKeeps ==
  ASSUME IInv, NEW t \in Threads, Release(t)
  PROVE  IInv'
<1>0. DataOK /\ MuxOK /\ ControlOK /\ HandleOK
  BY DEF IInv
<1>1. CASE ReleaseFree(t)
  <2>1. DataOK'
    BY <1>0, <1>1 DEF ReleaseFree, table, DataOK
  <2>2. MuxOK'
    BY <1>0, <1>1 DEF ReleaseFree, MuxOK
  <2>3. ControlOK' /\ HandleOK'
    BY <1>0, <1>1, MoveFrame DEF ReleaseFree, At, PathMove, ReleaseSteps, DbvSection, Labels, HandleOK, NeedsSlot, Using
  <2> QED
    BY <2>1, <2>2, <2>3 DEF IInv
<1>2. CASE ReleaseLock(t)
  <2>1. DataOK'
    BY <1>0, <1>2 DEF ReleaseLock, table, DataOK
  <2>2. MuxOK'
    BY <1>0, <1>2, LockMux DEF ReleaseLock, Mutexes
  <2>3. ControlOK' /\ HandleOK'
    BY <1>0, <1>2, MoveFrame DEF ReleaseLock, At, PathMove, ReleaseSteps, DbvSection, Labels, HandleOK, NeedsSlot, Using
  <2> QED
    BY <2>1, <2>2, <2>3 DEF IInv
<1>3. CASE ReleaseClear(t)
  <2>1. DataOK'
    BY <1>0, <1>3 DEF ReleaseClear, table, DataOK
  <2>2. MuxOK'
    BY <1>0, <1>3 DEF ReleaseClear, MuxOK
  <2>3. ControlOK' /\ HandleOK'
    BY <1>0, <1>3, MoveFrame DEF ReleaseClear, At, PathMove, ReleaseSteps, DbvSection, Labels, HandleOK, NeedsSlot, Using
  <2> QED
    BY <2>1, <2>2, <2>3 DEF IInv
<1>4. CASE ReleaseUnlock(t)
  <2>1. DataOK'
    BY <1>0, <1>4 DEF ReleaseUnlock, table, DataOK
  <2>2. MuxOK'
    BY <1>0, <1>4, UnlockMux DEF ReleaseUnlock, Mutexes
  <2>3. ControlOK' /\ HandleOK'
    BY <1>0, <1>4, MoveFrame DEF ReleaseUnlock, At, PathMove, ReleaseSteps, DbvSection, Labels, HandleOK, NeedsSlot, Using
  <2> QED
    BY <2>1, <2>2, <2>3 DEF IInv
<1>5. CASE ReadStatus(t)
  <2>1. DataOK'
    BY <1>0, <1>5 DEF ReadStatus, table, DataOK
  <2>2. MuxOK'
    BY <1>0, <1>5 DEF ReadStatus, MuxOK
  <2>3. ControlOK' /\ HandleOK'
    <3>1. status[dbh[t]] \in {"ok", "fail"}
      BY <1>0, <1>5 DEF ReadStatus, At, HandleOK, NeedsSlot, DataOK
    <3> QED
      BY <1>0, <1>5, <3>1, LeaveFrame DEF ReadStatus, At, ClientSteps, ClientReturns
  <2> QED
    BY <2>1, <2>2, <2>3 DEF IInv
<1> QED
  BY <1>1, <1>2, <1>3, <1>4, <1>5 DEF Release

(* sqlo_session_begin and sqlo_session_end.                              *)
LEMMA SessionKeeps ==
  ASSUME IInv, NEW t \in Threads, Session(t)
  PROVE  IInv'
<1>0. DataOK /\ MuxOK /\ ControlOK /\ HandleOK
  BY DEF IInv
<1>1. CASE BeginCheck(t)
  <2>1. DataOK'
    BY <1>0, <1>1 DEF BeginCheck, table, DataOK
  <2>2. MuxOK'
    BY <1>0, <1>1 DEF BeginCheck, MuxOK
  <2>3. ControlOK' /\ HandleOK'
    <3>1. CASE Goto(t, "beg_attr") /\ ValidDbh(t)
      BY <1>0, <1>1, <3>1, MoveFrame DEF BeginCheck, At, PathMove, BeginSteps, Labels, ValidDbh
    <3>2. CASE Return(t, "fail")
      BY <1>0, <1>1, <3>2, LeaveFrame DEF BeginCheck, At, ClientSteps, ClientReturns
    <3> QED
      BY <1>1, <3>1, <3>2 DEF BeginCheck
  <2> QED
    BY <2>1, <2>2, <2>3 DEF IInv
<1>2. CASE BeginCall(t)
  <2>0. PICK out \in {"ok", "fail"} :
          /\ status' = [status EXCEPT ![dbh[t]] = out]
          /\ \/ Goto(t, "ua_dbv") /\ UNCHANGED session
             \/ (Goto(t, "beg_login") \/ Goto(t, "beg_bind")) /\ UNCHANGED session
             \/ session' = [session EXCEPT ![dbh[t]] = TRUE] /\ Return(t, "ok")
    BY <1>2, OutcomesOK DEF BeginCall
  <2>1. DataOK'
    BY <1>0, <1>2, <2>0 DEF BeginCall, DataOK
  <2>2. MuxOK'
    BY <1>0, <1>2 DEF BeginCall, MuxOK
  <2>3. ControlOK' /\ HandleOK'
    <3>1. pc[t] \in BeginSteps /\ dbh[t] \in Slots /\ UNCHANGED dbh
      BY <1>0, <1>2 DEF BeginCall, BeginSteps, HandleOK, NeedsSlot, Using
    <3>2. CASE Goto(t, "ua_dbv")
      BY <1>0, <3>1, <3>2, MoveFrame DEF PathMove, UnlockSteps, Labels
    <3>3. CASE Goto(t, "beg_login") \/ Goto(t, "beg_bind")
      BY <1>0, <3>1, <3>3, MoveFrame DEF PathMove, BeginSteps, Labels
    <3>4. CASE Return(t, "ok")
      BY <1>0, <3>1, <3>4, LeaveFrame DEF BeginSteps, ClientSteps, ClientReturns
    <3> QED
      BY <2>0, <3>2, <3>3, <3>4
  <2> QED
    BY <2>1, <2>2, <2>3 DEF IInv
<1>3. CASE EndCheck(t)
  <2>1. DataOK'
    BY <1>0, <1>3 DEF EndCheck, table, DataOK
  <2>2. MuxOK'
    BY <1>0, <1>3 DEF EndCheck, MuxOK
  <2>3. ControlOK' /\ HandleOK'
    <3>1. CASE Goto(t, "end_call") /\ ValidDbh(t)
      BY <1>0, <1>3, <3>1, MoveFrame DEF EndCheck, At, PathMove, EndSteps, Labels, ValidDbh
    <3>2. CASE Return(t, "fail")
      BY <1>0, <1>3, <3>2, LeaveFrame DEF EndCheck, At, ClientSteps, ClientReturns
    <3> QED
      BY <1>3, <3>1, <3>2 DEF EndCheck
  <2> QED
    BY <2>1, <2>2, <2>3 DEF IInv
<1>4. CASE EndCall(t)
  <2>0. PICK out \in {"ok", "fail"} :
          /\ status' = [status EXCEPT ![dbh[t]] = out]
          /\ Goto(t, "ua_dbv") \/ Return(t, "ok")
    BY <1>4, OutcomesOK DEF EndCall
  <2>1. DataOK'
    BY <1>0, <1>4, <2>0 DEF EndCall, DataOK
  <2>2. MuxOK'
    BY <1>0, <1>4 DEF EndCall, MuxOK
  <2>3. ControlOK' /\ HandleOK'
    <3>1. pc[t] \in EndSteps /\ UNCHANGED dbh
      BY <1>0, <1>4 DEF EndCall, At, EndSteps
    <3>2. CASE Goto(t, "ua_dbv")
      BY <1>0, <3>1, <3>2, MoveFrame DEF PathMove, UnlockSteps, Labels, NeedsSlot, Using, AttachCalls
    <3>3. CASE Return(t, "ok")
      BY <1>0, <3>1, <3>3, LeaveFrame DEF EndSteps, ClientSteps, ClientReturns
    <3> QED
      BY <2>0, <3>2, <3>3
  <2> QED
    BY <2>1, <2>2, <2>3 DEF IInv
<1> QED
  BY <1>1, <1>2, <1>3, <1>4 DEF Session

(* The stacks of the functions called by others of the library.            *)
LEMMA EndPath == \A st \in EndStacks : PathOK("end_check", st)
BY DEF PathOK, AttachSteps, AttachCalls, ReleaseSteps, BeginSteps, EndSteps, DetachSteps,
   FreeSteps, CommitSteps, InitSteps, UnlockSteps, ConnectSteps, FinishSteps, ClientSteps,
   ClientReturns

(* A caller's label on top of a stack.                                     *)
LEMMA PushOne == \A a, b : <<a>> \o <<b>> = <<a, b>>
<1> SUFFICES ASSUME NEW a, NEW b PROVE <<a>> \o <<b>> = <<a, b>>
  OBVIOUS
<1> DEFINE c == <<a>> \o <<b>>
<1>0. /\ <<a>> \in Seq({a, b}) /\ Len(<<a>>) = 1 /\ <<a>>[1] = a
      /\ <<b>> \in Seq({a, b}) /\ Len(<<b>>) = 1 /\ <<b>>[1] = b
      /\ <<a, b>> \in Seq({a, b}) /\ Len(<<a, b>>) = 2 /\ <<a, b>>[1] = a /\ <<a, b>>[2] = b
  OBVIOUS
<1>1. c \in Seq({a, b}) /\ Len(c) = 2 /\ c[1] = a /\ c[2] = b
  BY <1>0, ConcatProperties
<1> HIDE DEF c
<1>2. c = <<a, b>>
  BY <1>0, <1>1, SeqEqual
<1> QED
  BY <1>2 DEF c

LEMMA PushTwo == \A a, b, d : <<a>> \o <<b, d>> = <<a, b, d>>
<1> SUFFICES ASSUME NEW a, NEW b, NEW d PROVE <<a>> \o <<b, d>> = <<a, b, d>>
  OBVIOUS
<1> DEFINE c == <<a>> \o <<b, d>>
           S == {a, b, d}
<1>0. /\ <<a>> \in Seq(S) /\ Len(<<a>>) = 1 /\ <<a>>[1] = a
      /\ <<b, d>> \in Seq(S) /\ Len(<<b, d>>) = 2 /\ <<b, d>>[1] = b /\ <<b, d>>[2] = d
  OBVIOUS
<1>1. /\ <<a, b, d>> \in Seq(S) /\ Len(<<a, b, d>>) = 3
      /\ <<a, b, d>>[1] = a /\ <<a, b, d>>[2] = b /\ <<a, b, d>>[3] = d
  OBVIOUS
<1>2. c \in Seq(S) /\ Len(c) = 3 /\ c[1] = a /\ c[2] = b /\ c[3] = d
  BY <1>0, ConcatProperties
<1> HIDE DEF c
<1>3. c = <<a, b, d>>
  BY <1>1, <1>2, SeqEqual
<1> QED
  BY <1>3 DEF c

LEMMA NotNested ==
  ASSUME NEW a, a # "det_ended", NEW b
  PROVE  <<a, b>> \notin NestedEnd
<1>1. <<a, b>> # <<"det_ended", "c_detach">>
  OBVIOUS
<1>2. <<a, b>> # <<"det_ended", "fin_detached", "c_finish">>
  BY TuplesDiffer
<1> QED
  BY <1>1, <1>2 DEF NestedEnd

LEMMA ConnectCalls ==
  /\ PathOK("beg_check", <<"con_begun">> \o InConnect)
  /\ PathOK("free_check", <<"con_freed">> \o InConnect)
  /\ (<<"con_begun">> \o InConnect) \notin NestedEnd
  /\ (<<"con_freed">> \o InConnect) \notin NestedEnd
<1>1. /\ <<"con_begun">> \o InConnect = <<"con_begun", "c_connect">>
      /\ <<"con_freed">> \o InConnect = <<"con_freed", "c_connect">>
  BY PushOne DEF InConnect
<1>2. /\ PathOK("beg_check", <<"con_begun", "c_connect">>)
      /\ PathOK("free_check", <<"con_freed", "c_connect">>)
  BY DEF PathOK, AttachSteps, AttachCalls, ReleaseSteps, BeginSteps, EndSteps, DetachSteps,
     FreeSteps, CommitSteps, InitSteps, UnlockSteps, ConnectSteps, FinishSteps, ClientSteps,
     ClientReturns, BeginStacks, FreeStacks
<1>3. /\ <<"con_begun", "c_connect">> \notin NestedEnd
      /\ <<"con_freed", "c_connect">> \notin NestedEnd
  BY NotNested
<1> QED
  BY <1>1, <1>2, <1>3

LEMMA FinishCalls ==
  /\ PathOK("end_check", <<"fin_ended">> \o InFinish)
  /\ PathOK("det_check", <<"fin_detached">> \o InFinish)
  /\ PathOK("free_check", <<"fin_freed">> \o InFinish)
  /\ (<<"fin_ended">> \o InFinish) \notin NestedEnd
  /\ (<<"fin_detached">> \o InFinish) \notin NestedEnd
  /\ (<<"fin_freed">> \o InFinish) \notin NestedEnd
<1>1. /\ <<"fin_ended">> \o InFinish = <<"fin_ended", "c_finish">>
      /\ <<"fin_detached">> \o InFinish = <<"fin_detached", "c_finish">>
      /\ <<"fin_freed">> \o InFinish = <<"fin_freed", "c_finish">>
  BY PushOne DEF InFinish
<1>2. /\ PathOK("end_check", <<"fin_ended", "c_finish">>)
      /\ PathOK("det_check", <<"fin_detached", "c_finish">>)
      /\ PathOK("free_check", <<"fin_freed", "c_finish">>)
  BY DEF PathOK, AttachSteps, AttachCalls, ReleaseSteps, BeginSteps, EndSteps, DetachSteps,
     FreeSteps, CommitSteps, InitSteps, UnlockSteps, ConnectSteps, FinishSteps, ClientSteps,
     ClientReturns, EndStacks, DetachStacks, FreeStacks
<1>3. /\ <<"fin_ended", "c_finish">> \notin NestedEnd
      /\ <<"fin_detached", "c_finish">> \notin NestedEnd
      /\ <<"fin_freed", "c_finish">> \notin NestedEnd
  BY NotNested
<1> QED
  BY <1>1, <1>2, <1>3

(* sqlo_server_detach, sqlo_server_free and sqlo_commit.                 *)
LEMMA DetachKeeps ==
  ASSUME IInv, NEW t \in Threads, Detach(t)
  PROVE  IInv'
<1>0. DataOK /\ MuxOK /\ ControlOK /\ HandleOK
  BY DEF IInv
<1>1. CASE DetachCheck(t)
  <2>1. DataOK'
    BY <1>0, <1>1 DEF DetachCheck, table, DataOK
  <2>2. MuxOK'
    BY <1>0, <1>1 DEF DetachCheck, MuxOK
  <2>3. ControlOK' /\ HandleOK'
    <3>0. At(t, "det_check") /\ UNCHANGED dbh
      BY <1>1 DEF DetachCheck
    <3>1. CASE Return(t, "fail")
      BY <1>0, <3>0, <3>1, LeaveFrame DEF At, ClientSteps, ClientReturns
    <3>2. CASE Goto(t, "det_call") /\ ValidDbh(t)
      BY <1>0, <3>0, <3>2, MoveFrame DEF At, PathMove, DetachSteps, Labels, ValidDbh
    <3>3. CASE Call(t, "end_check", "det_ended") /\ ValidDbh(t)
      <4>1. stack[t] \in DetachStacks
        BY <1>0, <3>0 DEF ControlOK, CallPath, PathOK, At, DetachSteps
      <4>2. (<<"det_ended">> \o stack[t]) \in NestedEnd
        <5>1. /\ <<"det_ended">> \o <<"c_detach">> = <<"det_ended", "c_detach">>
              /\ <<"det_ended">> \o <<"fin_detached", "c_finish">>
                   = <<"det_ended", "fin_detached", "c_finish">>
          BY PushOne, PushTwo
        <5> QED
          BY <4>1, <5>1, Zenon DEF DetachStacks, NestedEnd
      <4>3. PathOK("end_check", <<"det_ended">> \o stack[t])
        BY <4>2, EndPath DEF EndStacks
      <4> QED
        BY <1>0, <3>0, <3>3, <4>3, CallFrame DEF ValidDbh, Labels, ReturnLabels, LibraryReturns
    <3> QED
      BY <1>1, <3>1, <3>2, <3>3 DEF DetachCheck
  <2> QED
    BY <2>1, <2>2, <2>3 DEF IInv
<1>2. CASE DetachEnded(t)
  <2>1. DataOK'
    BY <1>0, <1>2 DEF DetachEnded, table, DataOK
  <2>2. MuxOK'
    BY <1>0, <1>2 DEF DetachEnded, MuxOK
  <2>3. ControlOK' /\ HandleOK'
    <3>0. At(t, "det_ended") /\ UNCHANGED dbh /\ dbh[t] \in Slots
      BY <1>0, <1>2 DEF DetachEnded, At, HandleOK, NeedsSlot
    <3>1. CASE Goto(t, "det_call")
      BY <1>0, <3>0, <3>1, MoveFrame DEF At, PathMove, DetachSteps, Labels
    <3>2. CASE Goto(t, "ua_dbv")
      BY <1>0, <3>0, <3>2, MoveFrame DEF At, PathMove, DetachSteps, UnlockSteps, Labels
    <3> QED
      BY <1>2, <3>1, <3>2 DEF DetachEnded
  <2> QED
    BY <2>1, <2>2, <2>3 DEF IInv
<1>3. CASE DetachCall(t)
  <2>1. DataOK'
    <3>1. PICK out \in {"ok", "fail"} : status' = [status EXCEPT ![dbh[t]] = out]
      BY <1>3, OutcomesOK DEF DetachCall
    <3> QED
      BY <1>0, <1>3, <3>1 DEF DetachCall, DataOK
  <2>2. MuxOK'
    BY <1>0, <1>3 DEF DetachCall, MuxOK
  <2>3. ControlOK' /\ HandleOK'
    BY <1>0, <1>3, MoveFrame DEF DetachCall, At, PathMove, DetachSteps, ReleaseSteps, Labels, HandleOK, NeedsSlot, Using
  <2> QED
    BY <2>1, <2>2, <2>3 DEF IInv
<1>4. CASE FreeCheck(t)
  <2>1. DataOK'
    BY <1>0, <1>4 DEF FreeCheck, table, DataOK
  <2>2. MuxOK'
    BY <1>0, <1>4 DEF FreeCheck, MuxOK
  <2>3. ControlOK' /\ HandleOK'
    <3>1. CASE Goto(t, "free_call") /\ ValidDbh(t)
      BY <1>0, <1>4, <3>1, MoveFrame DEF FreeCheck, At, PathMove, FreeSteps, Labels, ValidDbh
    <3>2. CASE Goto(t, "ua_dbv")
      BY <1>0, <1>4, <3>2, MoveFrame DEF FreeCheck, At, PathMove, FreeSteps, UnlockSteps, Labels, NeedsSlot,
         Using, AttachCalls
    <3> QED
      BY <1>4, <3>1, <3>2 DEF FreeCheck
  <2> QED
    BY <2>1, <2>2, <2>3 DEF IInv
<1>5. CASE FreeCall(t)
  <2>1. DataOK'
    <3>1. PICK st \in [Slots -> {"ok", "fail"}] : status' = st
      BY <1>0, <1>5, OutcomesOK DEF FreeCall, DataOK
    <3> QED
      BY <1>0, <1>5, <3>1 DEF FreeCall, DataOK
  <2>2. MuxOK'
    BY <1>0, <1>5 DEF FreeCall, MuxOK
  <2>3. ControlOK' /\ HandleOK'
    BY <1>0, <1>5, MoveFrame DEF FreeCall, At, PathMove, FreeSteps, ReleaseSteps, Labels, HandleOK, NeedsSlot, Using
  <2> QED
    BY <2>1, <2>2, <2>3 DEF IInv
<1>6. CASE CommitCheck(t)
  <2>1. DataOK'
    BY <1>0, <1>6 DEF CommitCheck, table, DataOK
  <2>2. MuxOK'
    BY <1>0, <1>6 DEF CommitCheck, MuxOK
  <2>3. ControlOK' /\ HandleOK'
    <3>1. CASE Goto(t, "com_call") /\ ValidDbh(t)
      BY <1>0, <1>6, <3>1, MoveFrame DEF CommitCheck, At, PathMove, CommitSteps, Labels, ValidDbh
    <3>2. CASE Goto(t, "ua_dbv")
      BY <1>0, <1>6, <3>2, MoveFrame DEF CommitCheck, At, PathMove, CommitSteps, UnlockSteps, Labels, NeedsSlot,
         Using, AttachCalls
    <3> QED
      BY <1>6, <3>1, <3>2 DEF CommitCheck
  <2> QED
    BY <2>1, <2>2, <2>3 DEF IInv
<1>7. CASE CommitCall(t)
  <2>0. PICK out \in {"ok", "fail"} :
          /\ status' = [status EXCEPT ![dbh[t]] = out]
          /\ Goto(t, "ua_dbv") \/ Return(t, "ok")
    BY <1>7, OutcomesOK DEF CommitCall
  <2>1. DataOK'
    BY <1>0, <1>7, <2>0 DEF CommitCall, DataOK
  <2>2. MuxOK'
    BY <1>0, <1>7 DEF CommitCall, MuxOK
  <2>3. ControlOK' /\ HandleOK'
    <3>1. pc[t] \in CommitSteps /\ UNCHANGED dbh
      BY <1>0, <1>7 DEF CommitCall, At, CommitSteps
    <3>2. CASE Goto(t, "ua_dbv")
      BY <1>0, <3>1, <3>2, MoveFrame DEF PathMove, UnlockSteps, Labels, NeedsSlot, Using, AttachCalls
    <3>3. CASE Return(t, "ok")
      BY <1>0, <3>1, <3>3, LeaveFrame DEF CommitSteps, ClientSteps, ClientReturns
    <3> QED
      BY <2>0, <3>2, <3>3
  <2> QED
    BY <2>1, <2>2, <2>3 DEF IInv
<1> QED
  BY <1>1, <1>2, <1>3, <1>4, <1>5, <1>6, <1>7 DEF Detach

(* sqlo_connect, sqlo_finish and a repeated sqlo_init.                   *)
LEMMA ApiKeeps ==
  ASSUME IInv, NEW t \in Threads, Api(t)
  PROVE  IInv'
<1>0. DataOK /\ MuxOK /\ ControlOK /\ HandleOK
  BY DEF IInv
<1>1. CASE Connect(t)
  <2>1. DataOK'
    BY <1>0, <1>1 DEF Connect, table, DataOK
  <2>2. MuxOK'
    BY <1>0, <1>1 DEF Connect, MuxOK
  <2>3. ControlOK' /\ HandleOK'
    <3>0. pc[t] \in ConnectSteps /\ stack[t] = InConnect /\ UNCHANGED dbh
      BY <1>0, <1>1 DEF Connect, At, ControlOK, CallPath, PathOK, ConnectSteps
    <3>1. CASE Call(t, "beg_check", "con_begun")
      <4>1. PathOK("beg_check", <<"con_begun">> \o stack[t]) /\ (<<"con_begun">> \o stack[t]) \notin NestedEnd
        BY <3>0, ConnectCalls
      <4> QED
        BY <1>0, <3>0, <3>1, <4>1, CallFrame DEF Labels, ReturnLabels, LibraryReturns, NeedsSlot,
           Using, AttachCalls
    <3>2. CASE Call(t, "free_check", "con_freed")
      <4>1. PathOK("free_check", <<"con_freed">> \o stack[t]) /\ (<<"con_freed">> \o stack[t]) \notin NestedEnd
        BY <3>0, ConnectCalls
      <4> QED
        BY <1>0, <3>0, <3>2, <4>1, CallFrame DEF Labels, ReturnLabels, LibraryReturns, NeedsSlot,
           Using, AttachCalls
    <3>3. CASE Return(t, "ok") \/ Return(t, "fail")
      BY <1>0, <3>0, <3>3, LeaveFrame DEF ConnectSteps, ClientSteps, ClientReturns
    <3> QED
      BY <1>1, <3>1, <3>2, <3>3 DEF Connect
  <2> QED
    BY <2>1, <2>2, <2>3 DEF IInv
<1>2. CASE Finish(t)
  <2>1. DataOK'
    BY <1>0, <1>2 DEF Finish, table, DataOK
  <2>2. MuxOK'
    BY <1>0, <1>2 DEF Finish, MuxOK
  <2>3. ControlOK' /\ HandleOK'
    <3>0. pc[t] \in FinishSteps /\ stack[t] = InFinish /\ UNCHANGED dbh
      BY <1>0, <1>2 DEF Finish, At, ControlOK, CallPath, PathOK, FinishSteps
    <3>1. CASE Call(t, "end_check", "fin_ended")
      <4>1. PathOK("end_check", <<"fin_ended">> \o stack[t]) /\ (<<"fin_ended">> \o stack[t]) \notin NestedEnd
        BY <3>0, FinishCalls
      <4> QED
        BY <1>0, <3>0, <3>1, <4>1, CallFrame DEF Labels, ReturnLabels, LibraryReturns, NeedsSlot,
           Using, AttachCalls
    <3>2. CASE Call(t, "det_check", "fin_detached")
      <4>1. PathOK("det_check", <<"fin_detached">> \o stack[t]) /\ (<<"fin_detached">> \o stack[t]) \notin NestedEnd
        BY <3>0, FinishCalls
      <4> QED
        BY <1>0, <3>0, <3>2, <4>1, CallFrame DEF Labels, ReturnLabels, LibraryReturns, NeedsSlot,
           Using, AttachCalls
    <3>3. CASE Call(t, "free_check", "fin_freed")
      <4>1. PathOK("free_check", <<"fin_freed">> \o stack[t]) /\ (<<"fin_freed">> \o stack[t]) \notin NestedEnd
        BY <3>0, FinishCalls
      <4> QED
        BY <1>0, <3>0, <3>3, <4>1, CallFrame DEF Labels, ReturnLabels, LibraryReturns, NeedsSlot,
           Using, AttachCalls
    <3>4. CASE Return(t, "ok") \/ Return(t, "fail")
      BY <1>0, <3>0, <3>4, LeaveFrame DEF FinishSteps, ClientSteps, ClientReturns
    <3>5. CASE At(t, "fin_check") /\ Goto(t, "ua_dbv")
      BY <1>0, <3>0, <3>5, MoveFrame DEF At, PathMove, UnlockSteps, Labels, NeedsSlot, Using,
         AttachCalls
    <3> QED
      BY <1>2, <3>1, <3>2, <3>3, <3>4, <3>5 DEF Finish
  <2> QED
    BY <2>1, <2>2, <2>3 DEF IInv
<1>3. CASE InitAgain(t)
  <2>1. DataOK'
    BY <1>0, <1>3 DEF InitAgain, table, DataOK
  <2>2. MuxOK'
    BY <1>0, <1>3, LockMux, UnlockMux DEF InitAgain, Mutexes
  <2>3. ControlOK' /\ HandleOK'
    <3>0. pc[t] \in InitSteps /\ UNCHANGED dbh
      BY <1>3 DEF InitAgain, At, InitSteps
    <3>1. CASE Goto(t, "ini_test")
      BY <1>0, <3>0, <3>1, MoveFrame DEF PathMove, InitSteps, Labels, InitSection, NeedsSlot, Using,
         AttachCalls
    <3>2. CASE Return(t, "ok")
      BY <1>0, <3>0, <3>2, LeaveFrame DEF InitSteps, ClientSteps, ClientReturns
    <3> QED
      BY <1>3, <3>1, <3>2 DEF InitAgain
  <2> QED
    BY <2>1, <2>2, <2>3 DEF IInv
<1> QED
  BY <1>1, <1>2, <1>3 DEF Api

(* UNLOCK_ALL.                                                             *)
LEMMA UnlockAllKeeps ==
  ASSUME IInv, NEW t \in Threads, UnlockAll(t)
  PROVE  IInv'
<1>0. DataOK /\ MuxOK /\ ControlOK /\ HandleOK
  BY DEF IInv
<1>1. DataOK'
  BY <1>0 DEF UnlockAll, table, DataOK
<1>2. MuxOK'
  BY <1>0, UnlockMux DEF UnlockAll, UnlockAllStep, Mutexes
<1>3. ControlOK' /\ HandleOK'
  <2>0. pc[t] \in UnlockSteps /\ UNCHANGED dbh
    BY DEF UnlockAll, UnlockAllStep, At, UnlockSteps
  <2>1. CASE Goto(t, "ua_env") \/ Goto(t, "ua_init")
    BY <1>0, <2>0, <2>1, MoveFrame DEF PathMove, UnlockSteps, Labels, NeedsSlot, Using, AttachCalls
  <2>2. CASE Return(t, "fail")
    BY <1>0, <2>0, <2>2, LeaveFrame DEF UnlockSteps, ClientSteps, ClientReturns
  <2> QED
    BY <2>1, <2>2 DEF UnlockAll, UnlockAllStep
<1> QED
  BY <1>1, <1>2, <1>3 DEF IInv

(* The functions the application calls start with the stack of their step. *)
LEMMA FirstCalls ==
  ASSUME NEW f \in Functions
  PROVE  /\ CallLabel[f] \in Labels /\ CallLabel[f] \notin NeedsSlot
         /\ Stack0[f] \in Seq(ReturnLabels) /\ Stack0[f] \notin NestedEnd
         /\ PathOK(CallLabel[f], Stack0[f])
<1>1. CallLabel[f] \in Labels /\ CallLabel[f] \notin NeedsSlot
  <2>1. CallLabel[f] \in {"add_lock", "beg_check", "end_check", "det_check", "free_check",
                          "fin_check", "com_check", "ini_lock"}
    BY DEF Functions, CallLabel
  <2> QED
    BY <2>1 DEF Labels, NeedsSlot, Using, AttachCalls, ReturnLabels, LibraryReturns
<1>2. Stack0[f] \in Seq(ReturnLabels)
  <2>1. \/ Stack0[f] = <<"con_attached", "c_connect">>
        \/ \E a \in ClientReturns : Stack0[f] = <<a>>
    BY DEF Functions, Stack0, ClientReturns
  <2>2. \A a \in ReturnLabels : <<a>> \in Seq(ReturnLabels)
    OBVIOUS
  <2>3. "con_attached" \in ReturnLabels /\ "c_connect" \in ReturnLabels
    BY DEF ReturnLabels, LibraryReturns, ClientReturns
  <2>4. <<"con_attached", "c_connect">> \in Seq(ReturnLabels)
    BY <2>3
  <2> QED
    BY <2>1, <2>2, <2>4 DEF ReturnLabels
<1>3. Stack0[f] \notin NestedEnd
  <2>1. CASE f = "connect"
    BY <2>1, NotNested DEF Stack0
  <2>2. CASE f # "connect"
    <3>1. \E a : Stack0[f] = <<a>>
      BY <2>2 DEF Functions, Stack0
    <3> QED
      BY <3>1, TuplesDiffer DEF NestedEnd
  <2> QED
    BY <2>1, <2>2
<1>4. PathOK(CallLabel[f], Stack0[f])
  BY DEF Functions, CallLabel, Stack0, PathOK, AttachSteps, AttachCalls, ReleaseSteps,
     BeginSteps, EndSteps, DetachSteps, FreeSteps, CommitSteps, InitSteps, UnlockSteps,
     ConnectSteps, FinishSteps, ClientSteps, ClientReturns, AttachStacks, BeginStacks,
     EndStacks, DetachStacks, FreeStacks, InFinish
<1> QED
  BY <1>1, <1>2, <1>3, <1>4

(* The application calls a function or takes note of its return.           *)
LEMMA ClientKeeps ==
  ASSUME IInv, NEW t \in Threads, ClientCall(t) \/ ClientReturn(t)
  PROVE  IInv'
<1>0. DataOK /\ MuxOK /\ ControlOK /\ HandleOK
  BY DEF IInv
<1>1. CASE ClientCall(t)
  <2>1. DataOK' /\ MuxOK'
    BY <1>0, <1>1 DEF ClientCall, table, DataOK, MuxOK
  <2>2. PICK f \in Functions :
          /\ pc'    = [pc EXCEPT ![t] = CallLabel[f]]
          /\ stack' = [stack EXCEPT ![t] = Stack0[f]]
    BY <1>1, ClientCallsAssumption DEF ClientCall
  <2>3. ControlOK' /\ HandleOK'
    BY <1>0, <1>1, <2>2, FirstCalls DEF ClientCall, ControlOK, CallPath, HandleOK
  <2> QED
    BY <2>1, <2>3 DEF IInv
<1>2. CASE ClientReturn(t)
  <2>1. DataOK' /\ MuxOK'
    <3>1. ViewAfter(t) \in {"none", "attached", "session", "broken"}
      BY <1>0, <1>2 DEF ClientReturn, ClientReturns, ViewAfter, DataOK
    <3> QED
      BY <1>0, <1>2, <3>1 DEF ClientReturn, table, DataOK, MuxOK
  <2>2. stack[t] = <<>>
    BY <1>0, <1>2 DEF ClientReturn, ControlOK, CallPath, PathOK, ClientSteps
  <2>3. PathOK("idle", <<>>) /\ "idle" \notin NeedsSlot /\ <<>> \notin NestedEnd
    BY TuplesDiffer DEF PathOK, AttachSteps, AttachCalls, ReleaseSteps, BeginSteps, EndSteps,
       DetachSteps, FreeSteps, CommitSteps, InitSteps, UnlockSteps, ConnectSteps, FinishSteps,
       ClientSteps, NeedsSlot, Using, NestedEnd
  <2>4. ControlOK' /\ HandleOK'
    <3>1. /\ pc' \in [Threads -> Labels]
          /\ stack' \in [Threads -> Seq(ReturnLabels)]
          /\ rv' \in [Threads -> {"ok", "fail"}]
      BY <1>0, <1>2 DEF ClientReturn, ControlOK, Labels
    <3>2. /\ pc'[t] = "idle" /\ UNCHANGED stack
          /\ \A u \in Threads \ {t} : pc'[u] = pc[u] /\ dbh'[u] = dbh[u]
      BY <1>0, <1>2 DEF ClientReturn, ControlOK, DataOK
    <3>3. CallPath'
      BY <1>0, <2>2, <2>3, <3>2 DEF ControlOK, CallPath
    <3>4. HandleOK'
      BY <1>0, <2>2, <2>3, <3>2 DEF HandleOK
    <3> QED
      BY <3>1, <3>3, <3>4 DEF ControlOK
  <2> QED
    BY <2>1, <2>4 DEF IInv
<1> QED
  BY <1>1, <1>2

-----------------------------------------------------------------------------
(* The invariant holds in every state.                                     *)

LEMMA InitIInv == Init => IInv
<1> SUFFICES ASSUME Init PROVE IInv
  OBVIOUS
<1>1. DataOK /\ MuxOK
  BY DEF Init, DataOK, MuxOK
<1>2. \A t \in Threads : pc[t] = "idle" /\ stack[t] = <<>>
  BY DEF Init
<1>3. PathOK("idle", <<>>) /\ "idle" \notin NeedsSlot /\ <<>> \notin NestedEnd
  BY TuplesDiffer DEF PathOK, AttachSteps, AttachCalls, ReleaseSteps, BeginSteps, EndSteps,
     DetachSteps, FreeSteps, CommitSteps, InitSteps, UnlockSteps, ConnectSteps, FinishSteps,
     ClientSteps, NeedsSlot, Using, NestedEnd
<1>4. ControlOK
  BY <1>2, <1>3 DEF Init, ControlOK, CallPath, Labels
<1>5. HandleOK
  BY <1>2, <1>3 DEF HandleOK
<1> QED
  BY <1>1, <1>4, <1>5 DEF IInv

LEMMA NextIInv == IInv /\ [Next]_vars => IInv'
<1> SUFFICES ASSUME IInv, [Next]_vars PROVE IInv'
  OBVIOUS
<1>1. CASE UNCHANGED vars
  BY <1>1 DEF vars, table, thread, IInv, DataOK, MuxOK, ControlOK, CallPath, HandleOK
<1>2. ASSUME NEW t \in Threads, Step(t) \/ ClientCall(t)
      PROVE  IInv'
  BY <1>2, AddKeeps, AttachKeeps, ReleaseKeeps, SessionKeeps, DetachKeeps, ApiKeeps,
     UnlockAllKeeps, ClientKeeps DEF Step
<1> QED
  BY <1>1, <1>2 DEF Next

LEMMA InvariantIInv == Spec => []IInv
BY InitIInv, NextIInv, PTL DEF Spec

(* Every field of the table, every mutex and every thread's local state    *)
(* keeps its type: in particular a function that ends with `return         *)
(* dbp->status` always has a database structure to read it from.           *)
THEOREM TypeCorrect == Spec => []TypeOK
<1>1. IInv => TypeOK
  BY DEF IInv, DataOK, MuxOK, ControlOK, TypeOK
<1> QED
  BY <1>1, InvariantIInv, PTL

-----------------------------------------------------------------------------
(* Mutual exclusion.  It needs mutexes that only their holder can unlock   *)
(* and that are really taken by those who wait for them; HoldsMutex is the *)
(* inductive invariant: whoever is in a section holds its mutex.           *)

LockSteps == {"add_lock", "env_lock", "rel_lock", "ini_lock"}
InSection == DbvSection \union EnvSection \union InitSection

\* What thread t does to the reliable mutexes, the others do not notice.
MuxKept(t) == \A m \in Reliable, u \in Threads \ {t} : mux[m] = u => mux'[m] = u

LEMMA Sections ==
  /\ \A m \in Mutexes : Section[m] \subseteq InSection
  /\ Section["dbv"] = DbvSection /\ Section["env"] = EnvSection /\ Section["init"] = InitSection
  /\ \A m, n \in Mutexes : m # n => Section[m] \intersect Section[n] = {}
BY DEF Section, Mutexes, InSection, DbvSection, EnvSection, InitSection

LEMMA LockKeeps ==
  ASSUME MuxOK, NEW t \in Threads, NEW m \in Mutexes, Lock(t, m)
  PROVE  MuxKept(t) /\ (m \in Reliable /\ pc[t] \in LockCalls[m] => mux'[m] = t)
BY ThreadAssumption DEF MuxOK, Lock, MuxKept, Reliable

LEMMA UnlockKeeps ==
  ASSUME MuxOK, NEW t \in Threads, NEW m \in Mutexes, Unlock(t, m),
         OwnerChecked \/ (m \in Reliable => mux[m] = t)
  PROVE  MuxKept(t)
BY DEF MuxOK, Unlock, MuxKept, Reliable

(* A thread whose step ends outside the sections.                          *)
LEMMA OutFrame ==
  ASSUME ControlOK, HoldsMutex, NEW t \in Threads, NEW l, l \notin InSection,
         pc' = [pc EXCEPT ![t] = l], MuxKept(t)
  PROVE  HoldsMutex'
<1>1. pc'[t] = l /\ \A u \in Threads \ {t} : pc'[u] = pc[u]
  BY DEF ControlOK
<1> QED
  BY <1>1, Sections DEF HoldsMutex, MuxKept, Reliable

(* A thread whose step ends in a section, the mutex of which it holds.     *)
LEMMA InFrame ==
  ASSUME ControlOK, HoldsMutex, NEW t \in Threads, NEW m \in Mutexes, NEW l \in Section[m],
         pc' = [pc EXCEPT ![t] = l], MuxKept(t), m \in Reliable => mux'[m] = t
  PROVE  HoldsMutex'
<1>1. pc'[t] = l /\ \A u \in Threads \ {t} : pc'[u] = pc[u]
  BY DEF ControlOK
<1>2. \A n \in Mutexes : l \in Section[n] => n = m
  BY Sections
<1> QED
  BY <1>1, <1>2 DEF HoldsMutex, MuxKept, Reliable

LEMMA ReturnOut ==
  ASSUME ControlOK, NEW t \in Threads, NEW v, Return(t, v), pc[t] \notin ClientSteps
  PROVE  \E l : l \notin InSection /\ pc' = [pc EXCEPT ![t] = l]
<1>1. Head(stack[t]) \in ReturnLabels
  BY InsideStack, ReturnPath DEF ControlOK
<1> QED
  BY <1>1 DEF Return, ReturnLabels, LibraryReturns, ClientReturns, InSection, DbvSection,
     EnvSection, InitSection

(* The steps that touch no mutex and end outside the sections.             *)
Quiet(t) == \/ AddStmtv(t) \/ AttachSplit(t) \/ AttachCall(t) \/ AttachDone(t)
            \/ ReleaseFree(t) \/ ReadStatus(t) \/ Session(t) \/ Detach(t)
            \/ Connect(t) \/ Finish(t) \/ ClientCall(t) \/ ClientReturn(t)

LEMMA QuietOut ==
  ASSUME ControlOK, NEW t \in Threads, Quiet(t)
  PROVE  UNCHANGED mux /\ \E l : l \notin InSection /\ pc' = [pc EXCEPT ![t] = l]
<1> USE DEF InSection, DbvSection, EnvSection, InitSection
<1>1. CASE AddStmtv(t)
  BY <1>1 DEF AddStmtv, Goto
<1>2. CASE AttachSplit(t)
  <2>1. CASE Return(t, "fail")
    BY <1>2, <2>1, ReturnOut DEF AttachSplit, At, ClientSteps, ClientReturns
  <2> QED
    BY <1>2, <2>1 DEF AttachSplit, Goto
<1>3. CASE AttachCall(t)
  <2>1. PICK l \in AttachCalls \union {"att_done", "rel_free"} : Goto(t, l)
    BY <1>3, OutcomesOK DEF AttachCall, AttachNext, AttachCalls
  <2> QED
    BY <1>3, <2>1 DEF AttachCall, AttachCalls, Goto
<1>4. CASE AttachDone(t) \/ ReleaseFree(t)
  BY <1>4 DEF AttachDone, ReleaseFree, Goto
<1>5. CASE ReadStatus(t)
  BY <1>5, ReturnOut DEF ReadStatus, At, ClientSteps, ClientReturns
<1>6. CASE Session(t)
  <2>0. UNCHANGED mux /\ pc[t] \notin ClientSteps
    BY <1>6 DEF Session, BeginCheck, BeginCall, EndCheck, EndCall, At, ClientSteps, ClientReturns
  <2>1. \/ \E v : Return(t, v)
        \/ \E l \in {"beg_attr", "beg_login", "beg_bind", "end_call", "ua_dbv"} : Goto(t, l)
    BY <1>6 DEF Session, BeginCheck, BeginCall, EndCheck, EndCall
  <2> QED
    BY <2>0, <2>1, ReturnOut DEF Goto
<1>7. CASE Detach(t)
  <2>0. UNCHANGED mux /\ pc[t] \notin ClientSteps
    BY <1>7 DEF Detach, DetachCheck, DetachEnded, DetachCall, FreeCheck, FreeCall, CommitCheck,
       CommitCall, At, ClientSteps, ClientReturns
  <2>1. \/ \E v : Return(t, v)
        \/ Call(t, "end_check", "det_ended")
        \/ \E l \in {"det_call", "free_call", "com_call", "rel_free", "ua_dbv"} : Goto(t, l)
    BY <1>7 DEF Detach, DetachCheck, DetachEnded, DetachCall, FreeCheck, FreeCall, CommitCheck,
       CommitCall
  <2> QED
    BY <2>0, <2>1, ReturnOut DEF Goto, Call
<1>8. CASE Connect(t) \/ Finish(t)
  <2>0. UNCHANGED mux /\ pc[t] \notin ClientSteps
    BY <1>8 DEF Connect, Finish, At, ClientSteps, ClientReturns
  <2>1. \/ \E v : Return(t, v)
        \/ \E l \in {"beg_check", "free_check", "end_check", "det_check"} : \E b : Call(t, l, b)
        \/ Goto(t, "ua_dbv")
    BY <1>8 DEF Connect, Finish
  <2> QED
    BY <2>0, <2>1, ReturnOut DEF Goto, Call
<1>9. CASE ClientCall(t)
  <2>1. PICK f \in Functions : pc' = [pc EXCEPT ![t] = CallLabel[f]]
    BY <1>9, ClientCallsAssumption DEF ClientCall
  <2>2. CallLabel[f] \in {"add_lock", "beg_check", "end_check", "det_check", "free_check",
                          "fin_check", "com_check", "ini_lock"}
    BY DEF Functions, CallLabel
  <2> QED
    BY <1>9, <2>1, <2>2 DEF ClientCall
<1>10. CASE ClientReturn(t)
  BY <1>10 DEF ClientReturn
<1> QED
  BY <1>1, <1>2, <1>3, <1>4, <1>5, <1>6, <1>7, <1>8, <1>9, <1>10 DEF Quiet

LEMMA HoldsMutexStep ==
  ASSUME MuxOK, ControlOK, HoldsMutex, NEW t \in Threads, Step(t) \/ ClientCall(t),
         OwnerChecked \/ pc[t] \notin UnlockSteps
  PROVE  HoldsMutex'
<1>0. \A m \in Reliable : pc[t] \in Section[m] => mux[m] = t
  BY DEF HoldsMutex
<1>1. CASE Quiet(t)
  BY <1>1, QuietOut, OutFrame DEF MuxKept
<1>2. CASE AddLock(t) \/ ReleaseLock(t)
  <2>1. PICK l \in DbvSection : Goto(t, l)
    BY <1>2 DEF AddLock, ReleaseLock, DbvSection
  <2>2. Lock(t, "dbv") /\ pc[t] \in LockCalls["dbv"]
    BY <1>2 DEF AddLock, ReleaseLock, At, LockCalls
  <2> QED
    BY <2>1, <2>2, LockKeeps, InFrame, Sections DEF Goto, Mutexes
<1>3. CASE EnvLock(t)
  BY <1>3, LockKeeps, InFrame, Sections DEF EnvLock, At, LockCalls, Goto, Mutexes, EnvSection
<1>4. CASE AddFind(t) \/ AddMark(t) \/ ReleaseClear(t)
  <2>1. pc[t] \in DbvSection /\ UNCHANGED mux
    BY <1>4 DEF AddFind, AddMark, ReleaseClear, At, DbvSection
  <2>2. PICK l \in DbvSection : Goto(t, l)
    BY <1>4 DEF AddFind, AddMark, ReleaseClear, DbvSection
  <2>3. ("dbv" \in Reliable => mux["dbv"] = t) /\ MuxKept(t)
    BY <1>0, <2>1, Sections DEF MuxKept, Mutexes
  <2> QED
    BY <2>1, <2>2, <2>3, InFrame, Sections DEF Goto, Mutexes
<1>5. CASE EnvCreate(t)
  <2>1. ("env" \in Reliable => mux["env"] = t) /\ MuxKept(t) /\ UNCHANGED mux
    BY <1>0, <1>5, Sections DEF EnvCreate, At, EnvSection, MuxKept, Mutexes
  <2> QED
    BY <1>5, <2>1, InFrame, Sections DEF EnvCreate, Goto, EnvSection, Mutexes
<1>6. CASE AddUnlock(t) \/ ReleaseUnlock(t) \/ EnvUnlock(t)
  <2>1. PICK m \in Mutexes : Unlock(t, m) /\ pc[t] \in Section[m]
    BY <1>6, Sections DEF AddUnlock, ReleaseUnlock, EnvUnlock, At, Mutexes, DbvSection, EnvSection
  <2>2. PICK l \in {"add_stmtv", "read_status", "att_svchp", "rel_free"} : Goto(t, l)
    BY <1>6 DEF AddUnlock, ReleaseUnlock, EnvUnlock
  <2> QED
    BY <1>0, <2>1, <2>2, UnlockKeeps, OutFrame DEF Goto, InSection, DbvSection, EnvSection, InitSection
<1>7. CASE AddFull(t)
  <2>1. MuxKept(t)
    BY <1>0, <1>7, UnlockKeeps, Sections DEF AddFull, At, Mutexes, DbvSection
  <2> QED
    BY <1>7, <2>1, ReturnOut, OutFrame DEF AddFull, At, ClientSteps, ClientReturns
<1>8. CASE InitAgain(t)
  <2>1. CASE At(t, "ini_lock") /\ Lock(t, "init") /\ Goto(t, "ini_test")
    BY <2>1, LockKeeps, InFrame, Sections DEF At, LockCalls, Goto, Mutexes, InitSection
  <2>2. CASE At(t, "ini_test") /\ Unlock(t, "init") /\ Return(t, "ok")
    <3>1. MuxKept(t)
      BY <1>0, <2>2, UnlockKeeps, Sections DEF At, Mutexes, InitSection
    <3> QED
      BY <2>2, <3>1, ReturnOut, OutFrame DEF At, ClientSteps, ClientReturns
  <2> QED
    BY <1>8, <2>1, <2>2 DEF InitAgain
<1>9. CASE UnlockAll(t)
  <2>1. PICK m \in Mutexes : Unlock(t, m)
    BY <1>9 DEF UnlockAll, UnlockAllStep, Mutexes
  <2>2. MuxKept(t) /\ pc[t] \notin ClientSteps
    BY <1>9, <2>1, UnlockKeeps
    DEF UnlockAll, UnlockAllStep, At, ClientSteps, ClientReturns, UnlockSteps
  <2>3. (\E v : Return(t, v)) \/ \E l \in {"ua_env", "ua_init"} : Goto(t, l)
    BY <1>9 DEF UnlockAll, UnlockAllStep
  <2> QED
    BY <2>2, <2>3, ReturnOut, OutFrame DEF Goto, InSection, DbvSection, EnvSection, InitSection
<1> QED
  BY <1>1, <1>2, <1>3, <1>4, <1>5, <1>6, <1>7, <1>8, <1>9
  DEF Step, Quiet, Add, Attach, Release, Api

LEMMA InitHoldsMutex == Init => HoldsMutex
BY DEF Init, HoldsMutex, Reliable, Section, Mutexes, DbvSection, EnvSection, InitSection

LEMMA InvariantHoldsMutex == ASSUME OwnerChecked PROVE Spec => []HoldsMutex
<1>1. IInv /\ HoldsMutex /\ [Next]_vars => HoldsMutex'
  <2>1. CASE UNCHANGED vars
    BY <2>1 DEF vars, thread, HoldsMutex
  <2>2. ASSUME IInv, HoldsMutex, NEW t \in Threads, Step(t) \/ ClientCall(t)
        PROVE  HoldsMutex'
    BY <2>2, HoldsMutexStep DEF IInv
  <2> QED
    BY <2>1, <2>2 DEF Next
<1> QED
  BY <1>1, InitHoldsMutex, InvariantIInv, PTL DEF Spec

(* With mutexes that ignore an unlock by a thread that does not hold them, *)
(* as those of Windows do, and with locks that do not time out, the        *)
(* critical sections of _db_add, _db_release, OCIEnvCreate and sqlo_init   *)
(* exclude each other whatever fails, UNLOCK_ALL included.                 *)
THEOREM MutualExclusion ==
  ASSUME OwnerChecked, Faults \intersect LockSteps = {}
  PROVE  Spec => []Exclusion
<1>1. Reliable = Mutexes
  BY DEF Reliable, LockCalls, LockSteps, Mutexes
<1>2. HoldsMutex => Exclusion
  BY <1>1 DEF HoldsMutex, Exclusion
<1> QED
  BY <1>2, InvariantHoldsMutex, PTL

-----------------------------------------------------------------------------
(* No mutex is kept.  Whatever fails or times out, and whoever may unlock  *)
(* what: a thread gets a mutex only in a step that ends in its section,    *)
(* and every step out of the section, or out of UNLOCK_ALL, gives it back. *)

\* What thread t does to the mutexes when it goes to label l.
MuxMoved(t, l) ==
  \A m \in Mutexes : mux'[m] \in {mux[m], NoThread, t} /\ (mux'[m] = t => l \in Section[m])

LEMMA MovedFrame ==
  ASSUME ControlOK, HeldInSection, NEW t \in Threads, NEW l,
         pc' = [pc EXCEPT ![t] = l], MuxMoved(t, l)
  PROVE  HeldInSection'
<1>1. pc'[t] = l /\ \A u \in Threads \ {t} : pc'[u] = pc[u]
  BY DEF ControlOK
<1>2. ASSUME NEW m \in Mutexes, NEW u \in Threads, mux'[m] = u
      PROVE  pc'[u] \in Section[m]
  <2>1. CASE u = t
    BY <1>1, <1>2, <2>1 DEF MuxMoved
  <2>2. CASE u # t
    <3>1. mux[m] = u
      BY <1>2, <2>2, ThreadAssumption DEF MuxMoved
    <3> QED
      BY <1>1, <2>2, <3>1 DEF HeldInSection
  <2> QED
    BY <2>1, <2>2
<1> QED
  BY <1>2 DEF HeldInSection, Section

\* A lock is taken outside the sections, for the section that it leads to.
LEMMA LockMoves ==
  ASSUME MuxOK, HeldInSection, NEW t \in Threads, NEW m \in Mutexes, Lock(t, m),
         pc[t] \notin InSection, NEW l \in Section[m]
  PROVE  MuxMoved(t, l)
<1>1. \A n \in Mutexes : mux[n] # t
  BY Sections DEF HeldInSection
<1> QED
  BY <1>1 DEF MuxOK, Lock, MuxMoved

\* An unlock, at a label where no other mutex can be held.
LEMMA UnlockMoves ==
  ASSUME MuxOK, HeldInSection, NEW t \in Threads, NEW m \in Mutexes, NEW l, Unlock(t, m),
         \A n \in Mutexes : n # m => pc[t] \notin Section[n]
  PROVE  MuxMoved(t, l)
<1>1. \A n \in Mutexes : n # m => mux[n] # t
  BY DEF HeldInSection
<1>2. \E h \in {mux[m], NoThread} : mux' = [mux EXCEPT ![m] = h] /\ h # t
  BY ThreadAssumption DEF Unlock
<1> QED
  BY <1>1, <1>2 DEF MuxOK, MuxMoved

\* A step that leaves the mutexes, between sections or inside one.
LEMMA SameMoves ==
  ASSUME HeldInSection, NEW t \in Threads, UNCHANGED mux, NEW l,
         \A m \in Mutexes : pc[t] \in Section[m] => l \in Section[m]
  PROVE  MuxMoved(t, l)
BY DEF HeldInSection, MuxMoved

LEMMA QuietStart ==
  ASSUME NEW t \in Threads, Quiet(t)
  PROVE  pc[t] \notin InSection
<1> USE DEF At, InSection, DbvSection, EnvSection, InitSection
<1>1. CASE AddStmtv(t) \/ AttachSplit(t) \/ AttachCall(t) \/ AttachDone(t)
           \/ ReleaseFree(t) \/ ReadStatus(t)
  BY <1>1 DEF AddStmtv, AttachSplit, AttachCall, AttachCalls, AttachDone, ReleaseFree, ReadStatus
<1>2. CASE Session(t)
  BY <1>2 DEF Session, BeginCheck, BeginCall, EndCheck, EndCall
<1>3. CASE Detach(t)
  BY <1>3 DEF Detach, DetachCheck, DetachEnded, DetachCall, FreeCheck, FreeCall, CommitCheck,
     CommitCall
<1>4. CASE Connect(t) \/ Finish(t)
  BY <1>4 DEF Connect, Finish
<1>5. CASE ClientCall(t) \/ ClientReturn(t)
  BY <1>5 DEF ClientCall, ClientReturn, ClientReturns
<1> QED
  BY <1>1, <1>2, <1>3, <1>4, <1>5 DEF Quiet

LEMMA NoLockKeptStep ==
  ASSUME MuxOK, ControlOK, HeldInSection, NEW t \in Threads, Step(t) \/ ClientCall(t)
  PROVE  HeldInSection'
<1>1. CASE Quiet(t)
  <2>1. PICK l : pc' = [pc EXCEPT ![t] = l]
    BY <1>1, QuietOut
  <2>2. UNCHANGED mux /\ \A m \in Mutexes : pc[t] \notin Section[m]
    BY <1>1, QuietOut, QuietStart, Sections
  <2> QED
    BY <2>1, <2>2, SameMoves, MovedFrame
<1>2. CASE AddLock(t) \/ ReleaseLock(t)
  <2>1. PICK l \in DbvSection : Goto(t, l)
    BY <1>2 DEF AddLock, ReleaseLock, DbvSection
  <2>2. Lock(t, "dbv") /\ pc[t] \notin InSection
    BY <1>2 DEF AddLock, ReleaseLock, At, InSection, DbvSection, EnvSection, InitSection
  <2> QED
    BY <2>1, <2>2, LockMoves, MovedFrame, Sections DEF Goto, Mutexes
<1>3. CASE EnvLock(t)
  <2>1. Lock(t, "env") /\ Goto(t, "env_create") /\ pc[t] \notin InSection
    BY <1>3 DEF EnvLock, At, InSection, DbvSection, EnvSection, InitSection
  <2>2. "env_create" \in Section["env"]
    BY Sections DEF EnvSection
  <2> QED
    BY <2>1, <2>2, LockMoves, MovedFrame DEF Goto, Mutexes
<1>4. CASE AddFind(t) \/ AddMark(t) \/ ReleaseClear(t)
  <2>1. pc[t] \in DbvSection /\ UNCHANGED mux
    BY <1>4 DEF AddFind, AddMark, ReleaseClear, At, DbvSection
  <2>2. PICK l \in DbvSection : Goto(t, l)
    BY <1>4 DEF AddFind, AddMark, ReleaseClear, DbvSection
  <2>3. \A m \in Mutexes : pc[t] \in Section[m] => l \in Section[m]
    BY <2>1, <2>2, Sections DEF Mutexes
  <2> QED
    BY <2>1, <2>2, <2>3, SameMoves, MovedFrame DEF Goto
<1>5. CASE EnvCreate(t)
  <2>1. pc[t] \in EnvSection /\ UNCHANGED mux /\ Goto(t, "env_unlock") /\ "env_unlock" \in EnvSection
    BY <1>5 DEF EnvCreate, At, EnvSection
  <2>2. \A m \in Mutexes : pc[t] \in Section[m] => "env_unlock" \in Section[m]
    BY <2>1, Sections DEF Mutexes
  <2> QED
    BY <2>1, <2>2, SameMoves, MovedFrame DEF Goto
<1>6. CASE AddUnlock(t) \/ ReleaseUnlock(t) \/ EnvUnlock(t)
  <2>1. PICK m \in Mutexes : Unlock(t, m) /\ pc[t] \in Section[m]
    BY <1>6, Sections DEF AddUnlock, ReleaseUnlock, EnvUnlock, At, Mutexes, DbvSection, EnvSection
  <2>2. PICK l \in Labels : Goto(t, l)
    BY <1>6 DEF AddUnlock, ReleaseUnlock, EnvUnlock, Labels, AttachCalls
  <2>3. \A n \in Mutexes : n # m => pc[t] \notin Section[n]
    BY <2>1, Sections
  <2>4. MuxMoved(t, l)
    BY <2>1, <2>3, UnlockMoves
  <2> QED
    BY <2>2, <2>4, MovedFrame DEF Goto
<1>7. CASE AddFull(t)
  <2>1. Unlock(t, "dbv") /\ pc[t] \in DbvSection /\ "dbv" \in Mutexes
    BY <1>7 DEF AddFull, At, DbvSection, Mutexes
  <2>2. \A n \in Mutexes : n # "dbv" => pc[t] \notin Section[n]
    BY <2>1, Sections
  <2> QED
    <3>1. MuxMoved(t, Head(stack[t]))
      BY <2>1, <2>2, UnlockMoves
    <3> QED
      BY <1>7, <3>1, MovedFrame DEF AddFull, Return
<1>8. CASE InitAgain(t)
  <2>1. CASE At(t, "ini_lock") /\ Lock(t, "init") /\ Goto(t, "ini_test")
    <3>1. pc[t] \notin InSection
      BY <2>1 DEF At, InSection, DbvSection, EnvSection, InitSection
    <3>2. "ini_test" \in Section["init"]
      BY Sections DEF InitSection
    <3> QED
      BY <2>1, <3>1, <3>2, LockMoves, MovedFrame DEF Goto, Mutexes
  <2>2. CASE At(t, "ini_test") /\ Unlock(t, "init") /\ Return(t, "ok")
    <3>1. pc[t] \in InitSection /\ "init" \in Mutexes
      BY <2>2 DEF At, InitSection, Mutexes
    <3>2. \A n \in Mutexes : n # "init" => pc[t] \notin Section[n]
      BY <3>1, Sections
    <3> QED
      <4>1. MuxMoved(t, Head(stack[t]))
        BY <2>2, <3>1, <3>2, UnlockMoves
      <4> QED
        BY <2>2, <4>1, MovedFrame DEF Return
  <2> QED
    BY <1>8, <2>1, <2>2 DEF InitAgain
<1>9. CASE UnlockAll(t)
  <2>1. PICK m \in Mutexes : Unlock(t, m)
    BY <1>9 DEF UnlockAll, UnlockAllStep, Mutexes
  <2>2. pc[t] \notin InSection
    BY <1>9 DEF UnlockAll, UnlockAllStep, At, InSection, DbvSection, EnvSection, InitSection
  <2>3. PICK l : pc' = [pc EXCEPT ![t] = l]
    BY <1>9 DEF UnlockAll, UnlockAllStep, Goto, Return
  <2>4. \A n \in Mutexes : pc[t] \notin Section[n]
    BY <2>2, Sections
  <2> QED
    <3>1. MuxMoved(t, l)
      BY <2>1, <2>4, UnlockMoves
    <3> QED
      BY <2>3, <3>1, MovedFrame
<1> QED
  BY <1>1, <1>2, <1>3, <1>4, <1>5, <1>6, <1>7, <1>8, <1>9
  DEF Step, Quiet, Add, Attach, Release, Api

LEMMA NoLockKeptInit == Init => HeldInSection
BY ThreadAssumption DEF Init, HeldInSection

(* A thread that has left a section has given back its mutex: for any      *)
(* threads, any failures of OCI and of allocations, with a full table, with *)
(* locks that time out, and with either kind of mutex.                     *)
THEOREM NoLockKept == Spec => []HeldInSection
<1>1. IInv /\ HeldInSection /\ [Next]_vars => HeldInSection'
  <2>1. CASE UNCHANGED vars
    BY <2>1 DEF vars, thread, HeldInSection
  <2>2. ASSUME IInv, HeldInSection, NEW t \in Threads, Step(t) \/ ClientCall(t)
        PROVE  HeldInSection'
    BY <2>2, NoLockKeptStep DEF IInv
  <2> QED
    BY <2>1, <2>2 DEF Next
<1> QED
  BY <1>1, NoLockKeptInit, InvariantIInv, PTL DEF Spec
=============================================================================
