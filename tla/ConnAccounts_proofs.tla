-------------------------- MODULE ConnAccounts_proofs --------------------------
(***************************************************************************)
(* Proofs about ConnTable, continued: whose slot is whose.  Accounts says  *)
(* what a thread holds at each step of each function; from it follow that  *)
(* no function works on another thread's connection, that no slot is lost, *)
(* that the returned values are true, and that the table implements the    *)
(* pool of handles.                                                        *)
(***************************************************************************)
EXTENDS ConnTable_proofs, FiniteSetTheorems

(* What a step of thread t leaves alone: the other threads, and whatever   *)
(* belongs to them.                                                        *)
Aside(t) ==
  \A u \in Threads \ {t} :
    /\ pc'[u] = pc[u] /\ stack'[u] = stack[u] /\ rv'[u] = rv[u]
    /\ dbh'[u] = dbh[u] /\ view'[u] = view[u]
    /\ \A s \in Slots : owner'[s] = u <=> owner[s] = u
    /\ \A s \in Slots : owner[s] = u =>
         attached'[s] = attached[s] /\ session'[s] = session[s] /\ res'[s] = res[s]
    /\ pc[u] = "add_mark" => owner'[dbh[u]] = owner[dbh[u]]

(* What another thread holds is not disturbed.                             *)
LEMMA OthersHeld ==
  ASSUME IInv, Accounts, Orderly, StatusTrue', NEW t \in Threads, NEW u \in Threads \ {t},
         Aside(t)
  PROVE  Held(u)'
<1>1. ~Failing /\ ~Failing'
  BY DEF Orderly, Alone, Failing
<1>2. /\ pc'[u] = pc[u] /\ stack'[u] = stack[u] /\ rv'[u] = rv[u]
      /\ dbh'[u] = dbh[u] /\ view'[u] = view[u]
  BY DEF Aside
<1>3. /\ HoldsNone(u) => HoldsNone(u)'
      /\ Nothing(u) => Nothing(u)'
      /\ Owns(u) => Owns(u)'
      /\ Owns(u) => res'[dbh[u]] = res[dbh[u]]
      /\ \A h : Bare(u, h) => Bare(u, h)'
      /\ Joined(u) => Joined(u)'
      /\ LoggedIn(u) => LoggedIn(u)'
  BY <1>1, <1>2 DEF Aside, HoldsNone, Nothing, Owns, Bare, Joined, LoggedIn
<1>4. /\ dbh[u] \in Slots => status[dbh[u]] = "ok" /\ status'[dbh[u]] = "ok"
      /\ pc[u] \in NeedsSlot => dbh[u] \in Slots
  BY <1>1 DEF Accounts, TableRight, StatusTrue, IInv, HandleOK
<1>5. Held(u)
  BY DEF Accounts
<1>6. HeldAttach(u)'
  BY <1>2, <1>3, <1>4, <1>5 DEF Aside, Held, HeldAttach, NeedsSlot, Using, AttachCalls, Bare, Owns
<1>7. HeldRelease(u)'
  BY <1>1, <1>2, <1>3, <1>4, <1>5 DEF Held, HeldRelease, NeedsSlot, Using
<1>8. HeldSession(u)'
  BY <1>1, <1>2, <1>3, <1>5 DEF Held, HeldSession
<1>9. HeldUnlock(u)' /\ HeldReturn(u)' /\ HeldClient(u)'
  BY <1>1, <1>2, <1>3, <1>5 DEF Held, HeldUnlock, HeldReturn, HeldClient
<1> QED
  BY <1>6, <1>7, <1>8, <1>9 DEF Held

(* The parts of a step's proof put together.                               *)
LEMMA AccountsFrame ==
  ASSUME IInv, Accounts, Orderly, NEW t \in Threads, Aside(t),
         TableRight', Held(t)'
  PROVE  Accounts'
BY OthersHeld DEF Accounts, TableRight, TableRight

(* The others' local state, in the words of the control operators.         *)
Apart(t) ==
  \A u \in Threads \ {t} :
    pc'[u] = pc[u] /\ stack'[u] = stack[u] /\ rv'[u] = rv[u]

LEMMA GotoApart ==
  ASSUME ControlOK, NEW t \in Threads, NEW l, Goto(t, l)
  PROVE  Apart(t) /\ pc'[t] = l /\ UNCHANGED <<stack, rv>>
BY DEF ControlOK, Goto, Apart

LEMMA CallApart ==
  ASSUME ControlOK, NEW t \in Threads, NEW l, NEW b, Call(t, l, b)
  PROVE  Apart(t) /\ pc'[t] = l /\ stack'[t] = <<b>> \o stack[t] /\ UNCHANGED rv
BY DEF ControlOK, Call, Apart

LEMMA ReturnApart ==
  ASSUME ControlOK, NEW t \in Threads, NEW v, Return(t, v)
  PROVE  /\ Apart(t) /\ rv'[t] = v
         /\ pc'[t] = Head(stack[t]) /\ stack'[t] = Tail(stack[t])
BY DEF ControlOK, Return, Apart

(* A step that leaves the table as it is, and changes the handle at most   *)
(* of a thread that holds nothing.                                         *)
LEMMA TableKept ==
  ASSUME IInv, Accounts, NEW t \in Threads, Apart(t), UNCHANGED <<table, view>>,
         \A u \in Threads \ {t} : dbh'[u] = dbh[u], dbh'[t] = dbh[t] \/ HoldsNone(t)
  PROVE  Aside(t) /\ TableRight'
<1>1. Aside(t)
  BY DEF Aside, Apart, table
<1>2. SlotsAccounted'
  BY DEF Accounts, TableRight, SlotsAccounted, HoldsNone, table
<1>3. FreeIsClean' /\ StatusTrue' /\ UsedHasBody'
  BY DEF Accounts, TableRight, FreeIsClean, StatusTrue, UsedHasBody, Failing, table
<1> QED
  BY <1>1, <1>2, <1>3 DEF TableRight

LEMMA QuietStep ==
  ASSUME IInv, Accounts, Orderly, NEW t \in Threads, Apart(t), UNCHANGED <<table, dbh, view>>,
         Held(t)'
  PROVE  Accounts'
BY TableKept, AccountsFrame

(* What a thread holds, it holds after a step that changes neither the     *)
(* table nor its handle.                                                   *)
LEMMA SameHold ==
  ASSUME NEW t \in Threads, UNCHANGED <<table, dbh, view>>
  PROVE  /\ HoldsNone(t)' <=> HoldsNone(t)
         /\ Nothing(t)' <=> Nothing(t)
         /\ Owns(t)' <=> Owns(t)
         /\ \A h : Bare(t, h)' <=> Bare(t, h)
         /\ Joined(t)' <=> Joined(t)
         /\ LoggedIn(t)' <=> LoggedIn(t)
         /\ status' = status /\ res' = res /\ owner' = owner /\ dbh' = dbh /\ view' = view
BY DEF table, HoldsNone, Nothing, Failing, Owns, Bare, Joined, LoggedIn

(* Where the functions return to.                                          *)
LEMMA Tops ==
  /\ \A st \in AttachStacks : /\ Head(st) \in {"c_attach", "con_attached"}
                              /\ Head(st) = "c_attach" => st = <<"c_attach">>
  /\ \A st \in BeginStacks : /\ Head(st) \in {"c_begin", "con_begun"}
                             /\ Head(st) = "con_begun" => st = <<"con_begun", "c_connect">>
  /\ \A st \in EndStacks : Head(st) \in {"c_end", "fin_ended", "det_ended"}
  /\ \A st \in DetachStacks : /\ Head(st) \in {"c_detach", "fin_detached"}
                              /\ Head(st) = "c_detach" => st = <<"c_detach">>
  /\ \A st \in FreeStacks : /\ Head(st) \in {"c_free", "con_freed", "fin_freed"}
                            /\ Head(st) = "con_freed" => st = <<"con_freed", "c_connect">>
                            /\ Head(st) = "fin_freed" => st = <<"fin_freed", "c_finish">>
  /\ Head(<<"c_commit">>) = "c_commit" /\ Head(<<"c_init">>) = "c_init"
  /\ Head(InConnect) = "c_connect" /\ Head(InFinish) = "c_finish"
  /\ Head(<<"con_freed", "c_connect">>) = "con_freed"
  /\ Head(<<"fin_freed", "c_finish">>) = "fin_freed" /\ Head(<<"c_free">>) = "c_free"
  /\ Head(<<"con_begun", "c_connect">>) = "con_begun"
BY HeadsAndTails DEF AttachStacks, BeginStacks, EndStacks, NestedEnd, DetachStacks, FreeStacks,
   InConnect, InFinish

-----------------------------------------------------------------------------
(* _db_add.                                                              *)

(* The choice of a slot and its used flag are one step to the others.      *)
TableExclusion ==
  \A t, u \in Threads : pc[t] \in DbvSection /\ pc[u] \in DbvSection => t = u

LEMMA AddAccounts ==
  ASSUME IInv, Accounts, Orderly, TableExclusion, NEW t \in Threads, Add(t)
  PROVE  Accounts'
<1>0. ControlOK /\ HandleOK /\ DataOK /\ Held(t) /\ HeldAttach(t)
  BY DEF IInv, Accounts, Held
<1> USE DEF Held, HeldAttach, HeldRelease, HeldSession, HeldUnlock, HeldReturn, HeldClient
<1> USE DEF AttachCalls, UnlockSteps
<1>1. CASE AddLock(t)
  <2>1. Apart(t) /\ pc'[t] = "add_find" /\ UNCHANGED <<stack, table, view>>
    BY <1>0, <1>1, GotoApart DEF AddLock
  <2>2. HoldsNone(t) /\ HoldsNone(t)'
    BY <1>0, <1>1, <2>1 DEF AddLock, At, HoldsNone, table
  <2>3. dbh'[t] = NoSlot /\ \A u \in Threads \ {t} : dbh'[u] = dbh[u]
    BY <1>0, <1>1 DEF AddLock, DataOK
  <2>4. Held(t)'
    BY <1>0, <1>1, <2>1, <2>2, <2>3 DEF AddLock, At, AttachSteps
  <2> QED
    BY <2>1, <2>2, <2>3, <2>4, TableKept, AccountsFrame
<1>2. CASE AddFind(t)
  <2>1. Apart(t) /\ UNCHANGED <<stack, table, view>>
    BY <1>0, <1>2, GotoApart DEF AddFind
  <2>2. HoldsNone(t) /\ HoldsNone(t)' /\ dbh[t] = NoSlot
    BY <1>0, <1>2, <2>1 DEF AddFind, At, HoldsNone, table
  <2>3. \A u \in Threads \ {t} : dbh'[u] = dbh[u]
    BY <1>0, <1>2 DEF AddFind, DataOK
  <2>4. CASE FreeSlots \union NullSlots # {}
    <3>1. pc'[t] = "add_mark"
      BY <1>0, <1>2, <2>4, GotoApart DEF AddFind
    <3>2. dbh'[t] \in FreeSlots \union NullSlots
      <4>1. FreeSlots \subseteq Slots /\ NullSlots \subseteq Slots
        BY DEF FreeSlots, NullSlots
      <4>2. dbh'[t] = IF FreeSlots # {} THEN First(FreeSlots) ELSE First(NullSlots)
        BY <1>0, <1>2, <2>4 DEF AddFind, DataOK
      <4> QED
        BY <2>4, <4>1, <4>2, FirstIn
    <3>3. owner'[dbh'[t]] = NoThread
      BY <3>2, <2>1 DEF FreeSlots, NullSlots, Accounts, TableRight, SlotsAccounted, UsedHasBody, table
    <3>4. Held(t)'
      BY <1>0, <1>2, <2>1, <2>2, <3>1, <3>3 DEF AddFind, At, AttachSteps
    <3> QED
      BY <2>1, <2>2, <2>3, <3>4, TableKept, AccountsFrame
  <2>5. CASE FreeSlots \union NullSlots = {}
    <3>1. pc'[t] = "add_full" /\ UNCHANGED dbh
      BY <1>0, <1>2, <2>5, GotoApart DEF AddFind
    <3>2. Held(t)'
      BY <1>0, <1>2, <2>1, <2>2, <3>1 DEF AddFind, At, AttachSteps
    <3> QED
      BY <2>1, <2>2, <2>3, <3>2, TableKept, AccountsFrame
  <2> QED
    BY <2>4, <2>5
<1>3. CASE AddMark(t)
  <2>1. HoldsNone(t) /\ owner[dbh[t]] = NoThread /\ dbh[t] \in Slots /\ UNCHANGED view
    BY <1>0, <1>3 DEF AddMark, At, HandleOK, NeedsSlot
  <2>2. Apart(t) /\ UNCHANGED stack
    BY <1>0, <1>3, GotoApart DEF AddMark
  <2>3. \A u \in Threads \ {t} : pc[u] # "add_mark"
    BY <1>3 DEF AddMark, At, TableExclusion, DbvSection
  <2>4. CASE Goto(t, "add_unlock")
    <3>1. pc'[t] = "add_unlock"
      BY <1>0, <2>4, GotoApart
    <3>2. /\ body'  = [body EXCEPT ![dbh[t]] = IF @ = "null" THEN "struct" ELSE @]
          /\ used'  = [used EXCEPT ![dbh[t]] = TRUE]
          /\ owner' = [owner EXCEPT ![dbh[t]] = t]
          /\ UNCHANGED <<dbh, attached, session, status, res>>
      BY <1>0, <1>3, <3>1 DEF AddMark, Goto, ControlOK
    <3>3. Aside(t)
      BY <1>0, <2>1, <2>2, <2>3, <3>2, ThreadAssumption DEF Aside, Apart, DataOK
    <3>4. SlotsAccounted'
      BY <1>0, <2>1, <3>2, ThreadAssumption
      DEF Accounts, TableRight, SlotsAccounted, DataOK, HoldsNone
    <3>5. FreeIsClean' /\ StatusTrue' /\ UsedHasBody'
      BY <1>0, <2>1, <3>2, ThreadAssumption
      DEF Accounts, TableRight, FreeIsClean, StatusTrue, UsedHasBody, Failing, DataOK
    <3>6. Bare(t, {})'
      BY <1>0, <2>1, <3>2 DEF Accounts, TableRight, FreeIsClean, Bare, Owns, DataOK
    <3>7. Held(t)'
      BY <1>0, <1>3, <2>1, <2>2, <3>1, <3>6 DEF AddMark, At, AttachSteps
    <3> QED
      BY <3>3, <3>4, <3>5, <3>7, AccountsFrame DEF TableRight
  <2>5. CASE Goto(t, "add_full")
    <3>1. pc'[t] = "add_full"
      BY <1>0, <2>5, GotoApart
    <3>2. UNCHANGED table /\ dbh' = [dbh EXCEPT ![t] = NoSlot]
      BY <1>0, <1>3, <3>1 DEF AddMark, Goto, ControlOK, table
    <3>3. HoldsNone(t)' /\ dbh'[t] = NoSlot /\ \A u \in Threads \ {t} : dbh'[u] = dbh[u]
      BY <1>0, <2>1, <3>2 DEF HoldsNone, table, DataOK
    <3>4. Held(t)'
      BY <1>0, <1>3, <2>2, <3>1, <3>3 DEF AddMark, At, AttachSteps
    <3> QED
      BY <2>1, <2>2, <3>2, <3>3, <3>4, TableKept, AccountsFrame
  <2> QED
    BY <1>3, <2>4, <2>5 DEF AddMark
<1>4. CASE AddUnlock(t)
  <2>1. Apart(t) /\ pc'[t] = "add_stmtv" /\ UNCHANGED <<stack, table, dbh, view>>
    BY <1>0, <1>4, GotoApart DEF AddUnlock
  <2>2. Held(t)'
    BY <1>0, <1>4, <2>1, SameHold DEF AddUnlock, At, AttachSteps
  <2> QED
    BY <2>1, <2>2, QuietStep
<1>5. CASE AddFull(t)
  <2>1. /\ Apart(t) /\ rv'[t] = "fail" /\ pc'[t] = Head(stack[t])
        /\ UNCHANGED <<table, dbh, view>>
    BY <1>0, <1>5, ReturnApart DEF AddFull
  <2>2. pc'[t] \in {"c_attach", "con_attached"}
    BY <1>0, <1>5, <2>1, AttachStack, Tops DEF AddFull, At, AttachSteps
  <2>3. Nothing(t)' /\ HoldsNone(t)'
    BY <1>0, <1>5, <2>1, SameHold DEF AddFull, At, Nothing
  <2>4. Held(t)'
    BY <2>1, <2>2, <2>3 DEF AttachSteps, ReleaseSteps
  <2> QED
    BY <2>1, <2>4, QuietStep
<1>6. CASE AddStmtv(t)
  <2>1. /\ Goto(t, "att_split") /\ body' = [body EXCEPT ![dbh[t]] = "full"]
        /\ UNCHANGED <<used, attached, session, status, res, owner, dbh, view>>
    BY <1>6 DEF AddStmtv, Orderly
  <2>2. Apart(t) /\ pc'[t] = "att_split" /\ UNCHANGED stack
    BY <1>0, <2>1, GotoApart
  <2>3. Aside(t)
    BY <2>1, <2>2 DEF Aside, Apart
  <2>4. TableRight'
    BY <1>0, <2>1
    DEF Accounts, TableRight, SlotsAccounted, FreeIsClean, StatusTrue, UsedHasBody, Failing, DataOK
  <2>5. Bare(t, {})'
    BY <1>0, <1>6, <2>1 DEF AddStmtv, At, Bare, Owns
  <2>6. Held(t)'
    BY <1>0, <1>6, <2>2, <2>5 DEF AddStmtv, At, AttachSteps
  <2> QED
    BY <2>3, <2>4, <2>6, AccountsFrame
<1> QED
  BY <1>1, <1>2, <1>3, <1>4, <1>5, <1>6 DEF Add
-----------------------------------------------------------------------------
(* A step that writes only the thread's own slot.                          *)
LEMMA OwnSlot ==
  ASSUME IInv, Accounts, NEW t \in Threads, Apart(t), Owns(t),
         UNCHANGED <<used, owner, dbh, view>>,
         \A s \in Slots \ {dbh[t]} :
           attached'[s] = attached[s] /\ session'[s] = session[s] /\ res'[s] = res[s],
         body' = body, StatusTrue'
  PROVE  Aside(t) /\ TableRight' /\ Owns(t)'
<1>1. Aside(t)
  BY ThreadAssumption DEF Aside, Apart, Owns
<1>2. SlotsAccounted' /\ UsedHasBody'
  BY DEF Accounts, TableRight, SlotsAccounted, UsedHasBody
<1>3. FreeIsClean'
  BY ThreadAssumption DEF Accounts, TableRight, FreeIsClean, Owns
<1> QED
  BY <1>1, <1>2, <1>3 DEF TableRight, Owns

(* What an OCI call leaves in the status: ok, or one of the failures.      *)
LEMMA StatusAfter ==
  ASSUME IInv, Accounts, NEW t \in Threads, NEW out \in Outcomes(t), pc[t] \in StatusFaults,
         NEW s \in Slots, status' = [status EXCEPT ![s] = out]
  PROVE  /\ StatusTrue' /\ status'[s] = out /\ out \in {"ok", "fail"}
         /\ out = "fail" => Failing
BY DEF IInv, DataOK, Accounts, TableRight, StatusTrue, Outcomes, Failing

LEMMA AttachAccounts ==
  ASSUME IInv, Accounts, Orderly, NEW t \in Threads, Attach(t)
  PROVE  Accounts'
<1>0. ControlOK /\ HandleOK /\ DataOK /\ Held(t) /\ HeldAttach(t) /\ TableRight
  BY DEF IInv, Accounts, Held
<1> USE DEF Held, HeldAttach, HeldRelease, HeldSession, HeldUnlock, HeldReturn, HeldClient
<1> USE DEF AttachCalls, UnlockSteps
<1>1. CASE AttachSplit(t)
  <2>1. /\ Goto(t, "env_lock") /\ status' = [status EXCEPT ![dbh[t]] = "ok"]
        /\ UNCHANGED <<body, used, attached, session, res, owner, dbh, view>>
    BY <1>1 DEF AttachSplit, Orderly
  <2>2. Apart(t) /\ pc'[t] = "env_lock" /\ UNCHANGED stack
    BY <1>0, <2>1, GotoApart
  <2>3. Bare(t, {}) /\ Owns(t)
    BY <1>0, <1>1 DEF AttachSplit, At, Bare
  <2>4. StatusTrue'
    BY <1>0, <2>1 DEF TableRight, StatusTrue, Failing, DataOK
  <2>5. Bare(t, {})'
    BY <2>1, <2>3 DEF Bare, Owns
  <2>6. Held(t)'
    BY <1>0, <1>1, <2>2, <2>5 DEF AttachSplit, At, AttachSteps
  <2> QED
    BY <2>1, <2>2, <2>3, <2>4, <2>6, OwnSlot, AccountsFrame
<1>2. CASE EnvLock(t)
  <2>1. Apart(t) /\ pc'[t] = "env_create" /\ UNCHANGED <<stack, table, dbh, view>>
    BY <1>0, <1>2, GotoApart DEF EnvLock
  <2>2. Held(t)'
    BY <1>0, <1>2, <2>1, SameHold DEF EnvLock, At, AttachSteps
  <2> QED
    BY <2>1, <2>2, QuietStep
<1>3. CASE EnvCreate(t)
  <2>1. PICK out \in Outcomes(t) :
          /\ status' = [status EXCEPT ![dbh[t]] = out]
          /\ res' = [res EXCEPT ![dbh[t]] = IF out = "ok" THEN @ \union {"envhp"} ELSE @]
    BY <1>3 DEF EnvCreate
  <2>2. Apart(t) /\ pc'[t] = "env_unlock" /\ UNCHANGED stack
    BY <1>0, <1>3, GotoApart DEF EnvCreate
  <2>3. Bare(t, {}) /\ Owns(t) /\ dbh[t] \in Slots
    BY <1>0, <1>3 DEF EnvCreate, At, Bare, Owns
  <2>4. StatusTrue' /\ status'[dbh[t]] = out
    BY <1>3, <2>1, <2>3, StatusAfter DEF EnvCreate, At, StatusFaults
  <2>5. UNCHANGED <<body, used, attached, session, owner, dbh, view>>
    BY <1>3 DEF EnvCreate
  <2>6. Bare(t, res[dbh[t]])' /\ (status'[dbh'[t]] = "ok" => res'[dbh'[t]] = {"envhp"})
    BY <1>0, <2>1, <2>3, <2>4, <2>5 DEF Bare, Owns, DataOK
  <2>7. Held(t)'
    BY <1>0, <1>3, <2>2, <2>6 DEF EnvCreate, At, AttachSteps
  <2>8. \A s \in Slots \ {dbh[t]} : res'[s] = res[s]
    BY <1>0, <2>1 DEF DataOK
  <2> QED
    BY <2>2, <2>3, <2>4, <2>5, <2>7, <2>8, OwnSlot, AccountsFrame
<1>4. CASE EnvUnlock(t)
  <2>1. /\ Apart(t) /\ UNCHANGED <<stack, table, dbh, view>>
        /\ pc'[t] = IF status[dbh[t]] = "ok" THEN "att_svchp" ELSE "rel_free"
    BY <1>0, <1>4, GotoApart DEF EnvUnlock
  <2>2. Bare(t, res[dbh[t]]) /\ (status[dbh[t]] = "ok" => res[dbh[t]] = {"envhp"})
    BY <1>0, <1>4 DEF EnvUnlock, At
  <2>3. status[dbh[t]] # "ok" => Failing /\ Owns(t)
    BY <1>0, <2>2 DEF TableRight, StatusTrue, Bare, Owns
  <2>4. CASE status[dbh[t]] = "ok"
    <3>1. pc'[t] = "att_svchp" /\ Got[pc'[t]] = res[dbh[t]]
      BY <2>1, <2>2, <2>4 DEF Got
    <3>2. Bare(t, Got[pc[t]])'
      BY <2>1, <2>2, <3>1 DEF Bare, Owns, table
    <3> QED
      BY <1>0, <1>4, <2>1, <3>1, <3>2, QuietStep DEF EnvUnlock, At, AttachSteps
  <2>5. CASE status[dbh[t]] # "ok"
    <3>1. pc'[t] = "rel_free" /\ Owns(t)' /\ Failing'
      BY <2>1, <2>3, <2>5, SameHold DEF Failing
    <3> QED
      BY <1>0, <1>4, <2>1, <3>1, QuietStep DEF EnvUnlock, At, AttachSteps
  <2> QED
    BY <2>4, <2>5
<1>5. CASE AttachCall(t)
  <2>1. PICK out \in Outcomes(t) :
          /\ status' = [status EXCEPT ![dbh[t]] = out]
          /\ res' = [res EXCEPT ![dbh[t]] =
                       IF out = "ok" THEN @ \union AttachGets[pc[t]] ELSE @]
          /\ Goto(t, IF out = "ok" THEN AttachNext[pc[t]] ELSE "rel_free")
    BY <1>5 DEF AttachCall
  <2>2. /\ Apart(t) /\ UNCHANGED stack
        /\ pc'[t] = IF out = "ok" THEN AttachNext[pc[t]] ELSE "rel_free"
    BY <1>0, <2>1, GotoApart
  <2>3. pc[t] \in AttachCalls /\ UNCHANGED <<body, used, attached, session, owner, dbh, view>>
    BY <1>5 DEF AttachCall
  <2>4. Bare(t, Got[pc[t]]) /\ Owns(t) /\ dbh[t] \in Slots
    BY <1>0, <2>3 DEF Bare, Owns
  <2>5. /\ StatusTrue' /\ status'[dbh[t]] = out /\ out \in {"ok", "fail"}
        /\ out = "fail" => Failing
    BY <2>1, <2>3, <2>4, StatusAfter DEF StatusFaults
  <2>6. \A s \in Slots \ {dbh[t]} : res'[s] = res[s]
    BY <1>0, <2>1 DEF DataOK
  <2>7. CASE out = "ok"
    <3>1. Got[pc[t]] \union AttachGets[pc[t]] = Got[AttachNext[pc[t]]]
      BY <2>3 DEF Got, AttachGets, AttachNext, OciHandles
    <3>2. res'[dbh[t]] = Got[AttachNext[pc[t]]]
      BY <1>0, <2>1, <2>4, <2>7, <3>1 DEF Bare, DataOK
    <3>3. AttachNext[pc[t]] \in (AttachCalls \ {"att_svchp"}) \union {"att_done"}
      BY <2>3 DEF AttachNext
    <3>4. pc'[t] = AttachNext[pc[t]]
      BY <2>2, <2>7
    <3>6. res'[dbh'[t]] = Got[pc'[t]]
      BY <2>3, <3>2, <3>4
    <3>7. Bare(t, Got[pc[t]])'
      BY <2>3, <2>4, <3>6 DEF Bare, Owns
    <3>5. Held(t)'
      BY <1>0, <2>2, <2>3, <2>5, <2>7, <3>3, <3>4, <3>7 DEF AttachSteps
    <3> QED
      BY <2>2, <2>3, <2>4, <2>5, <2>6, <3>5, OwnSlot, AccountsFrame
  <2>8. CASE out = "fail"
    <3>1. Owns(t)'
      BY <2>3, <2>4 DEF Owns
    <3>2. Held(t)'
      BY <1>0, <2>2, <2>3, <2>5, <2>8, <3>1 DEF AttachSteps, Failing
    <3> QED
      BY <2>2, <2>3, <2>4, <2>5, <2>6, <3>2, OwnSlot, AccountsFrame
  <2> QED
    BY <2>5, <2>7, <2>8
<1>6. CASE AttachDone(t)
  <2>1. /\ used' = [used EXCEPT ![dbh[t]] = TRUE]
        /\ attached' = [attached EXCEPT ![dbh[t]] = TRUE]
        /\ UNCHANGED <<body, session, status, res, owner, dbh, view>>
    BY <1>6 DEF AttachDone
  <2>2. Apart(t) /\ pc'[t] = "read_status" /\ UNCHANGED stack
    BY <1>0, <1>6, GotoApart DEF AttachDone
  <2>3. Bare(t, OciHandles) /\ Owns(t) /\ status[dbh[t]] = "ok"
    BY <1>0, <1>6 DEF AttachDone, At, Bare, Got
  <2>4. UNCHANGED used
    BY <1>0, <2>1, <2>3, ThreadAssumption DEF TableRight, SlotsAccounted, Owns, DataOK
  <2>5. Joined(t)' /\ \A s \in Slots \ {dbh[t]} : attached'[s] = attached[s]
    BY <1>0, <2>1, <2>3 DEF Bare, Joined, Owns, DataOK
  <2>6. StatusTrue'
    BY <1>0, <2>1 DEF TableRight, StatusTrue, Failing
  <2>7. stack[t] \in AttachStacks
    BY <1>0, <1>6, AttachStack DEF AttachDone, At, AttachSteps
  <2>8. Held(t)'
    BY <1>0, <1>6, <2>1, <2>2, <2>3, <2>5, <2>7 DEF AttachDone, At, AttachSteps
  <2> QED
    BY <2>1, <2>2, <2>3, <2>4, <2>5, <2>6, <2>8, OwnSlot, AccountsFrame
<1> QED
  BY <1>1, <1>2, <1>3, <1>4, <1>5, <1>6 DEF Attach
-----------------------------------------------------------------------------
(* The stacks of the steps, and what sets them apart.                      *)
LEMMA StepStacks ==
  ASSUME ControlOK, NEW t \in Threads
  PROVE  /\ pc[t] \in ReleaseSteps => stack[t] \in AttachStacks \union DetachStacks \union FreeStacks
         /\ pc[t] \in BeginSteps => stack[t] \in BeginStacks
         /\ pc[t] \in EndSteps => stack[t] \in EndStacks
         /\ pc[t] \in DetachSteps => stack[t] \in DetachStacks
         /\ pc[t] \in FreeSteps => stack[t] \in FreeStacks
         /\ pc[t] \in CommitSteps => stack[t] = <<"c_commit">>
         /\ pc[t] \in InitSteps => stack[t] = <<"c_init">>
         /\ pc[t] \in ConnectSteps => stack[t] = InConnect
         /\ pc[t] \in FinishSteps => stack[t] = InFinish
BY DEF ControlOK, CallPath, PathOK

LEMMA StacksDiffer ==
  \A st \in DetachStacks \union FreeStacks : st \notin AttachStacks /\ st # <<"c_attach">>
BY Tops DEF AttachStacks

(* _db_release.                                                            *)
LEMMA ReleaseAccounts ==
  ASSUME IInv, Accounts, Orderly, NEW t \in Threads, Release(t)
  PROVE  Accounts'
<1>0. ControlOK /\ HandleOK /\ DataOK /\ Held(t) /\ TableRight
  BY DEF IInv, Accounts
<1> USE DEF Held, HeldAttach, HeldRelease, HeldSession, HeldUnlock, HeldReturn, HeldClient
<1> USE DEF AttachSteps, ReleaseSteps, AttachCalls, UnlockSteps, Failing
<1>1. CASE ReleaseFree(t)
  <2>1. /\ res' = [res EXCEPT ![dbh[t]] = {}] /\ status' = [status EXCEPT ![dbh[t]] = "ok"]
        /\ UNCHANGED <<body, used, attached, session, owner, dbh, view>>
    BY <1>1 DEF ReleaseFree
  <2>2. Apart(t) /\ pc'[t] = "rel_lock" /\ UNCHANGED stack
    BY <1>0, <1>1, GotoApart DEF ReleaseFree
  <2>3. Owns(t) /\ dbh[t] \in Slots
    BY <1>0, <1>1 DEF ReleaseFree, At, Owns
  <2>4. StatusTrue' /\ status'[dbh[t]] = "ok"
    BY <1>0, <2>1, <2>3 DEF TableRight, StatusTrue, DataOK
  <2>5. res'[dbh[t]] = {} /\ \A s \in Slots \ {dbh[t]} : res'[s] = res[s]
    BY <1>0, <2>1, <2>3 DEF DataOK
  <2>6. Aside(t) /\ TableRight' /\ Owns(t)'
    BY <2>1, <2>2, <2>3, <2>4, <2>5, OwnSlot
  <2>7. Held(t)'
    BY <1>0, <1>1, <2>1, <2>2, <2>4, <2>5, <2>6 DEF ReleaseFree, At
  <2> QED
    BY <2>6, <2>7, AccountsFrame
<1>2. CASE ReleaseLock(t)
  <2>1. Apart(t) /\ pc'[t] = "rel_clear" /\ UNCHANGED <<stack, table, dbh, view>>
    BY <1>0, <1>2, GotoApart DEF ReleaseLock
  <2>2. Held(t)'
    BY <1>0, <1>2, <2>1, SameHold DEF ReleaseLock, At
  <2> QED
    BY <2>1, <2>2, QuietStep
<1>3. CASE ReleaseClear(t)
  <2>1. /\ attached' = [attached EXCEPT ![dbh[t]] = FALSE]
        /\ session'  = [session EXCEPT ![dbh[t]] = FALSE]
        /\ used'     = [used EXCEPT ![dbh[t]] = FALSE]
        /\ owner'    = [owner EXCEPT ![dbh[t]] = NoThread]
        /\ UNCHANGED <<body, status, res, dbh, view>>
    BY <1>3 DEF ReleaseClear
  <2>2. Apart(t) /\ pc'[t] = "rel_unlock" /\ UNCHANGED stack
    BY <1>0, <1>3, GotoApart DEF ReleaseClear
  <2>3. Owns(t) /\ dbh[t] \in Slots /\ owner[dbh[t]] = t /\ res[dbh[t]] = {}
    BY <1>0, <1>3 DEF ReleaseClear, At, Owns
  <2>4. \A u \in Threads : pc[u] = "add_mark" => owner[dbh[u]] = NoThread /\ dbh[u] \in Slots
    BY <1>0 DEF Accounts, HandleOK, NeedsSlot
  <2>5. Aside(t)
    BY <1>0, <2>1, <2>2, <2>3, <2>4, ThreadAssumption DEF Aside, Apart, DataOK
  <2>6. SlotsAccounted' /\ UsedHasBody'
    BY <1>0, <2>1, <2>3, ThreadAssumption DEF TableRight, SlotsAccounted, UsedHasBody, DataOK
  <2>7. FreeIsClean' /\ StatusTrue'
    BY <1>0, <2>1, <2>3, ThreadAssumption DEF TableRight, FreeIsClean, StatusTrue, DataOK
  <2>8. HoldsNone(t)'
    BY <1>0, <2>1, <2>3, ThreadAssumption DEF TableRight, SlotsAccounted, HoldsNone, DataOK
  <2>9. Held(t)'
    BY <1>0, <1>3, <2>1, <2>2, <2>8 DEF ReleaseClear, At
  <2> QED
    BY <2>5, <2>6, <2>7, <2>9, AccountsFrame DEF TableRight
<1>4. CASE ReleaseUnlock(t)
  <2>1. Apart(t) /\ pc'[t] = "read_status" /\ UNCHANGED <<stack, table, dbh, view>>
    BY <1>0, <1>4, GotoApart DEF ReleaseUnlock
  <2>2. Held(t)'
    BY <1>0, <1>4, <2>1, SameHold DEF ReleaseUnlock, At
  <2> QED
    BY <2>1, <2>2, QuietStep
<1>5. CASE ReadStatus(t)
  <2>1. status[dbh[t]] = "ok"
    BY <1>0, <1>5 DEF ReadStatus, At
  <2>2. /\ Apart(t) /\ rv'[t] = "ok" /\ pc'[t] = Head(stack[t])
        /\ UNCHANGED <<table, dbh, view>>
    BY <1>0, <1>5, <2>1, ReturnApart DEF ReadStatus
  <2>3. \/ HoldsNone(t) /\ (stack[t] \in AttachStacks => Failing)
        \/ Joined(t) /\ stack[t] \in AttachStacks
    BY <1>0, <1>5 DEF ReadStatus, At
  <2>4. stack[t] \in AttachStacks \union DetachStacks \union FreeStacks
    BY <1>0, <1>5, StepStacks DEF ReadStatus, At
  <2>5. CASE stack[t] \in AttachStacks
    <3>1. pc'[t] \in {"c_attach", "con_attached"} /\ (pc'[t] = "c_attach" => stack[t] = <<"c_attach">>)
      BY <2>2, <2>5, Tops
    <3>2. pc'[t] = "c_attach" => Joined(t)
      BY <1>0, <1>5, <2>3, <2>5, <3>1 DEF ReadStatus, At, Orderly, Alone
    <3>3. Held(t)'
      BY <2>2, <2>3, <2>5, <3>1, <3>2, SameHold
    <3> QED
      BY <2>2, <3>3, QuietStep
  <2>6. CASE stack[t] \notin AttachStacks
    <3>1. pc'[t] \in {"c_detach", "fin_detached", "c_free", "con_freed", "fin_freed"}
      BY <2>2, <2>4, <2>6, Tops
    <3>2. Held(t)'
      BY <2>2, <2>3, <2>6, <3>1, SameHold
    <3> QED
      BY <2>2, <3>2, QuietStep
  <2> QED
    BY <2>5, <2>6
<1> QED
  BY <1>1, <1>2, <1>3, <1>4, <1>5 DEF Release

-----------------------------------------------------------------------------
(* The test every function starts with tells an own slot from none.        *)
LEMMA OwnsValid ==
  ASSUME Accounts, NEW t \in Threads, Joined(t) \/ LoggedIn(t)
  PROVE  ValidDbh(t) /\ Owns(t) /\ dbh[t] \in Slots
BY ThreadAssumption DEF Accounts, TableRight, SlotsAccounted, Joined, LoggedIn, Owns, ValidDbh

LEMMA NothingInvalid ==
  ASSUME IInv, Accounts, Orderly, NEW t \in Threads, Nothing(t)
  PROVE  ~ValidDbh(t)
<1>1. CASE dbh[t] = NoSlot
  BY <1>1, MaxDbAssumption DEF NoSlot, ValidDbh, Slots
<1>2. CASE Failing
  <2>1. \A s \in Slots : owner[s] = NoThread
    BY <1>2 DEF Orderly, Alone, Nothing, HoldsNone, IInv, DataOK
  <2> QED
    BY <2>1 DEF ValidDbh, Accounts, TableRight, SlotsAccounted
<1> QED
  BY <1>1, <1>2 DEF Nothing

(* sqlo_session_begin and sqlo_session_end.                                *)
LEMMA SessionAccounts ==
  ASSUME IInv, Accounts, Orderly, NEW t \in Threads, Session(t)
  PROVE  Accounts'
<1>0. ControlOK /\ HandleOK /\ DataOK /\ Held(t) /\ TableRight
  BY DEF IInv, Accounts
<1> USE DEF Held, HeldAttach, HeldRelease, HeldSession, HeldUnlock, HeldReturn, HeldClient
<1> USE DEF AttachSteps, ReleaseSteps, AttachCalls, UnlockSteps, Failing
<1>1. CASE BeginCheck(t)
  <2>1. Joined(t) \/ (stack[t] = <<"con_begun", "c_connect">> /\ Nothing(t))
    BY <1>0, <1>1 DEF BeginCheck, At, Nothing
  <2>2. UNCHANGED <<table, dbh, view>> /\ stack[t] \in BeginStacks
    BY <1>0, <1>1, StepStacks DEF BeginCheck, At, BeginSteps
  <2>3. CASE ValidDbh(t) /\ Goto(t, "beg_attr")
    <3>1. Joined(t)
      BY <2>1, <2>3, NothingInvalid
    <3>2. Apart(t) /\ pc'[t] = "beg_attr"
      BY <1>0, <2>3, GotoApart
    <3>3. Held(t)'
      BY <2>2, <3>1, <3>2, SameHold
    <3> QED
      BY <2>2, <3>2, <3>3, QuietStep
  <2>4. CASE Return(t, "fail")
    <3>1. Apart(t) /\ rv'[t] = "fail" /\ pc'[t] = Head(stack[t])
      BY <1>0, <2>4, ReturnApart
    <3>2. pc'[t] \in {"c_begin", "con_begun"} /\ (pc'[t] = "c_begin" => Joined(t))
      BY <2>1, <2>2, <3>1, Tops
    <3>3. Held(t)'
      BY <2>1, <2>2, <3>1, <3>2, SameHold
    <3> QED
      BY <2>2, <3>1, <3>3, QuietStep
  <2> QED
    BY <1>1, <2>3, <2>4 DEF BeginCheck
<1>2. CASE BeginCall(t)
  <2>1. PICK out \in Outcomes(t) :
          /\ status' = [status EXCEPT ![dbh[t]] = out]
          /\ \/ out = "fail" /\ Goto(t, "ua_dbv") /\ UNCHANGED session
             \/ /\ out = "ok" /\ pc[t] # "beg_bind"
                /\ Goto(t, IF At(t, "beg_attr") THEN "beg_login" ELSE "beg_bind")
                /\ UNCHANGED session
             \/ /\ out = "ok" /\ At(t, "beg_bind")
                /\ session' = [session EXCEPT ![dbh[t]] = TRUE]
                /\ Return(t, "ok")
    BY <1>2 DEF BeginCall
  <2>2. /\ pc[t] \in {"beg_attr", "beg_login", "beg_bind"} /\ stack[t] \in BeginStacks
        /\ UNCHANGED <<body, used, attached, res, owner, dbh, view>>
    BY <1>0, <1>2, StepStacks DEF BeginCall, BeginSteps
  <2>3. Joined(t) /\ Owns(t) /\ dbh[t] \in Slots
    BY <1>0, <2>2 DEF Joined, Owns
  <2>4. StatusTrue' /\ \A s \in Slots \ {dbh[t]} : session'[s] = session[s]
    <3>1. StatusTrue'
      BY <2>1, <2>2, <2>3, StatusAfter DEF StatusFaults
    <3> QED
      BY <1>0, <2>1, <3>1 DEF DataOK
  <2>5. CASE Goto(t, "ua_dbv") /\ UNCHANGED session
    <3>1. Apart(t) /\ pc'[t] = "ua_dbv" /\ UNCHANGED stack
      BY <1>0, <2>5, GotoApart
    <3>2. Aside(t) /\ TableRight'
      BY <2>2, <2>3, <2>4, <3>1, OwnSlot
    <3>3. Joined(t)'
      BY <2>2, <2>3, <2>5 DEF Joined, Owns
    <3>4. Held(t)'
      BY <2>2, <3>1, <3>3
    <3> QED
      BY <3>2, <3>4, AccountsFrame
  <2>6. ASSUME NEW l \in {"beg_login", "beg_bind"}, Goto(t, l), UNCHANGED session
        PROVE  Accounts'
    <3>1. Apart(t) /\ pc'[t] = l /\ UNCHANGED stack
      BY <1>0, <2>6, GotoApart
    <3>2. Aside(t) /\ TableRight'
      BY <2>2, <2>3, <2>4, <3>1, OwnSlot
    <3>3. Joined(t)'
      BY <2>2, <2>3, <2>6 DEF Joined, Owns
    <3>4. Held(t)'
      BY <2>2, <3>1, <3>3
    <3> QED
      BY <3>2, <3>4, AccountsFrame
  <2>7. CASE session' = [session EXCEPT ![dbh[t]] = TRUE] /\ Return(t, "ok")
    <3>1. Apart(t) /\ rv'[t] = "ok" /\ pc'[t] = Head(stack[t])
      BY <1>0, <2>7, ReturnApart
    <3>2. Aside(t) /\ TableRight'
      BY <2>2, <2>3, <2>4, <3>1, OwnSlot
    <3>3. LoggedIn(t)'
      BY <1>0, <2>2, <2>3, <2>7 DEF Joined, LoggedIn, Owns, DataOK
    <3>4. pc'[t] \in {"c_begin", "con_begun"}
      BY <2>2, <3>1, Tops
    <3>5. Held(t)'
      BY <3>1, <3>3, <3>4
    <3> QED
      BY <3>2, <3>5, AccountsFrame
  <2> QED
    BY <2>1, <2>5, <2>6, <2>7
<1>3. CASE EndCheck(t)
  <2>1. LoggedIn(t) /\ UNCHANGED <<table, dbh, view>>
    BY <1>0, <1>3 DEF EndCheck, At
  <2>2. ValidDbh(t) /\ session[dbh[t]]
    BY <2>1, OwnsValid DEF LoggedIn
  <2>3. Apart(t) /\ pc'[t] = "end_call"
    BY <1>0, <1>3, <2>2, GotoApart DEF EndCheck
  <2>4. Held(t)'
    BY <2>1, <2>3, SameHold
  <2> QED
    BY <2>1, <2>3, <2>4, QuietStep
<1>4. CASE EndCall(t)
  <2>1. PICK out \in Outcomes(t) :
          /\ status' = [status EXCEPT ![dbh[t]] = out]
          /\ \/ out = "ok"   /\ Return(t, "ok")
             \/ out = "fail" /\ Goto(t, "ua_dbv")
    BY <1>4 DEF EndCall
  <2>2. /\ stack[t] \in EndStacks /\ session' = [session EXCEPT ![dbh[t]] = FALSE]
        /\ UNCHANGED <<body, used, attached, res, owner, dbh, view>>
    BY <1>0, <1>4, StepStacks DEF EndCall, At, EndSteps
  <2>3. LoggedIn(t) /\ Owns(t) /\ dbh[t] \in Slots
    BY <1>0, <1>4 DEF EndCall, At, LoggedIn, Owns
  <2>4. StatusTrue' /\ \A s \in Slots \ {dbh[t]} : session'[s] = session[s]
    <3>1. StatusTrue'
      BY <1>4, <2>1, <2>2, <2>3, StatusAfter DEF EndCall, At, StatusFaults
    <3> QED
      BY <1>0, <2>2, <3>1 DEF DataOK
  <2>5. Joined(t)'
    BY <1>0, <2>2, <2>3 DEF Joined, LoggedIn, Owns, DataOK
  <2>6. CASE Return(t, "ok")
    <3>1. Apart(t) /\ rv'[t] = "ok" /\ pc'[t] = Head(stack[t])
      BY <1>0, <2>6, ReturnApart
    <3>2. Aside(t) /\ TableRight'
      BY <2>2, <2>3, <2>4, <3>1, OwnSlot
    <3>3. pc'[t] \in {"c_end", "fin_ended", "det_ended"}
      BY <2>2, <3>1, Tops
    <3>4. Held(t)'
      BY <2>5, <3>1, <3>3
    <3> QED
      BY <3>2, <3>4, AccountsFrame
  <2>7. CASE Goto(t, "ua_dbv")
    <3>1. Apart(t) /\ pc'[t] = "ua_dbv" /\ UNCHANGED stack
      BY <1>0, <2>7, GotoApart
    <3>2. Aside(t) /\ TableRight'
      BY <2>2, <2>3, <2>4, <3>1, OwnSlot
    <3>3. Held(t)'
      BY <2>2, <2>5, <3>1
    <3> QED
      BY <3>2, <3>3, AccountsFrame
  <2> QED
    BY <2>1, <2>6, <2>7
<1> QED
  BY <1>1, <1>2, <1>3, <1>4 DEF Session
-----------------------------------------------------------------------------
(* sqlo_server_detach, sqlo_server_free, sqlo_commit.                      *)
LEMMA DetachAccounts ==
  ASSUME IInv, Accounts, Orderly, NEW t \in Threads, Detach(t)
  PROVE  Accounts'
<1>0. ControlOK /\ HandleOK /\ DataOK /\ Held(t) /\ TableRight
  BY DEF IInv, Accounts
<1> USE DEF Held, HeldAttach, HeldRelease, HeldSession, HeldUnlock, HeldReturn, HeldClient
<1> USE DEF AttachSteps, ReleaseSteps, AttachCalls, UnlockSteps, Failing
<1>1. CASE DetachCheck(t)
  <2>1. /\ Joined(t) \/ (LoggedIn(t) /\ stack[t] = <<"c_detach">>)
        /\ UNCHANGED <<table, dbh, view>> /\ stack[t] \in DetachStacks
    BY <1>0, <1>1, StepStacks DEF DetachCheck, At, DetachSteps
  <2>2. ValidDbh(t) /\ attached[dbh[t]]
    BY <2>1, OwnsValid DEF Joined, LoggedIn
  <2>3. CASE session[dbh[t]] /\ Call(t, "end_check", "det_ended")
    <3>1. Apart(t) /\ pc'[t] = "end_check"
      BY <1>0, <2>3, CallApart
    <3>2. LoggedIn(t)
      BY <2>1, <2>3 DEF Joined
    <3>3. Held(t)'
      BY <2>1, <3>1, <3>2, SameHold
    <3> QED
      BY <2>1, <3>1, <3>3, QuietStep
  <2>4. CASE ~session[dbh[t]] /\ Goto(t, "det_call")
    <3>1. Apart(t) /\ pc'[t] = "det_call"
      BY <1>0, <2>4, GotoApart
    <3>2. Joined(t)
      BY <2>1, <2>4 DEF LoggedIn
    <3>3. Held(t)'
      BY <2>1, <3>1, <3>2, SameHold
    <3> QED
      BY <2>1, <3>1, <3>3, QuietStep
  <2> QED
    BY <1>1, <2>2, <2>3, <2>4 DEF DetachCheck
<1>2. CASE DetachEnded(t)
  <2>1. /\ Joined(t) /\ UNCHANGED <<table, dbh, view>> /\ stack[t] \in DetachStacks
    BY <1>0, <1>2, StepStacks DEF DetachEnded, At, DetachSteps
  <2>2. Apart(t) /\ pc'[t] \in {"ua_dbv", "det_call"} /\ UNCHANGED stack
    BY <1>0, <1>2, GotoApart DEF DetachEnded
  <2>3. Held(t)'
    BY <2>1, <2>2, SameHold
  <2> QED
    BY <2>1, <2>2, <2>3, QuietStep
<1>3. CASE DetachCall(t)
  <2>1. /\ Apart(t) /\ pc'[t] = "rel_free"
        /\ UNCHANGED <<body, used, attached, session, res, owner, dbh, view, stack>>
    BY <1>0, <1>3, GotoApart DEF DetachCall
  <2>2. stack[t] \in DetachStacks \union FreeStacks
    BY <1>0, <1>3, StepStacks DEF DetachCall, At, DetachSteps
  <2>3. Owns(t) /\ dbh[t] \in Slots
    BY <1>0, <1>3 DEF DetachCall, At, Joined, LoggedIn, Owns
  <2>4. StatusTrue'
    <3>1. CASE UNCHANGED status
      BY <1>0, <3>1 DEF TableRight, StatusTrue
    <3>2. CASE \E out \in Outcomes(t) : status' = [status EXCEPT ![dbh[t]] = out]
      BY <1>3, <2>3, <3>2, StatusAfter DEF DetachCall, At, StatusFaults
    <3> QED
      BY <1>3, <3>1, <3>2 DEF DetachCall
  <2>5. Aside(t) /\ TableRight' /\ Owns(t)'
    BY <2>1, <2>3, <2>4, OwnSlot
  <2>6. Held(t)'
    BY <2>1, <2>2, <2>5, StacksDiffer
  <2> QED
    BY <2>5, <2>6, AccountsFrame
<1>4. CASE FreeCheck(t)
  <2>1. /\ Joined(t) \/ LoggedIn(t) \/ (stack[t] = <<"con_freed", "c_connect">> /\ Nothing(t))
        /\ UNCHANGED <<table, dbh, view>>
    BY <1>0, <1>4 DEF FreeCheck, At
  <2>2. CASE ValidDbh(t)
    <3>1. Joined(t) \/ LoggedIn(t)
      BY <2>1, <2>2, NothingInvalid
    <3>2. Apart(t) /\ pc'[t] = "free_call"
      BY <1>0, <1>4, <2>2, GotoApart DEF FreeCheck
    <3>3. Held(t)'
      BY <2>1, <3>1, <3>2, SameHold
    <3> QED
      BY <2>1, <3>2, <3>3, QuietStep
  <2>3. CASE ~ValidDbh(t)
    <3>1. stack[t] = <<"con_freed", "c_connect">> /\ Nothing(t)
      BY <2>1, <2>3, OwnsValid
    <3>2. Apart(t) /\ pc'[t] = "ua_dbv" /\ UNCHANGED stack
      BY <1>0, <1>4, <2>3, GotoApart DEF FreeCheck
    <3>3. Held(t)'
      BY <2>1, <3>1, <3>2, SameHold
    <3> QED
      BY <2>1, <3>2, <3>3, QuietStep
  <2> QED
    BY <2>2, <2>3
<1>5. CASE FreeCall(t)
  <2>1. /\ Apart(t) /\ pc'[t] = "rel_free"
        /\ UNCHANGED <<body, used, attached, session, res, owner, dbh, view, stack>>
    BY <1>0, <1>5, GotoApart DEF FreeCall
  <2>2. stack[t] \in DetachStacks \union FreeStacks
    BY <1>0, <1>5, StepStacks DEF FreeCall, At, FreeSteps
  <2>3. Owns(t) /\ dbh[t] \in Slots
    BY <1>0, <1>5 DEF FreeCall, At, Joined, LoggedIn, Owns
  <2>4. StatusTrue'
    <3>1. CASE UNCHANGED status
      BY <1>0, <3>1 DEF TableRight, StatusTrue
    <3>2. CASE \E out \in Outcomes(t) : status' = [status EXCEPT ![dbh[t]] = out]
      BY <1>5, <2>3, <3>2, StatusAfter DEF FreeCall, At, StatusFaults
    <3> QED
      BY <1>5, <3>1, <3>2 DEF FreeCall
  <2>5. Aside(t) /\ TableRight' /\ Owns(t)'
    BY <2>1, <2>3, <2>4, OwnSlot
  <2>6. Held(t)'
    BY <2>1, <2>2, <2>5, StacksDiffer
  <2> QED
    BY <2>5, <2>6, AccountsFrame
<1>6. CASE CommitCheck(t)
  <2>1. LoggedIn(t) /\ view[t] = "session" /\ UNCHANGED <<table, dbh, view>>
    BY <1>0, <1>6 DEF CommitCheck, At
  <2>2. Apart(t) /\ pc'[t] = "com_call"
    BY <1>0, <1>6, <2>1, OwnsValid, GotoApart DEF CommitCheck
  <2>3. Held(t)'
    BY <2>1, <2>2, SameHold
  <2> QED
    BY <2>1, <2>2, <2>3, QuietStep
<1>7. CASE CommitCall(t)
  <2>1. PICK out \in Outcomes(t) :
          /\ status' = [status EXCEPT ![dbh[t]] = out]
          /\ \/ out = "ok"   /\ Return(t, "ok")
             \/ out = "fail" /\ Goto(t, "ua_dbv")
    BY <1>7 DEF CommitCall
  <2>2. /\ stack[t] = <<"c_commit">> /\ view[t] = "session"
        /\ UNCHANGED <<body, used, attached, session, res, owner, dbh, view>>
    BY <1>0, <1>7, StepStacks DEF CommitCall, At, CommitSteps
  <2>3. LoggedIn(t) /\ Owns(t) /\ dbh[t] \in Slots
    BY <1>0, <1>7 DEF CommitCall, At, LoggedIn, Owns
  <2>4. StatusTrue'
    BY <1>7, <2>1, <2>3, StatusAfter DEF CommitCall, At, StatusFaults
  <2>5. LoggedIn(t)'
    BY <2>2, <2>3 DEF LoggedIn, Owns
  <2>6. CASE Return(t, "ok")
    <3>1. Apart(t) /\ pc'[t] = "c_commit"
      BY <1>0, <2>2, <2>6, ReturnApart, Tops
    <3>2. Aside(t) /\ TableRight'
      BY <2>2, <2>3, <2>4, <3>1, OwnSlot
    <3>3. Held(t)'
      BY <2>2, <2>5, <3>1
    <3> QED
      BY <3>2, <3>3, AccountsFrame
  <2>7. CASE Goto(t, "ua_dbv")
    <3>1. Apart(t) /\ pc'[t] = "ua_dbv" /\ UNCHANGED stack
      BY <1>0, <2>7, GotoApart
    <3>2. Aside(t) /\ TableRight'
      BY <2>2, <2>3, <2>4, <3>1, OwnSlot
    <3>3. Held(t)'
      BY <2>2, <2>5, <3>1
    <3> QED
      BY <3>2, <3>3, AccountsFrame
  <2> QED
    BY <2>1, <2>6, <2>7
<1> QED
  BY <1>1, <1>2, <1>3, <1>4, <1>5, <1>6, <1>7 DEF Detach

-----------------------------------------------------------------------------
(* sqlo_connect, sqlo_finish, sqlo_init again, and UNLOCK_ALL.             *)
LEMMA ConnectAccounts ==
  ASSUME IInv, Accounts, Orderly, NEW t \in Threads, Connect(t)
  PROVE  Accounts'
<1>0. ControlOK /\ HandleOK /\ DataOK /\ Held(t) /\ TableRight
  BY DEF IInv, Accounts
<1> USE DEF Held, HeldAttach, HeldRelease, HeldSession, HeldUnlock, HeldReturn, HeldClient
<1> USE DEF AttachSteps, ReleaseSteps, AttachCalls, UnlockSteps, Failing
<1>1. stack[t] = InConnect /\ UNCHANGED <<table, dbh, view>>
  BY <1>0, StepStacks DEF Connect, At, ConnectSteps
<1>2. /\ <<"con_begun">> \o InConnect = <<"con_begun", "c_connect">>
      /\ <<"con_freed">> \o InConnect = <<"con_freed", "c_connect">>
  BY PushOne DEF InConnect
<1>3. CASE At(t, "con_attached") /\ rv[t] = "ok" /\ Call(t, "beg_check", "con_begun")
  <2>1. Apart(t) /\ pc'[t] = "beg_check" /\ stack'[t] = <<"con_begun", "c_connect">>
    BY <1>0, <1>1, <1>2, <1>3, CallApart, ZenonT(30)
  <2>2. Held(t)'
    BY <1>0, <1>1, <1>3, <2>1, SameHold DEF At
  <2> QED
    BY <1>1, <2>1, <2>2, QuietStep
<1>4. CASE rv[t] = "fail" /\ Call(t, "free_check", "con_freed")
           /\ (At(t, "con_attached") \/ At(t, "con_begun"))
  <2>1. Apart(t) /\ pc'[t] = "free_check" /\ stack'[t] = <<"con_freed", "c_connect">>
    BY <1>0, <1>1, <1>2, <1>4, CallApart, ZenonT(30)
  <2>2. Held(t)'
    BY <1>0, <1>1, <1>4, <2>1, SameHold DEF At
  <2> QED
    BY <1>1, <2>1, <2>2, QuietStep
<1>5. CASE At(t, "con_begun") /\ rv[t] = "ok" /\ Return(t, "ok")
  <2>1. Apart(t) /\ pc'[t] = "c_connect" /\ rv'[t] = "ok"
    BY <1>0, <1>1, <1>5, ReturnApart, Tops
  <2>2. Held(t)'
    BY <1>0, <1>1, <1>5, <2>1, SameHold DEF At
  <2> QED
    BY <1>1, <2>1, <2>2, QuietStep
<1>6. CASE At(t, "con_freed") /\ Return(t, "fail")
  <2>1. Apart(t) /\ pc'[t] = "c_connect" /\ rv'[t] = "fail"
    BY <1>0, <1>1, <1>6, ReturnApart, Tops
  <2>2. Held(t)'
    BY <1>0, <1>1, <1>6, <2>1, SameHold DEF At
  <2> QED
    BY <1>1, <2>1, <2>2, QuietStep
<1> QED
  BY <1>3, <1>4, <1>5, <1>6 DEF Connect

LEMMA FinishAccounts ==
  ASSUME IInv, Accounts, Orderly, NEW t \in Threads, Finish(t)
  PROVE  Accounts'
<1>0. ControlOK /\ HandleOK /\ DataOK /\ Held(t) /\ TableRight
  BY DEF IInv, Accounts
<1> USE DEF Held, HeldAttach, HeldRelease, HeldSession, HeldUnlock, HeldReturn, HeldClient
<1> USE DEF AttachSteps, ReleaseSteps, AttachCalls, UnlockSteps, Failing
<1>1. stack[t] = InFinish /\ UNCHANGED <<table, dbh, view>>
  BY <1>0, StepStacks DEF Finish, At, FinishSteps
<1>2. At(t, "fin_check") => LoggedIn(t) /\ ValidDbh(t) /\ session[dbh[t]]
  BY <1>0, OwnsValid DEF At, LoggedIn
<1>3. CASE At(t, "fin_check") /\ Call(t, "end_check", "fin_ended")
  <2>1. Apart(t) /\ pc'[t] = "end_check"
    BY <1>0, <1>3, CallApart
  <2>2. Held(t)'
    BY <1>1, <1>2, <1>3, <2>1, SameHold
  <2> QED
    BY <1>1, <2>1, <2>2, QuietStep
<1>4. CASE At(t, "fin_ended") /\ Call(t, "det_check", "fin_detached")
  <2>1. Apart(t) /\ pc'[t] = "det_check"
    BY <1>0, <1>4, CallApart
  <2>2. Held(t)'
    BY <1>0, <1>1, <1>4, <2>1, SameHold DEF At
  <2> QED
    BY <1>1, <2>1, <2>2, QuietStep
<1>5. CASE rv[t] = "fail" /\ Call(t, "free_check", "fin_freed")
           /\ (At(t, "fin_ended") \/ At(t, "fin_detached"))
  <2>1. Apart(t) /\ pc'[t] = "free_check"
    BY <1>0, <1>5, CallApart
  <2>2. Held(t)'
    BY <1>0, <1>1, <1>5, <2>1, SameHold DEF At
  <2> QED
    BY <1>1, <2>1, <2>2, QuietStep
<1>6. CASE \/ At(t, "fin_detached") /\ rv[t] = "ok" /\ Return(t, "ok")
           \/ At(t, "fin_freed") /\ Return(t, "fail")
  <2>1. Apart(t) /\ pc'[t] = "c_finish"
    BY <1>0, <1>1, <1>6, ReturnApart, Tops
  <2>2. Held(t)'
    BY <1>0, <1>1, <1>6, <2>1, SameHold DEF At
  <2> QED
    BY <1>1, <2>1, <2>2, QuietStep
<1> QED
  BY <1>2, <1>3, <1>4, <1>5, <1>6 DEF Finish

LEMMA InitAgainAccounts ==
  ASSUME IInv, Accounts, Orderly, NEW t \in Threads, InitAgain(t)
  PROVE  Accounts'
<1>0. ControlOK /\ HandleOK /\ DataOK /\ Held(t) /\ TableRight
  BY DEF IInv, Accounts
<1> USE DEF Held, HeldAttach, HeldRelease, HeldSession, HeldUnlock, HeldReturn, HeldClient
<1> USE DEF AttachSteps, ReleaseSteps, AttachCalls, UnlockSteps, Failing
<1>1. UNCHANGED <<table, dbh, view>> /\ pc[t] \in {"ini_lock", "ini_test"}
      /\ stack[t] = <<"c_init">>
  BY <1>0, StepStacks DEF InitAgain, At, InitSteps
<1>2. Apart(t) /\ pc'[t] \in {"ini_test", "c_init"}
  BY <1>0, <1>1, GotoApart, ReturnApart, Tops DEF InitAgain
<1>3. Held(t)'
  BY <1>0, <1>1, <1>2, SameHold
<1> QED
  BY <1>1, <1>2, <1>3, QuietStep

LEMMA UnlockAllAccounts ==
  ASSUME IInv, Accounts, Orderly, NEW t \in Threads, UnlockAll(t)
  PROVE  Accounts'
<1>0. ControlOK /\ HandleOK /\ DataOK /\ Held(t) /\ TableRight
  BY DEF IInv, Accounts
<1> USE DEF Held, HeldAttach, HeldRelease, HeldSession, HeldUnlock, HeldReturn, HeldClient
<1> USE DEF AttachSteps, ReleaseSteps, AttachCalls, UnlockSteps, Failing
<1>1. UNCHANGED <<table, dbh, view>>
  BY DEF UnlockAll
<1>2. \/ Joined(t) /\ stack[t] \in BeginStacks \union EndStacks \union DetachStacks
      \/ Nothing(t) /\ stack[t] = <<"con_freed", "c_connect">>
      \/ LoggedIn(t) /\ stack[t] = <<"c_commit">> /\ view[t] = "session"
  BY <1>0 DEF UnlockAll, UnlockAllStep, At
<1>3. CASE Goto(t, "ua_env") \/ Goto(t, "ua_init")
  <2>1. Apart(t) /\ pc'[t] \in {"ua_env", "ua_init"} /\ UNCHANGED stack
    BY <1>0, <1>3, GotoApart
  <2>2. Held(t)'
    BY <1>1, <1>2, <2>1, SameHold
  <2> QED
    BY <1>1, <2>1, <2>2, QuietStep
<1>4. CASE Return(t, "fail")
  <2>1. Apart(t) /\ rv'[t] = "fail" /\ pc'[t] = Head(stack[t])
    BY <1>0, <1>4, ReturnApart
  <2>2. \/ /\ Joined(t)
           /\ pc'[t] \in {"c_begin", "con_begun", "c_end", "fin_ended", "det_ended",
                          "c_detach", "fin_detached"}
        \/ HoldsNone(t) /\ pc'[t] = "con_freed"
        \/ LoggedIn(t) /\ pc'[t] = "c_commit" /\ view[t] = "session"
    BY <1>2, <2>1, Tops DEF Nothing
  <2>3. Held(t)'
    BY <1>1, <2>1, <2>2, SameHold
  <2> QED
    BY <1>1, <2>1, <2>3, QuietStep
<1> QED
  BY <1>3, <1>4 DEF UnlockAll, UnlockAllStep
-----------------------------------------------------------------------------
(* The application.                                                        *)
LEMMA ClientAccounts ==
  ASSUME IInv, Accounts, Orderly, NEW t \in Threads, ClientCall(t) \/ ClientReturn(t)
  PROVE  Accounts'
<1>0. ControlOK /\ HandleOK /\ DataOK /\ Held(t) /\ TableRight
  BY DEF IInv, Accounts
<1> USE DEF Held, HeldAttach, HeldRelease, HeldSession, HeldUnlock, HeldReturn, HeldClient
<1> USE DEF AttachSteps, ReleaseSteps, AttachCalls, UnlockSteps, Failing
<1>1. CASE ClientCall(t)
  <2>1. /\ UNCHANGED <<table, dbh, view>> /\ Apart(t)
        /\ view[t] = "none" => HoldsNone(t)
        /\ view[t] \in {"attached", "broken"} => Joined(t)
        /\ view[t] = "session" => LoggedIn(t)
    BY <1>0, <1>1 DEF ClientCall, At, Apart, ControlOK
  <2>2. PICK f \in ClientCalls : /\ view[t] \in CalledIn[f]
                                 /\ pc'[t] = CallLabel[f]
                                 /\ stack'[t] = Stack0[f]
    BY <1>0, <1>1 DEF ClientCall, ControlOK
  <2>3. CASE f = "connect"
    <3>1. pc'[t] = "add_lock" /\ HoldsNone(t)
      BY <1>1, <2>1, <2>2, <2>3 DEF CallLabel, CalledIn
    <3>2. Held(t)'
      BY <1>1, <2>1, <2>2, <2>3, <3>1, SameHold DEF Stack0, CalledIn
    <3> QED
      BY <2>1, <3>2, QuietStep
  <2>4. CASE f = "attach"
    <3>1. pc'[t] = "add_lock" /\ HoldsNone(t)
      BY <1>1, <2>1, <2>2, <2>4 DEF CallLabel, CalledIn
    <3>2. Held(t)'
      BY <1>1, <2>1, <2>2, <2>4, <3>1, SameHold DEF Stack0, CalledIn
    <3> QED
      BY <2>1, <3>2, QuietStep
  <2>5. CASE f = "begin"
    <3>1. pc'[t] = "beg_check" /\ Joined(t)
      BY <1>1, <2>1, <2>2, <2>5 DEF CallLabel, CalledIn
    <3>2. Held(t)'
      BY <1>1, <2>1, <2>2, <2>5, <3>1, SameHold DEF Stack0, CalledIn
    <3> QED
      BY <2>1, <3>2, QuietStep
  <2>6. CASE f = "end"
    <3>1. pc'[t] = "end_check" /\ LoggedIn(t)
      BY <1>1, <2>1, <2>2, <2>6 DEF CallLabel, CalledIn
    <3>2. Held(t)'
      BY <1>1, <2>1, <2>2, <2>6, <3>1, SameHold DEF Stack0, CalledIn
    <3> QED
      BY <2>1, <3>2, QuietStep
  <2>7. CASE f = "detach"
    <3>1. pc'[t] = "det_check" /\ (Joined(t) \/ LoggedIn(t))
      BY <1>1, <2>1, <2>2, <2>7 DEF CallLabel, CalledIn
    <3>2. Held(t)'
      BY <1>1, <2>1, <2>2, <2>7, <3>1, SameHold DEF Stack0, CalledIn
    <3> QED
      BY <2>1, <3>2, QuietStep
  <2>8. CASE f = "free"
    <3>1. pc'[t] = "free_check" /\ (Joined(t) \/ LoggedIn(t))
      BY <1>1, <2>1, <2>2, <2>8 DEF CallLabel, CalledIn
    <3>2. Held(t)'
      BY <1>1, <2>1, <2>2, <2>8, <3>1, SameHold DEF Stack0, CalledIn
    <3> QED
      BY <2>1, <3>2, QuietStep
  <2>9. CASE f = "finish"
    <3>1. pc'[t] = "fin_check" /\ LoggedIn(t)
      BY <1>1, <2>1, <2>2, <2>9 DEF CallLabel, CalledIn
    <3>2. Held(t)'
      BY <1>1, <2>1, <2>2, <2>9, <3>1, SameHold DEF Stack0, CalledIn
    <3> QED
      BY <2>1, <3>2, QuietStep
  <2>10. CASE f = "commit"
    <3>1. pc'[t] = "com_check" /\ (LoggedIn(t) /\ view[t] = "session")
      BY <1>1, <2>1, <2>2, <2>10 DEF CallLabel, CalledIn
    <3>2. Held(t)'
      BY <1>1, <2>1, <2>2, <2>10, <3>1, SameHold DEF Stack0, CalledIn
    <3> QED
      BY <2>1, <3>2, QuietStep
  <2>11. CASE f = "init"
    <3>1. pc'[t] = "ini_lock" /\ TRUE
      BY <1>1, <2>1, <2>2, <2>11 DEF CallLabel, CalledIn
    <3>2. Held(t)'
      BY <1>1, <2>1, <2>2, <2>11, <3>1, SameHold DEF Stack0, CalledIn
    <3> QED
      BY <2>1, <3>2, QuietStep
  <2> QED
    BY <2>3, <2>4, <2>5, <2>6, <2>7, <2>8, <2>9, <2>10, <2>11, ClientCallsAssumption
    DEF Functions, Orderly
<1>2. CASE ClientReturn(t)
  <2>1. /\ pc[t] \in ClientReturns /\ UNCHANGED table
        /\ pc'[t] = "idle" /\ view'[t] = ViewAfter(t)
        /\ dbh'[t] = IF ViewAfter(t) = "none" THEN NoSlot ELSE dbh[t]
        /\ \A u \in Threads \ {t} : /\ pc'[u] = pc[u] /\ stack'[u] = stack[u]
                                    /\ rv'[u] = rv[u] /\ dbh'[u] = dbh[u] /\ view'[u] = view[u]
    BY <1>0, <1>2 DEF ClientReturn, ControlOK, DataOK
  <2>2. /\ ViewAfter(t) = "none" => HoldsNone(t)
        /\ ViewAfter(t) \in {"attached", "broken"} => Joined(t)
        /\ ViewAfter(t) = "session" => LoggedIn(t)
    <3>1. CASE pc[t] \in {"c_connect", "c_attach", "c_begin"}
      BY <1>0, <3>1 DEF ViewAfter
    <3>2. CASE pc[t] \in {"c_end", "c_detach", "c_free", "c_finish"}
      BY <1>0, <3>2 DEF ViewAfter
    <3>3. CASE pc[t] \in {"c_commit", "c_init"}
      BY <1>0, <3>3 DEF ViewAfter
    <3> QED
      BY <2>1, <3>1, <3>2, <3>3 DEF ClientReturns
  <2>3. Aside(t)
    BY <2>1 DEF Aside, table
  <2>4. SlotsAccounted'
    BY <1>0, <2>1, <2>2 DEF TableRight, SlotsAccounted, HoldsNone, table
  <2>5. FreeIsClean' /\ StatusTrue' /\ UsedHasBody'
    BY <1>0, <2>1 DEF TableRight, FreeIsClean, StatusTrue, UsedHasBody, table
  <2>6. /\ ViewAfter(t) = "none" => HoldsNone(t)'
        /\ ViewAfter(t) \in {"attached", "broken"} => Joined(t)'
        /\ ViewAfter(t) = "session" => LoggedIn(t)'
    BY <2>1, <2>2 DEF HoldsNone, Joined, LoggedIn, Owns, table
  <2>7. Held(t)'
    BY <2>1, <2>6
  <2> QED
    BY <2>3, <2>4, <2>5, <2>7, AccountsFrame DEF TableRight
<1> QED
  BY <1>1, <1>2

-----------------------------------------------------------------------------
LEMMA StepAccounts ==
  ASSUME IInv, Accounts, Orderly, TableExclusion, NEW t \in Threads, Step(t) \/ ClientCall(t)
  PROVE  Accounts'
BY AddAccounts, AttachAccounts, ReleaseAccounts, SessionAccounts, DetachAccounts,
   ConnectAccounts, FinishAccounts, InitAgainAccounts, UnlockAllAccounts, ClientAccounts DEF Step, Api

LEMMA NextAccounts ==
  ASSUME Orderly
  PROVE  IInv /\ Accounts /\ TableExclusion /\ [Next]_vars => Accounts'
<1>1. CASE UNCHANGED vars
  BY <1>1 DEF vars, table, thread, Accounts, TableRight, SlotsAccounted, FreeIsClean, StatusTrue,
     UsedHasBody, Held, HeldAttach, HeldRelease, HeldSession, HeldUnlock, HeldReturn, HeldClient,
     HoldsNone, Owns, Bare, Joined, LoggedIn, Nothing, Failing
<1> QED
  BY <1>1, StepAccounts DEF Next

LEMMA InitAccounts == Init => Accounts
<1> SUFFICES ASSUME Init PROVE Accounts
  OBVIOUS
<1>1. TableRight
  BY ThreadAssumption DEF Init, TableRight, SlotsAccounted, FreeIsClean, StatusTrue, UsedHasBody
<1>2. ASSUME NEW t \in Threads PROVE Held(t)
  BY <1>2, ThreadAssumption
  DEF Init, Held, HeldAttach, HeldRelease, HeldSession, HeldUnlock, HeldReturn, HeldClient,
      AttachCalls, AttachSteps, ReleaseSteps, UnlockSteps, HoldsNone
<1> QED
  BY <1>1, <1>2 DEF Accounts
-----------------------------------------------------------------------------
(* POSIX mutexes, which UNLOCK_ALL may take from another thread: without   *)
(* failures and with a slot for every thread no function gets there.       *)

Roomy == Faults = {} /\ IsFiniteSet(Threads) /\ Cardinality(Threads) <= MaxDb

(* A thread that asks for a slot finds one: each other thread has at most  *)
(* one of them.                                                            *)
LEMMA NotFull ==
  ASSUME IInv, TableRight, Roomy, NEW t \in Threads, HoldsNone(t)
  PROVE  FreeSlots \union NullSlots # {}
<1>1. SUFFICES ASSUME FreeSlots \union NullSlots = {}
               PROVE  FALSE
  OBVIOUS
<1>2. \A s \in Slots : owner[s] # NoThread /\ owner[s] # t
  BY <1>1 DEF FreeSlots, NullSlots, TableRight, SlotsAccounted, HoldsNone
<1>3. owner \in [Slots -> Threads \ {t}]
  BY <1>2 DEF IInv, DataOK
<1>4. IsFiniteSet(Slots) /\ Cardinality(Slots) = MaxDb
  BY MaxDbAssumption, FS_Interval DEF Slots
<1>5. /\ IsFiniteSet(Threads \ {t}) /\ Cardinality(Threads) \in Nat
      /\ Cardinality(Threads \ {t}) = Cardinality(Threads) - 1
  BY FS_RemoveElement, FS_CardinalityType DEF Roomy
<1>6. \E r, s \in Slots : r # s /\ owner[r] = owner[s]
  BY <1>3, <1>4, <1>5, MaxDbAssumption, FS_PigeonHole DEF Roomy
<1> QED
  BY <1>3, <1>6 DEF TableRight, SlotsAccounted

FailedStacks == {<<"con_freed", "c_connect">>, <<"fin_freed", "c_finish">>}

LEMMA SmoothMove ==
  ASSUME ControlOK, NEW t \in Threads, Smooth(t), NEW l, Goto(t, l),
         l \notin UnlockSteps \union {"add_full", "con_freed", "fin_freed"},
         l \in FreeSteps \union ReleaseSteps => stack[t] \notin FailedStacks
  PROVE  Smooth(t)'
BY GotoApart DEF Smooth, FailedStacks

LEMMA SmoothReturn ==
  ASSUME ControlOK, NEW t \in Threads, Return(t, "ok"), pc[t] \notin ClientSteps,
         Head(stack[t]) \notin {"con_freed", "fin_freed"}
  PROVE  Smooth(t)'
<1>1. rv'[t] = "ok" /\ pc'[t] = Head(stack[t])
  BY ReturnApart
<1>2. Head(stack[t]) \in ReturnLabels
  BY InsideStack, ReturnPath DEF ControlOK
<1> QED
  BY <1>1, <1>2
  DEF Smooth, ReturnLabels, LibraryReturns, ClientReturns, UnlockSteps, FreeSteps, ReleaseSteps

LEMMA SmoothCall ==
  ASSUME ControlOK, NEW t \in Threads, Smooth(t), NEW l \in {"beg_check", "end_check", "det_check"},
         NEW b, Call(t, l, b)
  PROVE  Smooth(t)'
BY CallApart DEF Smooth, UnlockSteps, FreeSteps, ReleaseSteps

LEMMA SmoothStep ==
  ASSUME IInv, Accounts, Orderly, Roomy, NEW t \in Threads, Smooth(t), Step(t) \/ ClientCall(t)
  PROVE  Smooth(t)'
<1>0. ControlOK /\ HandleOK /\ DataOK /\ Held(t) /\ TableRight
  BY DEF IInv, Accounts
<1>1. Faults = {} /\ ~Failing /\ Outcomes(t) = {"ok"}
  BY DEF Roomy, Failing, Outcomes
<1>2. rv[t] = "ok" /\ pc[t] \notin UnlockSteps \union {"add_full", "con_freed", "fin_freed"}
  BY DEF Smooth
<1>3. \A st \in AttachStacks \union DetachStacks : st \notin FailedStacks
  BY Tops DEF FailedStacks
<1>4. \A st \in FreeStacks \ FailedStacks : Head(st) \notin {"con_freed", "fin_freed"}
  BY Tops DEF FailedStacks
<1> USE DEF UnlockSteps, FreeSteps, ReleaseSteps, ClientSteps, ClientReturns
<1>5. CASE Add(t)
  <2>1. CASE AddLock(t) \/ AddUnlock(t)
    BY <1>0, <2>1, SmoothMove DEF AddLock, AddUnlock
  <2>2. CASE AddFind(t)
    <3>1. HoldsNone(t)
      BY <1>0, <2>2 DEF AddFind, At, Held, HeldAttach
    <3>2. Goto(t, "add_mark")
      BY <1>0, <2>2, <3>1, NotFull DEF AddFind
    <3> QED
      BY <1>0, <3>2, SmoothMove
  <2>3. CASE AddMark(t) \/ AddStmtv(t)
    BY <1>0, <1>1, <2>3, SmoothMove DEF AddMark, AddStmtv
  <2>4. CASE AddFull(t)
    BY <1>2, <2>4 DEF AddFull, At
  <2> QED
    BY <1>5, <2>1, <2>2, <2>3, <2>4 DEF Add
<1>6. CASE Attach(t)
  <2>1. CASE AttachSplit(t) \/ EnvLock(t) \/ EnvCreate(t)
    BY <1>0, <1>1, <2>1, SmoothMove DEF AttachSplit, EnvLock, EnvCreate
  <2>2. CASE EnvUnlock(t)
    <3>1. status[dbh[t]] = "ok"
      BY <1>0, <1>1, <2>2 DEF EnvUnlock, At, TableRight, StatusTrue, HandleOK, NeedsSlot, Using
    <3> QED
      BY <1>0, <2>2, <3>1, SmoothMove DEF EnvUnlock
  <2>3. CASE AttachCall(t)
    <3>1. Goto(t, AttachNext[pc[t]]) /\ AttachNext[pc[t]] \in AttachCalls \union {"att_done"}
      BY <1>1, <2>3 DEF AttachCall, AttachNext, AttachCalls
    <3> QED
      BY <1>0, <3>1, SmoothMove DEF AttachCalls
  <2>4. CASE AttachDone(t)
    <3>1. stack[t] \in AttachStacks
      BY <1>0, <2>4, AttachStack DEF AttachDone, At, AttachSteps
    <3> QED
      BY <1>0, <1>3, <2>4, <3>1, SmoothMove DEF AttachDone
  <2> QED
    BY <1>6, <2>1, <2>2, <2>3, <2>4 DEF Attach
<1>7. CASE Release(t)
  <2>1. pc[t] \in ReleaseSteps /\ stack[t] \notin FailedStacks
    BY <1>7 DEF Release, ReleaseFree, ReleaseLock, ReleaseClear, ReleaseUnlock, ReadStatus, At,
       Smooth, FailedStacks
  <2>2. CASE ReadStatus(t)
    <3>1. Return(t, "ok")
      BY <1>0, <2>2 DEF ReadStatus, At, Held, HeldRelease
    <3>2. stack[t] \in AttachStacks \union DetachStacks \union FreeStacks
      BY <1>0, <2>1, StepStacks
    <3>3. Head(stack[t]) \notin {"con_freed", "fin_freed"}
      BY <1>4, <2>1, <3>2, Tops
    <3> QED
      BY <1>0, <2>1, <3>1, <3>3, SmoothReturn
  <2> QED
    BY <1>0, <1>7, <2>1, <2>2, SmoothMove
    DEF Release, ReleaseFree, ReleaseLock, ReleaseClear, ReleaseUnlock
<1>8. CASE Session(t)
  <2>1. CASE BeginCheck(t)
    <3>1. Joined(t)
      BY <1>0, <1>1, <2>1 DEF BeginCheck, At, Held, HeldSession
    <3>2. ValidDbh(t) /\ attached[dbh[t]] /\ ~session[dbh[t]]
      BY <3>1, OwnsValid DEF Joined
    <3> QED
      BY <1>0, <1>1, <2>1, <3>2, SmoothMove DEF BeginCheck
  <2>2. CASE BeginCall(t)
    <3>1. pc[t] \in BeginSteps /\ stack[t] \in BeginStacks
      BY <1>0, <2>2, StepStacks DEF BeginCall, BeginSteps
    <3>2. Return(t, "ok") \/ \E l \in {"beg_login", "beg_bind"} : Goto(t, l)
      BY <1>1, <2>2 DEF BeginCall
    <3>3. Head(stack[t]) \notin {"con_freed", "fin_freed"}
      BY <3>1, Tops
    <3> QED
      BY <1>0, <3>1, <3>2, <3>3, SmoothMove, SmoothReturn DEF BeginSteps
  <2>3. CASE EndCheck(t)
    <3>1. LoggedIn(t)
      BY <1>0, <2>3 DEF EndCheck, At, Held, HeldSession
    <3>2. Goto(t, "end_call")
      BY <2>3, <3>1, OwnsValid DEF EndCheck, LoggedIn
    <3> QED
      BY <1>0, <3>2, SmoothMove
  <2>4. CASE EndCall(t)
    <3>1. pc[t] = "end_call" /\ stack[t] \in EndStacks /\ Return(t, "ok")
      BY <1>0, <1>1, <2>4, StepStacks DEF EndCall, At, EndSteps
    <3>2. Head(stack[t]) \notin {"con_freed", "fin_freed"}
      BY <3>1, Tops
    <3> QED
      BY <1>0, <3>1, <3>2, SmoothReturn
  <2> QED
    BY <1>8, <2>1, <2>2, <2>3, <2>4 DEF Session
<1>9. CASE Detach(t)
  <2>1. CASE DetachCheck(t)
    <3>1. Joined(t) \/ LoggedIn(t)
      BY <1>0, <2>1 DEF DetachCheck, At, Held, HeldSession
    <3>2. Call(t, "end_check", "det_ended") \/ Goto(t, "det_call")
      BY <2>1, <3>1, OwnsValid DEF DetachCheck, Joined, LoggedIn
    <3> QED
      BY <1>0, <3>2, SmoothMove, SmoothCall
  <2>2. CASE DetachEnded(t)
    BY <1>0, <1>2, <2>2, SmoothMove DEF DetachEnded
  <2>3. CASE DetachCall(t)
    <3>1. stack[t] \in DetachStacks
      BY <1>0, <2>3, StepStacks DEF DetachCall, At, DetachSteps
    <3> QED
      BY <1>0, <1>3, <2>3, <3>1, SmoothMove DEF DetachCall
  <2>4. CASE FreeCheck(t)
    <3>1. pc[t] = "free_check" /\ stack[t] \notin FailedStacks
      BY <2>4 DEF FreeCheck, At, Smooth, FailedStacks
    <3>2. Joined(t) \/ LoggedIn(t)
      BY <1>0, <3>1 DEF Held, HeldSession, FailedStacks
    <3>3. Goto(t, "free_call")
      BY <2>4, <3>2, OwnsValid DEF FreeCheck
    <3> QED
      BY <1>0, <3>1, <3>3, SmoothMove
  <2>5. CASE FreeCall(t)
    <3>1. stack[t] \notin FailedStacks
      BY <2>5 DEF FreeCall, At, Smooth, FailedStacks
    <3> QED
      BY <1>0, <2>5, <3>1, SmoothMove DEF FreeCall
  <2>6. CASE CommitCheck(t)
    <3>1. LoggedIn(t)
      BY <1>0, <2>6 DEF CommitCheck, At, Held, HeldSession
    <3>2. Goto(t, "com_call")
      BY <2>6, <3>1, OwnsValid DEF CommitCheck
    <3> QED
      BY <1>0, <3>2, SmoothMove
  <2>7. CASE CommitCall(t)
    <3>1. pc[t] = "com_call" /\ stack[t] = <<"c_commit">> /\ Return(t, "ok")
      BY <1>0, <1>1, <2>7, StepStacks DEF CommitCall, At, CommitSteps
    <3> QED
      BY <1>0, <3>1, Tops, SmoothReturn
  <2> QED
    BY <1>9, <2>1, <2>2, <2>3, <2>4, <2>5, <2>6, <2>7 DEF Detach
<1>10. CASE Connect(t)
  <2>1. stack[t] = InConnect /\ pc[t] \in ConnectSteps
    BY <1>0, <1>10, StepStacks DEF Connect, At, ConnectSteps
  <2>2. Call(t, "beg_check", "con_begun") \/ Return(t, "ok")
    BY <1>2, <1>10 DEF Connect, At
  <2> QED
    BY <1>0, <2>1, <2>2, Tops, SmoothCall, SmoothReturn DEF ConnectSteps
<1>11. CASE Finish(t)
  <2>1. stack[t] = InFinish /\ pc[t] \in FinishSteps
    BY <1>0, <1>11, StepStacks DEF Finish, At, FinishSteps
  <2>2. At(t, "fin_check") => LoggedIn(t)
    BY <1>0 DEF At, Held, HeldSession
  <2>3. \/ Call(t, "end_check", "fin_ended") \/ Call(t, "det_check", "fin_detached")
        \/ Return(t, "ok")
    BY <1>2, <1>11, <2>2, OwnsValid DEF Finish, At
  <2> QED
    BY <1>0, <2>1, <2>3, Tops, SmoothCall, SmoothReturn DEF FinishSteps
<1>12. CASE InitAgain(t)
  <2>1. stack[t] = <<"c_init">> /\ pc[t] \in InitSteps
    BY <1>0, <1>12, StepStacks DEF InitAgain, At, InitSteps
  <2>2. Goto(t, "ini_test") \/ Return(t, "ok")
    BY <1>12 DEF InitAgain
  <2> QED
    BY <1>0, <2>1, <2>2, Tops, SmoothMove, SmoothReturn DEF InitSteps
<1>13. CASE UnlockAll(t)
  BY <1>2, <1>13 DEF UnlockAll, UnlockAllStep, At
<1>14. CASE ClientReturn(t)
  BY <1>0, <1>14 DEF ClientReturn, ControlOK, Smooth
<1>15. CASE ClientCall(t)
  <2>1. PICK f \in Functions : pc'[t] = CallLabel[f] /\ stack'[t] = Stack0[f] /\ rv'[t] = rv[t]
    BY <1>0, <1>15, ClientCallsAssumption DEF ClientCall, ControlOK
  <2>2. CASE f = "free"
    <3>1. pc'[t] = "free_check" /\ stack'[t] = <<"c_free">>
      BY <2>1, <2>2 DEF CallLabel, Stack0
    <3>2. <<"c_free">> \notin FailedStacks
      BY Tops DEF FailedStacks
    <3> QED
      BY <1>2, <2>1, <3>1, <3>2 DEF Smooth, FailedStacks
  <2>3. CASE f # "free"
    <3>1. pc'[t] \in {"add_lock", "beg_check", "end_check", "det_check", "fin_check",
                      "com_check", "ini_lock"}
      BY <2>1, <2>3 DEF Functions, CallLabel
    <3> QED
      BY <1>2, <2>1, <3>1 DEF Smooth
  <2> QED
    BY <2>2, <2>3
<1> QED
  BY <1>5, <1>6, <1>7, <1>8, <1>9, <1>10, <1>11, <1>12, <1>13, <1>14, <1>15 DEF Step, Api

(* Every step is one of its thread alone.                                  *)
LEMMA StepApart ==
  ASSUME ControlOK, NEW t \in Threads, Step(t) \/ ClientCall(t)
  PROVE  Apart(t)
<1> DEFINE Moves == \/ \E l : Goto(t, l)
                    \/ \E l, b : Call(t, l, b)
                    \/ \E v : Return(t, v)
<1>1. CASE Moves
  BY <1>1, GotoApart, CallApart, ReturnApart
<1>2. CASE ClientCall(t) \/ ClientReturn(t)
  BY <1>2 DEF ClientCall, ClientReturn, ControlOK, Apart
<1>3. Add(t) \/ Attach(t) => Moves
  BY DEF Add, AddLock, AddFind, AddMark, AddUnlock, AddFull, AddStmtv,
     Attach, AttachSplit, EnvLock, EnvCreate, EnvUnlock, AttachCall, AttachDone
<1>4. Release(t) \/ Session(t) => Moves
  BY DEF Release, ReleaseFree, ReleaseLock, ReleaseClear, ReleaseUnlock, ReadStatus,
     Session, BeginCheck, BeginCall, EndCheck, EndCall
<1>5. Detach(t) => Moves
  BY DEF Detach, DetachCheck, DetachEnded, DetachCall, FreeCheck, FreeCall, CommitCheck, CommitCall
<1>6. Api(t) \/ UnlockAll(t) => Moves
  BY DEF Api, Connect, Finish, InitAgain, UnlockAll, UnlockAllStep
<1> QED
  BY <1>1, <1>2, <1>3, <1>4, <1>5, <1>6 DEF Step

LEMMA AllSmoothStep ==
  ASSUME IInv, Accounts, Orderly, Roomy, AllSmooth, NEW t \in Threads, Step(t) \/ ClientCall(t)
  PROVE  AllSmooth'
<1>1. Apart(t) /\ Smooth(t)'
  BY StepApart, SmoothStep DEF IInv, AllSmooth
<1>2. ASSUME NEW u \in Threads \ {t} PROVE Smooth(u)'
  BY <1>1, <1>2 DEF AllSmooth, Smooth, Apart
<1> QED
  BY <1>1, <1>2 DEF AllSmooth

LEMMA InitAllSmooth == Init => AllSmooth
BY DEF Init, AllSmooth, Smooth, UnlockSteps, FreeSteps, ReleaseSteps

(* Without failures and with room for every thread, the mutexes do their   *)
(* work: nobody unlocks one that another thread holds.                     *)
LEMMA InvariantRoomy ==
  ASSUME Orderly, Roomy
  PROVE  Spec => [](HoldsMutex /\ Accounts)
<1> DEFINE Inv == HoldsMutex /\ Accounts /\ AllSmooth
<1>1. Reliable = Mutexes
  BY DEF Roomy, Reliable
<1>2. HoldsMutex => TableExclusion
  BY <1>1, Sections DEF HoldsMutex, TableExclusion, Mutexes
<1>3. IInv /\ Inv /\ [Next]_vars => Inv'
  <2>1. CASE UNCHANGED vars
    <3>1. IInv /\ Inv => Accounts'
      BY <1>2, <2>1, NextAccounts
    <3> QED
      BY <2>1, <3>1 DEF vars, thread, HoldsMutex, AllSmooth, Smooth
  <2>2. ASSUME IInv, Inv, NEW t \in Threads, Step(t) \/ ClientCall(t)
        PROVE  Inv'
    <3>1. Accounts' /\ AllSmooth'
      BY <1>2, <2>2, StepAccounts, AllSmoothStep
    <3>2. HoldsMutex'
      BY <2>2, HoldsMutexStep DEF IInv, AllSmooth, Smooth
    <3> QED
      BY <3>1, <3>2
  <2> QED
    BY <2>1, <2>2 DEF Next
<1>4. Init => Inv
  BY InitHoldsMutex, InitAccounts, InitAllSmooth
<1> QED
  BY <1>3, <1>4, InvariantIInv, PTL DEF Spec

-----------------------------------------------------------------------------
(* What keeps the choice of a slot and its used flag together: one thread; *)
(* mutexes that ignore a stranger's unlock, and whose locks do not time    *)
(* out; or a program in which UNLOCK_ALL is never reached.                 *)
Guarded == \/ \A t, u \in Threads : t = u
           \/ OwnerChecked /\ Faults \intersect {"add_lock", "rel_lock"} = {}
           \/ Roomy

LEMMA InvariantExclusion ==
  ASSUME Orderly, Guarded
  PROVE  Spec => []TableExclusion
<1>1. CASE \A t, u \in Threads : t = u
  <2>1. TableExclusion
    BY <1>1 DEF TableExclusion
  <2> QED
    BY <2>1, PTL
<1>2. "dbv" \in Reliable /\ HoldsMutex => TableExclusion
  BY Sections DEF HoldsMutex, TableExclusion
<1>3. CASE OwnerChecked /\ Faults \intersect {"add_lock", "rel_lock"} = {}
  <2>1. "dbv" \in Reliable
    BY <1>3 DEF Reliable, LockCalls, Mutexes
  <2>2. Spec => []HoldsMutex
    BY <1>3, InvariantHoldsMutex
  <2> QED
    BY <1>2, <2>1, <2>2, PTL
<1>4. CASE Roomy
  <2>1. "dbv" \in Reliable
    BY <1>4 DEF Roomy, Reliable, Mutexes
  <2>2. Spec => []HoldsMutex
    BY <1>4, InvariantRoomy, PTL
  <2> QED
    BY <1>2, <2>1, <2>2, PTL
<1> QED
  BY <1>1, <1>3, <1>4 DEF Guarded

(* The inductive invariant of the table: each thread holds at each step    *)
(* what the function it is in expects, and the flags, handles and owners   *)
(* of the slots agree.                                                     *)
LEMMA InvariantAccounts ==
  ASSUME Orderly, Guarded
  PROVE  Spec => []Accounts
<1>1. Spec => []TableExclusion
  BY InvariantExclusion
<1>2. IInv /\ Accounts /\ TableExclusion /\ [Next]_vars => Accounts'
  BY NextAccounts
<1> QED
  BY <1>1, <1>2, InitAccounts, InvariantIInv, PTL DEF Spec

-----------------------------------------------------------------------------
(* No login on, call on, detach or double free of a connection that        *)
(* belongs to another thread, or to none: every access to a database       *)
(* structure is its owner's.                                               *)
THEOREM NoForeignUse ==
  ASSUME Orderly, Guarded
  PROVE  Spec => []OwnUse
<1>1. IInv /\ Accounts => OwnUse
  <2> SUFFICES ASSUME IInv, Accounts, NEW t \in Threads, pc[t] \in Using
               PROVE  Owns(t)
    BY DEF OwnUse, Owns
  <2>2. Held(t)
    BY DEF Accounts
  <2>3. CASE pc[t] \in {"add_stmtv", "att_split", "env_create", "env_unlock", "att_done"}
                          \union AttachCalls
    BY <2>2, <2>3 DEF Held, HeldAttach, Bare
  <2>4. CASE pc[t] \in {"rel_free", "rel_lock", "rel_clear"}
    BY <2>2, <2>4 DEF Held, HeldRelease
  <2>5. CASE pc[t] \in {"beg_attr", "beg_login", "beg_bind", "end_call", "det_call",
                        "free_call", "com_call"}
    BY <2>2, <2>5 DEF Held, HeldSession, Joined, LoggedIn
  <2> QED
    BY <2>3, <2>4, <2>5 DEF Using
<1> QED
  BY <1>1, InvariantAccounts, InvariantIInv, PTL

(* The used flag is set exactly while a slot belongs to a thread, and the  *)
(* thread still has the handle with which to give it back: no slot is lost *)
(* in _db_add, sqlo_server_attach or on an error path of sqlo_connect.     *)
THEOREM NoSlotLost ==
  ASSUME Orderly, Guarded
  PROVE  Spec => []SlotsAccounted
<1>1. Accounts => SlotsAccounted
  BY DEF Accounts, TableRight
<1> QED
  BY <1>1, InvariantAccounts, PTL

(* _db_release leaves nothing of a connection in its slot: the next owner  *)
(* finds no OCI handle and no flag of the last one.                        *)
THEOREM CleanSlots ==
  ASSUME Orderly, Guarded
  PROVE  Spec => []FreeIsClean
<1>1. Accounts => FreeIsClean
  BY DEF Accounts, TableRight
<1> QED
  BY <1>1, InvariantAccounts, PTL

(* A thread that believes what the functions return knows the state of its *)
(* connection, whichever of them failed on the way.                        *)
THEOREM TrueAnswers ==
  ASSUME Orderly, Guarded
  PROVE  Spec => []ViewTrue
<1>1. IInv /\ Accounts => ViewTrue
  <2> SUFFICES ASSUME IInv, Accounts, NEW t \in Threads, At(t, "idle")
               PROVE  CASE view[t] = "none"     -> \A s \in Slots : owner[s] # t
                        [] view[t] = "attached" -> /\ owner[dbh[t]] = t
                                                   /\ attached[dbh[t]] /\ ~session[dbh[t]]
                        [] view[t] = "session"  -> /\ owner[dbh[t]] = t
                                                   /\ attached[dbh[t]] /\ session[dbh[t]]
                                                   /\ res[dbh[t]] = OciHandles
                        [] view[t] = "broken"   -> owner[dbh[t]] = t
    BY DEF ViewTrue
  <2>1. /\ view[t] = "none" => HoldsNone(t)
        /\ view[t] \in {"attached", "broken"} => Joined(t)
        /\ view[t] = "session" => LoggedIn(t)
    BY DEF Accounts, Held, HeldClient, At
  <2>2. view[t] \in {"none", "attached", "session", "broken"}
    BY DEF IInv, DataOK
  <2> QED
    BY <2>1, <2>2 DEF HoldsNone, Joined, LoggedIn, Owns
<1> QED
  BY <1>1, InvariantAccounts, InvariantIInv, PTL

(* sqlo_finish that returns SQLO_SUCCESS has given the slot back.          *)
THEOREM FinishFrees ==
  ASSUME Orderly, Guarded
  PROVE  Spec => []FinishGivesBack
<1>1. Accounts => FinishGivesBack
  BY DEF Accounts, Held, HeldReturn, HoldsNone, FinishGivesBack, At
<1> QED
  BY <1>1, InvariantAccounts, PTL

(* The critical sections exclude each other with POSIX mutexes as well,    *)
(* where UNLOCK_ALL may take a mutex from its holder, as long as nothing   *)
(* fails and the table has a slot for every thread.                        *)
THEOREM PosixExclusion ==
  ASSUME Orderly, Roomy
  PROVE  Spec => []Exclusion
<1>1. Reliable = Mutexes
  BY DEF Roomy, Reliable
<1>2. HoldsMutex => Exclusion
  BY <1>1 DEF HoldsMutex, Exclusion
<1> QED
  BY <1>2, InvariantRoomy, PTL

-----------------------------------------------------------------------------
(* A step changes the owner of a slot in _db_add's mark, where it takes a  *)
(* free slot, and in _db_release's, where it gives back its own.           *)
LEMMA StepPool ==
  ASSUME IInv, Accounts, NEW t \in Threads, Step(t) \/ ClientCall(t)
  PROVE  Pool!Next \/ UNCHANGED owner
<1>1. CASE AddMark(t)
  <2>1. dbh[t] \in Slots /\ owner[dbh[t]] = NoThread /\ HoldsNone(t)
    BY <1>1 DEF AddMark, At, IInv, HandleOK, NeedsSlot, Accounts, Held, HeldAttach
  <2>2. UNCHANGED owner \/ owner' = [owner EXCEPT ![dbh[t]] = t]
    BY <1>1 DEF AddMark
  <2>3. owner' = [owner EXCEPT ![dbh[t]] = t] => Pool!Acquire(t, dbh[t])
    BY <2>1 DEF Pool!Acquire, HoldsNone
  <2> QED
    BY <2>1, <2>2, <2>3 DEF Pool!Next
<1>2. CASE ReleaseClear(t)
  <2>1. dbh[t] \in Slots /\ owner[dbh[t]] = t
    BY <1>2 DEF ReleaseClear, At, Accounts, Held, HeldRelease, Owns
  <2>2. Pool!Release(t, dbh[t])
    BY <1>2, <2>1 DEF ReleaseClear, Pool!Release
  <2> QED
    BY <2>1, <2>2 DEF Pool!Next
<1>3. CASE AddLock(t) \/ AddFind(t) \/ AddUnlock(t) \/ AddFull(t) \/ AddStmtv(t)
  BY <1>3 DEF table, AddLock, AddFind, AddUnlock, AddFull, AddStmtv
<1>4. CASE ReleaseFree(t) \/ ReleaseLock(t) \/ ReleaseUnlock(t) \/ ReadStatus(t)
  BY <1>4 DEF table, ReleaseFree, ReleaseLock, ReleaseUnlock, ReadStatus
<1>5. CASE Attach(t)
  BY <1>5 DEF table, Attach, AttachSplit, EnvLock, EnvCreate, EnvUnlock, AttachCall, AttachDone
<1>6. CASE Session(t)
  BY <1>6 DEF table, Session, BeginCheck, BeginCall, EndCheck, EndCall
<1>7. CASE Detach(t)
  BY <1>7 DEF table, Detach, DetachCheck, DetachEnded, DetachCall, FreeCheck, FreeCall,
     CommitCheck, CommitCall
<1>8. CASE Api(t) \/ UnlockAll(t) \/ ClientReturn(t) \/ ClientCall(t)
  BY <1>8 DEF table, Api, Connect, Finish, InitAgain, UnlockAll, ClientReturn, ClientCall
<1> QED
  BY <1>1, <1>2, <1>3, <1>4, <1>5, <1>6, <1>7, <1>8 DEF Step, Add, Release

(* The table implements the pool of handles: seen by who owns which slot,  *)
(* connecting threads only ever take a free one, hold one at a time and    *)
(* give back their own.                                                    *)
THEOREM TableIsPool ==
  ASSUME Orderly, Guarded
  PROVE  Spec => PoolSpec
<1>1. Init => Pool!Init
  BY DEF Init, Pool!Init
<1>2. IInv /\ Accounts /\ [Next]_vars => [Pool!Next]_owner
  <2>1. CASE UNCHANGED vars
    BY <2>1 DEF vars, table
  <2> QED
    BY <2>1, StepPool DEF Next
<1>3. Spec => Pool!Spec
  BY <1>1, <1>2, InvariantIInv, InvariantAccounts, PTL DEF Spec, Pool!Spec
<1> QED
  BY <1>3 DEF PoolSpec
=============================================================================
