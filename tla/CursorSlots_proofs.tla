------------------------- MODULE CursorSlots_proofs -------------------------
(***************************************************************************)
(* Proofs about Cursors, continued: what is executed is what was given, no *)
(* slot is lost, a mark tells what goes on, and an open query has run.     *)
(* Each invariant is proved by the steps of NextIs on top of those of      *)
(* Cursors_proofs.                                                         *)
(***************************************************************************)
EXTENDS Cursors_proofs

-----------------------------------------------------------------------------
(* sqlo_exec executes the statement it is given.                           *)

\* In blocking mode sqlo_open is sqlo_open2 without a handle.
LEMMA OpenAsOpen2 ==
  ASSUME NEW x \in Sound, ~x.nb, NEW kind, NEW a, NEW r \in Open(x, kind, a)
  PROVE  r \in Open2(x, NoSth, kind, a)
<1>1. PICK y \in GetBlocking(x) :
        \/ y.ret # "ok" /\ r = y
        \/ /\ y.ret = "ok"
           /\ r \in Then(IF y.db.nb THEN SetBlocking(y.db, TRUE) ELSE {Result(y.db, "ok")},
                LAMBDA z : Then(NewParsed(z, kind), LAMBDA p :
                  IF ~y.db.nb THEN Reopen(p, FirstFree(z), a)
                  ELSE UNION {Then(SetBlocking(q.db, FALSE), LAMBDA m : {Result(m, q.ret)}) :
                                q \in Reopen(p, FirstFree(z), a)}))
  BY DEF Open, Then
<1>2. ~y.db.nb
  BY GetBlockingIs
<1>3. ~GoesOn(y.db, NoSth)
  BY CursorAssumption DEF GoesOn, Sths, NoSth
<1>4. CASE y.ret # "ok"
  BY <1>1, <1>4 DEF Open2, Then
<1>5. CASE y.ret = "ok"
  <2>1. \A z, p : (IF ~y.db.nb THEN Reopen(p, FirstFree(z), a)
                   ELSE UNION {Then(SetBlocking(q.db, FALSE), LAMBDA m : {Result(m, q.ret)}) :
                                 q \in Reopen(p, FirstFree(z), a)})
                  = Reopen(p, FirstFree(z), a)
    BY <1>2
  <2>2. r \in Then(NewParsed(y.db, kind), LAMBDA p : Reopen(p, FirstFree(y.db), a))
    BY <1>1, <1>2, <1>5, <2>1 DEF Then, Result
  <2> QED
    BY <1>3, <1>5, <2>2 DEF Open2, Then
<1> QED
  BY <1>4, <1>5

\* Nothing switches to non-blocking mode but sqlo_set_blocking, and sqlo_open
\* when it switches back.
NbOff == "blocking" \notin ClientCalls => ~db.nb

LEMMA NbOffOpen ==
  ASSUME Base, NbOff, OpenStep
  PROVE  /\ NbOff'
         /\ db'.up = db.up /\ db'.xhp = db.xhp
         /\ db'.xstmt = db.xstmt /\ db'.xran = db.xran
         /\ "blocking" \notin ClientCalls => db'.nb = db.nb
<1>1. PICK c \in Cursors, kind \in Kinds, a \in Args \union {NoArgs} :
        \E r \in Open(db, kind, a) : DoOpen(c, kind, a, r)
  BY DEF OpenStep
<1>2. PICK r \in Open(db, kind, a) : DoOpen(c, kind, a, r)
  BY <1>1
<1>3. db \in Sound /\ kind \in AllKinds /\ db' = r.db
  BY <1>2, KindAssumption DEF Base, DoOpen, Took
<1>4. /\ r.db.up = db.up /\ r.db.xhp = db.xhp
      /\ r.db.xstmt = db.xstmt /\ r.db.xran = db.xran
  BY <1>3, OpenIs DEF WithinMode, Switched
<1>5. ASSUME "blocking" \notin ClientCalls
      PROVE  db'.nb = db.nb
  <2>1. ~db.nb
    BY <1>5 DEF NbOff
  <2>2. r \in Open2(db, NoSth, kind, a)
    BY <1>3, <2>1, OpenAsOpen2
  <2>3. SameConn(db, r.db)
    BY <1>3, <2>2, Open2Is
  <2> QED
    BY <1>3, <2>3 DEF SameConn
<1> QED
  BY <1>3, <1>4, <1>5 DEF NbOff

LEMMA NbOffStep == Base /\ NbOff /\ [Next]_vars => NbOff'
<1> SUFFICES ASSUME Base, NbOff, [Next]_vars
             PROVE  NbOff'
  OBVIOUS
<1>1. db \in Sound
  BY DEF Base
<1>2. ASSUME db'.nb = db.nb
      PROVE  NbOff'
  BY <1>2 DEF NbOff
<1>3. CASE UNCHANGED vars
  BY <1>2, <1>3 DEF vars
<1>4. CASE SameModes
  BY <1>2, <1>4 DEF SameModes
<1>5. CASE BlockingStep
  BY <1>5 DEF BlockingStep, DoBlocking, Took, Call, NbOff
<1>6. CASE AutocommitStep
  <2>1. PICK on \in BOOLEAN : \E r \in SetAutocommit(db, on) : DoAutocommit(on, r)
    BY <1>6 DEF AutocommitStep
  <2> QED
    BY <1>1, <1>2, <2>1, SetAutocommitIs DEF DoAutocommit, Took
<1>7. CASE EndStep
  <2>1. PICK r \in DbFinish(db) \union DbFree(db) :
          \E op \in {"finish", "free"} : DoEnd(op, r)
    BY <1>7 DEF EndStep
  <2> QED
    BY <1>1, <1>2, <2>1, DbEndIs DEF DoEnd, Took, Emptied
<1>8. CASE ConnectStep
  <2>1. PICK r \in DbConnect(db) : DoConnect(r)
    BY <1>8 DEF ConnectStep
  <2> QED
    BY <1>1, <2>1, DbConnectIs DEF DoConnect, Took, NbOff
<1> QED
  BY <1>3, <1>4, <1>5, <1>6, <1>7, <1>8, NbOffOpen, NextIs, SameModesIs

\* No parse fails and no handle fails to be freed, and the application does
\* not connect anew with what a broken off sqlo_exec has left.
ShotAlone ==
  /\ "prepare" \notin Faults /\ "free" \notin Faults
  /\ ~({"blocking", "free", "connect"} \subseteq ClientCalls)

\* The handle of sqlo_exec is there only while the call on it goes on, or since
\* a break of it that did not succeed.
ShotHeld ==
  db.xhp # "null" =>
    IF db.up
    THEN /\ db.xhp = "live" /\ db.nb /\ Busy
         /\ \/ last.call.op = "exec" /\ db.xstmt = last.call.arg
            \/ last.call.op = "break"
    ELSE "connect" \notin ClientCalls

ShotInv == NbOff /\ ShotHeld /\ ExecRunsItsStatement

\* A call that is none of exec, break and free is made with no handle there.
LEMMA NoShot ==
  ASSUME Base, ShotHeld, NEW op, NEW c, NEW kind, NEW a, NEW r,
         Took(Call(op, c, kind, a), r), op \notin {"exec", "break", "free"}
  PROVE  db.xhp = "null"
<1>1. Busy => last.call.op = op
  BY DEF Took, Call
<1>2. op \in ClientCalls /\ (db.up \/ op = "connect")
  BY DEF Took, Call
<1> QED
  BY <1>1, <1>2 DEF ShotHeld

LEMMA ShotStep == ShotAlone /\ Base /\ Base' /\ ShotInv /\ [Next]_vars => ShotInv'
<1> SUFFICES ASSUME ShotAlone, Base, Base', ShotInv, [Next]_vars
             PROVE  ShotHeld' /\ ExecRunsItsStatement'
  BY NbOffStep DEF ShotInv
<1>0. db \in Sound /\ NbOff /\ ShotHeld /\ ExecRunsItsStatement
  BY DEF Base, ShotInv
<1>1. ASSUME NEW op, NEW c, NEW kind, NEW a, NEW r,
             Took(Call(op, c, kind, a), r), op \notin {"exec", "break", "free"},
             db'.xhp \in {db.xhp, DeadHandle(db.xhp)}
      PROVE  ShotHeld' /\ ExecRunsItsStatement'
  <2>1. db.xhp = "null"
    BY <1>0, <1>1, NoShot
  <2>2. db'.xhp = "null"
    BY <1>1, <2>1 DEF DeadHandle
  <2>3. last'.call.op = op
    BY <1>1 DEF Took, Call
  <2> QED
    BY <1>1, <2>2, <2>3 DEF ShotHeld, ExecRunsItsStatement
<1>2. CASE UNCHANGED vars
  BY <1>0, <1>2 DEF vars, ShotHeld, Busy, ExecRunsItsStatement
<1>3. CASE OpenStep
  <2>1. db'.xhp = db.xhp
    BY <1>0, <1>3, NbOffOpen
  <2> QED
    BY <1>1, <1>3, <2>1 DEF OpenStep, DoOpen
<1>4. CASE \/ Open2Step \/ PrepareStep \/ NewCursorStep
           \/ ReopenStep \/ BindStep \/ DefineStep \/ ExecuteStep \/ FetchStep \/ ResultStep
           \/ CloseStep \/ OwnStep
  <2>1. db'.xhp = db.xhp
    BY <1>4, SameConnIs DEF SameConn
  <2>2. CASE Open2Step
    BY <1>1, <2>1, <2>2 DEF Open2Step, DoOpen2
  <2>3. CASE PrepareStep
    BY <1>1, <2>1, <2>3 DEF PrepareStep, DoPrepare
  <2>4. CASE NewCursorStep
    BY <1>1, <2>1, <2>4 DEF NewCursorStep, DoNewCursor
  <2>5. CASE ReopenStep
    BY <1>1, <2>1, <2>5 DEF ReopenStep, DoReopen
  <2>6. CASE BindStep \/ DefineStep
    BY <1>1, <2>1, <2>6 DEF BindStep, DefineStep, DoOn
  <2>7. CASE ExecuteStep \/ FetchStep \/ ResultStep
    BY <1>1, <2>1, <2>7 DEF ExecuteStep, FetchStep, ResultStep, DoOn
  <2>8. CASE CloseStep
    BY <1>1, <2>1, <2>8 DEF CloseStep, DoClose
  <2>9. CASE OwnStep
    <3>1. PICK op \in {"exists", "run"} : \E kind, a, r : DoShot(op, kind, a, r)
      BY <2>9 DEF OwnStep
    <3> QED
      BY <1>1, <2>1, <3>1 DEF DoShot
  <2> QED
    BY <1>4, <2>2, <2>3, <2>4, <2>5, <2>6, <2>7, <2>8, <2>9
<1>5. CASE AutocommitStep
  <2>1. PICK on \in BOOLEAN : \E r \in SetAutocommit(db, on) : DoAutocommit(on, r)
    BY <1>5 DEF AutocommitStep
  <2>2. PICK r \in SetAutocommit(db, on) : DoAutocommit(on, r)
    BY <2>1
  <2>3. db'.xhp = db.xhp
    BY <1>0, <2>2, SetAutocommitIs DEF DoAutocommit, Took
  <2> QED
    BY <1>1, <2>2, <2>3 DEF DoAutocommit
<1>6. CASE BlockingStep
  <2>1. PICK on \in BOOLEAN : \E r \in SetBlocking(db, on) : DoBlocking(on, r)
    BY <1>6 DEF BlockingStep
  <2>2. PICK r \in SetBlocking(db, on) : DoBlocking(on, r)
    BY <2>1
  <2>3. db'.xhp = db.xhp
    BY <1>0, <2>2, SetBlockingIs DEF DoBlocking, Took, Switched
  <2> QED
    BY <1>1, <2>2, <2>3 DEF DoBlocking
<1>7. CASE EndStep
  <2>1. PICK op \in {"finish", "free"} :
          \E r \in DbFinish(db) \union DbFree(db) : DoEnd(op, r)
    BY <1>7 DEF EndStep
  <2>2. PICK r \in DbFinish(db) \union DbFree(db) : DoEnd(op, r)
    BY <2>1
  <2>3. /\ ~db'.up /\ db'.xhp = DeadHandle(db.xhp)
        /\ Took(Call(op, NoCursor, NoKind, NoArgs), r)
    BY <1>0, <2>2, DbEndIs DEF DoEnd, Took, Emptied
  <2>4. CASE op = "finish"
    BY <1>1, <2>3, <2>4
  <2>5. CASE op = "free"
    <3>1. last'.call.op = "free" /\ "free" \in ClientCalls /\ db.up
      BY <2>3, <2>5 DEF Took, Call
    <3>2. CASE db.xhp = "null"
      BY <2>3, <3>1, <3>2 DEF DeadHandle, ShotHeld, ExecRunsItsStatement
    <3>3. CASE db.xhp # "null"
      <4>1. db.nb
        BY <1>0, <3>1, <3>3 DEF ShotHeld
      <4>2. "connect" \notin ClientCalls
        BY <1>0, <3>1, <4>1 DEF NbOff, ShotAlone
      <4> QED
        BY <2>3, <3>1, <4>2 DEF ShotHeld, ExecRunsItsStatement
    <3> QED
      BY <3>2, <3>3
  <2> QED
    BY <2>4, <2>5
<1>8. CASE ConnectStep
  <2>1. PICK r \in DbConnect(db) : DoConnect(r)
    BY <1>8 DEF ConnectStep
  <2>2. db'.xhp = db.xhp
    BY <1>0, <2>1, DbConnectIs DEF DoConnect, Took
  <2> QED
    BY <1>1, <2>1, <2>2 DEF DoConnect
<1>9. CASE ExecStep
  <2>1. PICK stmt \in Statements : \E r \in Exec(db, stmt) : DoShot("exec", NoKind, stmt, r)
    BY <1>9 DEF ExecStep
  <2>2. PICK r \in Exec(db, stmt) : DoShot("exec", NoKind, stmt, r)
    BY <2>1
  <2>3. /\ Took(Call("exec", NoCursor, NoKind, stmt), r) /\ db' = r.db /\ db.up
        /\ last'.call.op = "exec" /\ last'.call.arg = stmt /\ last'.ret = r.ret
        /\ Busy => last.call.op = "exec" /\ last.call.arg = stmt
    BY <2>2 DEF DoShot, Took, Call
  <2>4. ExecHeld(db, stmt)
    BY <1>0, <2>3 DEF ShotHeld, ExecHeld
  <2>5. r.db.up = db.up /\ ExecDone(r.db, stmt, r.ret)
    BY <1>0, <2>2, <2>4, ExecIs DEF ShotAlone, Apart
  <2> QED
    BY <2>3, <2>5 DEF ExecDone, ShotHeld, Busy, ExecRunsItsStatement
<1>10. CASE BreakStep
  <2>1. PICK r \in Break(db) : DoBreak(r)
    BY <1>10 DEF BreakStep
  <2>2. /\ r.ret \in Rets /\ r.db.up = db.up /\ r.db.nb = db.nb
        /\ XBroken(db, r.db, r.ret)
    BY <1>0, BreakIs
  <2>3. /\ db' = r.db /\ db.up /\ last'.call.op = "break"
        /\ last'.ret = IF Busy /\ r.ret # "ok" THEN "busy" ELSE r.ret
    BY <2>1, BreakOutcomeIs DEF DoBreak, Took, Call
  <2> QED
    BY <1>0, <2>2, <2>3 DEF XBroken, ShotHeld, Busy, ExecRunsItsStatement
<1> QED
  BY <1>2, <1>3, <1>4, <1>5, <1>6, <1>7, <1>8, <1>9, <1>10, NextIs

\* What sqlo_exec executes is the statement it was given, whatever goes on and
\* is broken off, if no parse fails, no handle fails to be freed, and no
\* connection is made anew with what a broken off sqlo_exec has left.
THEOREM ExecutesItsStatement == ASSUME ShotAlone PROVE Spec => []ExecRunsItsStatement
<1>1. Init => ShotInv
  BY DEF Init, EmptyDb, ShotInv, NbOff, ShotHeld, ExecRunsItsStatement
<1>2. ShotAlone /\ ShotInv => ExecRunsItsStatement
  BY DEF ShotInv
<1>3. Base /\ Base' /\ ShotInv /\ [Next]_vars => ShotInv'
  BY ShotStep
<1> QED
  BY <1>1, <1>2, <1>3, BaseInit, BaseStep, PTL DEF Spec

-----------------------------------------------------------------------------
(* The slots: which statement goes on, which is in use, what has run.      *)

\* No value fails to bind and no handle to be freed; what goes on can be told
\* from what is marked, and is no nested table; sqlo_exists, which does not
\* close what it failed to fetch from, does not fail; and what sqlo_server_free
\* leaves is not used again.
Orderly ==
  /\ "bind" \notin Faults /\ "free" \notin Faults
  /\ "break" \in ClientCalls => Tidy
  /\ "blocking" \in ClientCalls => /\ Tidy /\ "ntable" \notin ClientCalls
                                   /\ "attr" \notin Faults /\ "toggle" \notin Faults
  /\ "exists" \in ClientCalls => "fetch" \notin Faults
  /\ ~({"free", "connect"} \subseteq ClientCalls)

\* sqlo_prepare and sqlo_define_ntable, which lose the slot they have taken when
\* a later step of theirs fails, do not fail.
NoLeak ==
  /\ "prepare" \in ClientCalls => \A l \in {"prepare", "type", "prefetch"} : l \notin Faults
  /\ "ntable" \in ClientCalls => "define" \notin Faults

\* The application defines no columns: only the first execution does.
NoDefines == "define" \notin ClientCalls /\ "ntable" \notin ClientCalls

\* The columns of what is reopened were defined by the library, so that it is
\* executed; what sqlo_execute opens stays executed.
OpenRuns ==
  /\ "reopen" \in ClientCalls \/ "reopen_plain" \in ClientCalls => NoDefines
  /\ "execute" \in ClientCalls => "execute" \notin Faults
ReopenRuns == "reopen" \in ClientCalls => NoDefines

\* A call that goes on is made in non-blocking mode, on the statement in the
\* variable it was given; no call goes on that was not the last.
Going ==
  /\ Busy => db.nb
  /\ Busy /\ last.call.cur \in Cursors =>
       cur[last.call.cur] \in Sths /\ db.busy = cur[last.call.cur]
  /\ db.busy \in Sths => Busy /\ last.call.cur \in Cursors

\* A free slot has no columns defined, which the next statement there would
\* take for its own and not execute.
CleanSlots ==
  db.up \/ "connect" \in ClientCalls => \A s \in Sths : ~db.st[s].used => ~db.st[s].defs

\* What is known of a statement in use, which goes on or not: it has its handle;
\* a query whose columns are defined has run; so has a nested table that is open;
\* a REF CURSOR is executed; and so is a query that is open.
InOrder(t, going) ==
  t.used =>
    /\ t.hp = "live"
    /\ NoDefines /\ t.ctype = "default" /\ t.defs => t.ran
    /\ t.ctype = "ntable" /\ t.opened => t.ran
    /\ "execute" \notin Faults /\ t.ctype = "ref" /\ ~going => t.exec
    /\ OpenRuns /\ t.opened /\ t.stype = "query" /\ ~going => t.exec
AllInOrder == \A s \in Sths : InOrder(db.st[s], db.busy = s)

\* RanWithArgs, also of a call that goes on.
RanGoing ==
  /\ last.call.op \in {"open", "open2", "reopen"}
  /\ last.ret \in {"ok", "busy"} /\ last.call.arg # NoArgs
  /\ db.st[cur[last.call.cur]].stype = "query"
  => db.st[cur[last.call.cur]].with = last.call.arg

SlotsInv ==
  /\ StillTruth /\ Going /\ CleanSlots /\ AllInOrder
  /\ NoLeak => NoLostSlot
  /\ ReopenRuns => RanGoing

\* What the lemmas about the steps assume.
Known ==
  /\ Orderly /\ Base /\ Base' /\ HandleInv /\ NbOff /\ SlotsInv
  /\ "ntable" \notin ClientCalls => MarkInv

\* The call op goes on with the statement in slot h, and finds it as it left it.
Resumes(op, h) ==
  LET o == db.st[h]
  IN  /\ op \in StillOps /\ o.hp = "live" /\ o.still
      /\ op \in Reopens => o.stype = "query" /\ o.ctype # "ref" /\ (o.ran \/ ~o.defs)
      /\ op = "open2" => GoesOn(db, h)
      /\ op = "execute" => o.prepared /\ ~ToDescribe(db, h)
      /\ op = "fetch" /\ o.stype = "query" => o.exec

\* A call is made while none goes on, or resumes the one that does.
LEMMA Alone ==
  ASSUME Known, NEW op, NEW c, NEW kind, NEW a, NEW r, Took(Call(op, c, kind, a), r),
         op \notin {"break", "free"}
  PROVE  /\ db' = r.db /\ last'.ret = r.ret
         /\ last'.call.op = op /\ last'.call.cur = c /\ last'.call.arg = a
         /\ op \in ClientCalls /\ (db.up \/ (op = "connect" /\ "connect" \in ClientCalls))
         /\ db.nb => /\ Tidy /\ "attr" \notin Faults /\ "toggle" \notin Faults
                     /\ "ntable" \notin ClientCalls /\ MarkInv
         /\ Busy => /\ db.nb
                    /\ last.call.op = op /\ last.call.cur = c /\ last.call.arg = a
                    /\ c \in Cursors => cur[c] = db.busy /\ db.busy \in Sths
         /\ db.busy \in Sths =>
              /\ db.nb /\ Busy /\ c \in Cursors /\ cur[c] = db.busy
              /\ Resumes(op, db.busy)
<1>1. /\ db' = r.db /\ last'.ret = r.ret
      /\ last'.call.op = op /\ last'.call.cur = c /\ last'.call.arg = a
      /\ op \in ClientCalls /\ (db.up \/ (op = "connect" /\ "connect" \in ClientCalls))
      /\ Busy => last.call.op = op /\ last.call.cur = c /\ last.call.arg = a
  BY DEF Took, Call
<1>2. db.nb => /\ Tidy /\ "attr" \notin Faults /\ "toggle" \notin Faults
               /\ "ntable" \notin ClientCalls /\ MarkInv
  BY DEF Known, NbOff, Orderly
<1>3. Going /\ StillTruth /\ TypeOK /\ HandleInv /\ NoSth \notin Sths
  BY CursorAssumption DEF Known, SlotsInv, Base, Sths, NoSth
<1>4. Busy => db.nb /\ (c \in Cursors => cur[c] = db.busy /\ db.busy \in Sths)
  BY <1>1, <1>3 DEF Going
<1>5. ASSUME db.busy \in Sths
      PROVE  /\ db.nb /\ Busy /\ c \in Cursors /\ cur[c] = db.busy
             /\ Resumes(op, db.busy)
  <2>1. db.nb /\ Busy /\ c \in Cursors /\ cur[c] = db.busy
    BY <1>1, <1>3, <1>4, <1>5 DEF Going
  <2>2. db.st[cur[c]].still /\ cur[c] # NoSth
    BY <1>3, <1>5, <2>1 DEF StillTruth
  <2>3. StillGoing(c)
    BY <1>2, <1>3, <2>1, <2>2 DEF HandleInv, StillHeld
  <2>4. BusyGoing(c)
    BY <1>2, <2>1, <2>2 DEF MarkInv, BusyHeld
  <2>5. Resumes(op, cur[c])
    BY <1>1, <2>1, <2>2, <2>3, <2>4 DEF StillGoing, BusyGoing, Resumes, StillOps, BusyOps, Reopens
  <2> QED
    BY <2>1, <2>5
<1> QED
  BY <1>1, <1>2, <1>4, <1>5

\* The statements the application holds after a call that gave variable c the
\* slot s, or took its statement.
LEMMA HeldIs ==
  ASSUME TypeOK, NEW c \in Cursors, NEW s \in Sths
  PROVE  /\ cur' = cur => Held' = Held
         /\ cur' = Opened(c, s) => /\ s \in Held' /\ cur'[c] = s
                                   /\ Held \ {cur[c]} \subseteq Held'
         /\ cur' = Gone(c) => Held \ {cur[c]} \subseteq Held'
<1>1. s # NoSth
  BY CursorAssumption DEF Sths, NoSth
<1>2. cur \in [Cursors -> Sths \union {NoSth}]
  BY DEF TypeOK
<1>3. ASSUME cur' = Opened(c, s)
      PROVE  s \in Held' /\ cur'[c] = s /\ Held \ {cur[c]} \subseteq Held'
  <2>1. cur'[c] = s /\ \A e \in Cursors : e # c => cur'[e] = cur[e]
    BY <1>2, <1>3 DEF Opened
  <2>2. Held' = {cur'[e] : e \in Cursors} \ {NoSth}
    BY DEF Held
  <2> QED
    BY <1>1, <2>1, <2>2 DEF Held
<1>4. ASSUME cur' = Gone(c)
      PROVE  Held \ {cur[c]} \subseteq Held'
  <2>1. \A e \in Cursors : e # c => cur'[e] = cur[e]
    BY <1>2, <1>4 DEF Gone
  <2>2. Held' = {cur'[e] : e \in Cursors} \ {NoSth}
    BY DEF Held
  <2> QED
    BY <1>1, <2>1, <2>2 DEF Held
<1> QED
  BY <1>3, <1>4 DEF Held

\* Of the other slots than s, no more has changed than that one has columns
\* defined for a nested table.
Aside(s) ==
  \A u \in Sths \ {s} :
    LET o == db.st[u]
        t == db'.st[u]
    IN  /\ t.used = o.used /\ t.still = o.still /\ t.opened = o.opened
        /\ t.stype = o.stype /\ t.exec = o.exec /\ t.ran = o.ran
        /\ t.ctype = o.ctype /\ t.hp = o.hp
        /\ t.defs => o.defs \/ (t.used /\ "ntable" \in ClientCalls)

\* The call on slot s goes on, or it has ended.
Settled(s) ==
  /\ db'.st[s].still <=> last'.ret = "busy"
  /\ db'.busy = s <=> last'.ret = "busy"
  /\ last'.ret = "busy" =>
       db'.nb /\ last'.call.cur \in Cursors /\ cur'[last'.call.cur] = s

\* The step worked on slot s.
LEMMA AtSlot ==
  ASSUME Known, db.up, NEW s \in Sths, Aside(s),
         db.busy \notin Sths \ {s}, db'.busy \in {db.busy, NoSth, s},
         Settled(s), InOrder(db'.st[s], db'.busy = s), db'.st[s].used \/ ~db'.st[s].defs,
         NoLeak /\ db'.st[s].used => s \in Held', Held \ {s} \subseteq Held',
         ReopenRuns => RanGoing'
  PROVE  SlotsInv'
<1> DEFINE t(u) == db'.st[u]
           o(u) == db.st[u]
<1>1. SlotsInv /\ NoSth \notin Sths
  BY CursorAssumption DEF Known, Sths, NoSth
<1>2. \A u \in Sths \ {s} : db.busy # u /\ db'.busy # u
  BY <1>1
<1>3. StillTruth'
  <2>1. \A u \in Sths \ {s} : ~o(u).still
    BY <1>1, <1>2 DEF SlotsInv, StillTruth
  <2>2. \A u \in Sths \ {s} : ~t(u).still
    BY <2>1 DEF Aside
  <2>3. t(s).still <=> db'.busy = s
    BY DEF Settled
  <2>4. \A u \in Sths : t(u).still <=> db'.busy = u
    BY <1>2, <2>2, <2>3
  <2> QED
    BY <2>4 DEF StillTruth
<1>4. Going'
  BY <1>2 DEF Going, Settled, Busy
<1>5. CleanSlots'
  <2>1. \A u \in Sths : ~o(u).used => ~o(u).defs
    BY <1>1 DEF SlotsInv, CleanSlots
  <2>2. \A u \in Sths \ {s} : ~t(u).used => ~t(u).defs
    BY <2>1 DEF Aside
  <2>3. \A u \in Sths : ~t(u).used => ~t(u).defs
    BY <2>2
  <2> QED
    BY <2>3 DEF CleanSlots
<1>6. AllInOrder'
  <2>1. ASSUME NEW u \in Sths \ {s}
        PROVE  InOrder(t(u), db'.busy = u)
    <3>1. InOrder(o(u), FALSE)
      BY <1>1, <1>2 DEF SlotsInv, AllInOrder, InOrder
    <3>2. db'.busy # u
      BY <1>2
    <3>3. InOrder(t(u), FALSE)
      BY <3>1 DEF Aside, InOrder, NoDefines
    <3> QED
      BY <3>2, <3>3 DEF InOrder
  <2>2. \A u \in Sths : InOrder(t(u), db'.busy = u)
    BY <2>1
  <2> QED
    BY <2>2 DEF AllInOrder
<1>7. NoLeak => NoLostSlot'
  <2> SUFFICES ASSUME NoLeak, NEW u \in Sths, t(u).used
               PROVE  u \in Held'
    BY DEF NoLostSlot, UsedSths
  <2>1. CASE u = s
    BY <2>1
  <2>2. CASE u # s
    <3>1. o(u).used
      BY <2>2 DEF Aside
    <3>2. u \in Held
      BY <1>1, <3>1 DEF SlotsInv, NoLostSlot, UsedSths
    <3> QED
      BY <2>2, <3>2
  <2> QED
    BY <2>1, <2>2
<1> QED
  BY <1>3, <1>4, <1>5, <1>6, <1>7 DEF SlotsInv

\* The step worked on no slot.
LEMMA AtNoSlot ==
  ASSUME Known, db.up \/ "connect" \in ClientCalls, db'.st = db.st,
         db.busy \notin Sths, db'.busy \notin Sths, Held \subseteq Held',
         last'.ret = "busy" => db'.nb /\ last'.call.cur \notin Cursors,
         ReopenRuns => RanGoing'
  PROVE  SlotsInv'
<1>1. SlotsInv
  BY DEF Known
<1>2. StillTruth' /\ Going' /\ CleanSlots'
  BY <1>1 DEF SlotsInv, StillTruth, Going, CleanSlots, Busy
<1>3. AllInOrder'
  <2>1. \A s \in Sths : db.busy # s /\ db'.busy # s /\ db'.st[s] = db.st[s]
    OBVIOUS
  <2> QED
    BY <1>1, <2>1 DEF SlotsInv, AllInOrder, InOrder
<1>4. NoLeak => NoLostSlot'
  BY <1>1 DEF SlotsInv, NoLostSlot, UsedSths
<1> QED
  BY <1>2, <1>3, <1>4 DEF SlotsInv

\* A statement made in the place of o, which was clean.
LEMMA NewInOrder ==
  ASSUME "free" \notin Faults, NEW o, ~o.defs, ~o.still, NEW t, NEW kind, NEW a, NEW ret,
         ret \in {"ok", "error", "busy"}, NewRun(o, kind, a, t, ret),
         ret # "error" => t.used,
         ret = "busy" => ~t.opened /\ (t.ran \/ ~t.defs)
  PROVE  /\ InOrder(t, ret = "busy") /\ (t.used \/ ~t.defs)
         /\ ret = "error" => ~t.used /\ ~t.still
<1>1. CASE ret = "error"
  BY <1>1 DEF NewRun, InOrder
<1>2. CASE ret = "ok"
  BY <1>2 DEF NewRun, InOrder
<1>3. CASE ret = "busy"
  BY <1>3 DEF NewRun, InOrder
<1> QED
  BY <1>1, <1>2, <1>3

\* What is known of the slot that a new statement is made in.
LEMMA FreeIs ==
  ASSUME Known, db.up, NEW s, s = FirstFree(db), FreeSths(db) # {}
  PROVE  /\ s \in Sths /\ s \in FreeSths(db) /\ db.busy # s
         /\ ~db.st[s].used /\ ~db.st[s].defs /\ ~db.st[s].still
<1>1. s \in Sths /\ ~db.st[s].used
  BY FirstFreeIn
<1>2. db.busy \notin FreeSths(db)
  BY BusyNotFree DEF Known
<1>3. s \in FreeSths(db)
  BY <1>1 DEF FreeSths
<1>4. ~db.st[s].defs /\ (db.st[s].still <=> db.busy = s)
  BY <1>1 DEF Known, SlotsInv, CleanSlots, StillTruth
<1> QED
  BY <1>1, <1>2, <1>3, <1>4

LEMMA WithinAside ==
  ASSUME NEW s \in Sths, WithinMode(db, s, db')
  PROVE  Aside(s) /\ db'.busy \in {db.busy, s, NoSth}
BY DEF WithinMode, Aside

\* A new statement was made in slot s and is, if it has not failed, in variable c.
LEMMA AtNew ==
  ASSUME Known, db.up, NEW s, s = FirstFree(db), FreeSths(db) # {}, db.busy \notin Sths,
         NEW c \in Cursors, cur[c] = NoSth, NEW kind, NEW a, NEW r,
         WithinMode(db, s, r.db), NewOpened(db, s, r.db, r.ret),
         NewRun(db.st[s], kind, a, r.db.st[s], r.ret),
         db' = r.db, last'.ret = r.ret, last'.call.cur = c, last'.call.arg = a,
         r.ret = "busy" => db'.nb,
         IF r.ret = "error" THEN cur' = cur \/ cur' = Gone(c) ELSE cur' = Opened(c, s)
  PROVE  SlotsInv'
<1> DEFINE o == db.st[s]
           t == r.db.st[s]
<1>1. s \in Sths /\ db.busy # s /\ ~o.defs /\ ~o.still
  BY FreeIs
<1>2. TypeOK /\ "free" \notin Faults /\ NoSth \notin Sths
  BY CursorAssumption DEF Known, Base, Orderly, Sths, NoSth
<1>3. /\ r.ret \in {"ok", "error", "busy"}
      /\ r.ret # "error" => t.used
      /\ r.ret = "busy" => ~t.opened /\ (t.ran \/ ~t.defs)
  BY DEF NewOpened
<1> HIDE DEF t
<1>4. /\ InOrder(t, r.ret = "busy") /\ (t.used \/ ~t.defs)
      /\ r.ret = "error" => ~t.used /\ ~t.still
  BY <1>1, <1>2, <1>3, NewInOrder DEF t
<1>5. /\ t.still <=> r.ret = "busy"
      /\ r.db.busy = s <=> r.ret = "busy"
  BY <1>1, <1>2, <1>3, <1>4 DEF NewOpened, t
<1>6. /\ Held \subseteq Held'
      /\ r.ret # "error" => s \in Held' /\ cur'[c] = s
  BY <1>1, <1>2, HeldIs DEF Held
<1>7. Aside(s) /\ db'.busy \in {db.busy, NoSth, s} /\ db'.st[s] = t
  BY <1>1, WithinAside DEF t
<1>8. Settled(s)
  BY <1>5, <1>6, <1>7 DEF Settled
<1>9. ReopenRuns => RanGoing'
  BY <1>1, <1>3, <1>6, <1>7 DEF RanGoing, NewRun, t
<1> QED
  BY <1>1, <1>3, <1>4, <1>5, <1>6, <1>7, <1>8, <1>9, AtSlot

LEMMA SlotsOpen == Known /\ OpenStep => SlotsInv'
<1> SUFFICES ASSUME Known, NEW c \in Cursors, NEW kind \in Kinds, NEW a \in Args \union {NoArgs},
                    NEW r \in Open(db, kind, a), DoOpen(c, kind, a, r)
             PROVE  SlotsInv'
  BY DEF OpenStep
<1>1. /\ kind \in AllKinds /\ db \in Sound /\ TypeOK /\ NoSth \notin Sths
      /\ "bind" \notin Faults
  BY KindAssumption, CursorAssumption DEF Known, Base, Orderly, Sths, NoSth
<1>2. /\ cur[c] = NoSth /\ Took(Call("open", c, kind, a), r)
      /\ cur' = IF Fails(r) THEN cur ELSE Opened(c, FirstFree(db))
  BY DEF DoOpen
<1>3. /\ db' = r.db /\ last'.ret = r.ret /\ last'.call.cur = c /\ last'.call.arg = a
      /\ db.up /\ db.busy \notin Sths
      /\ db.nb => "attr" \notin Faults /\ "toggle" \notin Faults
  BY <1>2, Alone DEF Resumes, StillOps, Reopens
<1>4. CASE FreeSths(db) = {}
  <2>1. r.ret = "error" /\ Switched(db, r.db)
    BY <1>1, <1>4, OpenIs
  <2>2. cur' = cur
    BY <1>2, <2>1 DEF Fails
  <2>3. Held' = Held
    BY <2>2 DEF Held
  <2> QED
    BY <1>3, <2>1, <2>3, AtNoSlot DEF Switched, RanGoing
<1>5. CASE FreeSths(db) # {}
  <2> DEFINE s == FirstFree(db)
  <2>1. Steady(db) /\ ModesHold(db)
    BY <1>1, <1>3, BusyNotFree DEF Known, Steady, ModesHold
  <2>2. /\ WithinMode(db, s, r.db) /\ Opening(db, s, r.db, r.ret)
        /\ NewRun(db.st[s], kind, a, r.db.st[s], r.ret)
    BY <1>1, <1>5, <2>1, OpenIs
  <2>3. NewOpened(db, s, r.db, r.ret)
    BY <2>2 DEF Opening, NewOpened
  <2>4. r.ret \in {"ok", "error"}
    BY <2>2 DEF Opening
  <2>5. IF r.ret = "error" THEN cur' = cur \/ cur' = Gone(c) ELSE cur' = Opened(c, s)
    BY <1>2, <2>4 DEF Fails
  <2> QED
    BY <1>2, <1>3, <1>5, <2>2, <2>3, <2>4, <2>5, AtNew
<1> QED
  BY <1>4, <1>5

\* The query in variable c was reopened.
LEMMA AtReopened ==
  ASSUME Known, db.up, NEW c \in Cursors, NEW h \in Sths, h = cur[c],
         db.st[h].used, db.st[h].ctype # "ref", db.busy \notin Sths \ {h},
         NEW a, NEW w, NEW r, r.ret \in {"ok", "error", "busy"}, Within(db, h, r.db),
         Reopened(db, h, r.db, r.ret), RanWith(db.st[h], r.db.st[h], r.ret, w),
         db.busy = h \/ OpenRuns => db.st[h].ran \/ ~db.st[h].defs,
         ReopenRuns /\ last'.call.op # "reopen_plain" /\ a # NoArgs =>
           w = a /\ (db.st[h].ran \/ ~db.st[h].defs),
         db' = r.db, last'.ret = r.ret, last'.call.cur = c, last'.call.arg = a,
         IF r.ret = "error" THEN cur' = Gone(c) ELSE cur' = cur \/ cur' = Opened(c, h)
  PROVE  SlotsInv'
<1> DEFINE o == db.st[h]
           t == r.db.st[h]
<1>1. /\ TypeOK /\ "free" \notin Faults /\ NoSth \notin Sths
      /\ InOrder(o, db.busy = h) /\ (o.still <=> db.busy = h)
  BY CursorAssumption
     DEF Known, Base, Orderly, SlotsInv, AllInOrder, StillTruth, Sths, NoSth
<1>2. Aside(h) /\ db'.busy \in {db.busy, NoSth, h}
  BY WithinAside, WithinModeIs
<1>3. /\ r.ret = "ok" => /\ t.used /\ ~t.still /\ t.stype = "query" /\ r.db.busy # h
                         /\ t.ran /\ t.hp = "live" /\ t.ctype # "ref"
                         /\ o.ran \/ ~o.defs => t.exec /\ t.with = w
      /\ r.ret = "busy" => /\ t.used /\ t.still /\ ~t.opened /\ r.db.busy = h /\ db.nb
                           /\ t.hp = "live" /\ t.ctype # "ref" /\ (t.ran \/ ~t.defs)
                           /\ t.with = w
      /\ r.ret = "error" => ~t.used /\ ~t.still /\ ~t.defs /\ r.db.busy # h
  BY <1>1 DEF Reopened, RanWith, InOrder, NoSth
<1>4. r.db.nb = db.nb
  BY DEF Within, SameConn
<1> HIDE DEF t, o
<1>5. InOrder(t, r.db.busy = h)
  BY <1>3 DEF InOrder, o
<1>6. /\ Held \ {h} \subseteq Held'
      /\ r.ret # "error" => h \in Held' /\ cur'[c] = h
  BY <1>1, HeldIs DEF Held
<1>7. db'.st[h] = t
  BY DEF t
<1>8. Settled(h)
  BY <1>3, <1>4, <1>6, <1>7 DEF Settled
<1>9. ReopenRuns => RanGoing'
  BY <1>3, <1>6, <1>7 DEF RanGoing, o
<1> QED
  BY <1>2, <1>3, <1>5, <1>6, <1>7, <1>8, <1>9, AtSlot

LEMMA SlotsOpen2 == Known /\ Open2Step => SlotsInv'
<1> SUFFICES ASSUME Known, NEW c \in Cursors, NEW kind \in Kinds, NEW a \in Args \union {NoArgs},
                    NEW r \in Open2(db, cur[c], kind, a), DoOpen2(c, kind, a, r)
             PROVE  SlotsInv'
  BY DEF Open2Step
<1>0. PICK h : h = cur[c]
  OBVIOUS
<1>1. /\ kind \in AllKinds /\ db \in Sound /\ TypeOK /\ NoSth \notin Sths
      /\ "bind" \notin Faults /\ SlotsInv
  BY KindAssumption, CursorAssumption DEF Known, Base, Orderly, Sths, NoSth
<1>2. /\ h = NoSth \/ Busy
      /\ Took(Call("open2", c, kind, a), r)
      /\ cur' = IF Fails(r) THEN Gone(c) ELSE Opened(c, IF h = NoSth THEN FirstFree(db) ELSE h)
  BY <1>0 DEF DoOpen2
<1>3. /\ db' = r.db /\ last'.ret = r.ret /\ last'.call.cur = c /\ last'.call.arg = a
      /\ db.up /\ last'.call.op = "open2"
      /\ db.nb => "attr" \notin Faults
      /\ Busy => last.call.op = "open2" /\ last.call.cur = c /\ last.call.arg = a /\ h = db.busy
                 /\ db.nb /\ db.busy \in Sths
      /\ db.busy \in Sths => Busy
      /\ db.busy \in Sths => Resumes("open2", db.busy)
  BY <1>0, <1>2, Alone
<1>4. r \in Open2(db, h, kind, a)
  BY <1>0
<1>5. CASE GoesOn(db, h)
  <2> DEFINE o == db.st[h]
             w == Given(db, h, a)
  <2>1. h \in Sths /\ h # NoSth /\ o.used /\ db.nb
    BY <1>1, <1>5 DEF GoesOn
  <2>2. /\ Busy /\ h = db.busy /\ o.stype = "query" /\ o.ctype # "ref" /\ (o.ran \/ ~o.defs)
        /\ last.call.op = "open2" /\ last.call.cur = c /\ last.call.arg = a
    BY <1>2, <1>3, <2>1 DEF Resumes, Reopens
  <2>3. /\ r.ret \in Rets \ {"nodata"} /\ Within(db, h, r.db)
        /\ Reopened(db, h, r.db, r.ret) /\ RanWith(o, r.db.st[h], r.ret, w)
    BY <1>1, <1>3, <1>4, <1>5, <2>1, Open2Is
  <2>4. r.ret \in {"ok", "error", "busy"}
    BY <2>3 DEF Rets
  <2>5. w = o.with
    BY <2>2 DEF Given
  <2>6. ReopenRuns /\ a # NoArgs => w = a
    BY <1>0, <1>1, <2>2, <2>5 DEF SlotsInv, RanGoing, Busy
  <2>7. IF r.ret = "error" THEN cur' = Gone(c) ELSE cur' = cur \/ cur' = Opened(c, h)
    BY <1>2, <2>1, <2>4 DEF Fails
  <2>8. db.busy \notin Sths \ {h}
    BY <2>2
  <2>9. /\ db.busy = h \/ OpenRuns => o.ran \/ ~o.defs
        /\ ReopenRuns /\ last'.call.op # "reopen_plain" /\ a # NoArgs =>
             w = a /\ (o.ran \/ ~o.defs)
        /\ o.ctype # "ref"
    BY <2>2, <2>6
  <2>10. /\ db' = r.db /\ last'.ret = r.ret /\ last'.call.cur = c /\ last'.call.arg = a
         /\ db.up
    BY <1>3
  <2> HIDE DEF w
  <2> QED
    BY <1>0, <2>1, <2>3, <2>4, <2>7, <2>8, <2>9, <2>10, AtReopened
<1>6. CASE ~GoesOn(db, h)
  <2>1. db.busy \notin Sths /\ h = NoSth
    BY <1>2, <1>3, <1>6 DEF Resumes
  <2>2. CASE FreeSths(db) = {}
    <3>1. r.ret = "error" /\ Untouched(db, r.db)
      BY <1>1, <1>4, <1>6, <2>2, Open2Is
    <3>2. cur' = Gone(c)
      BY <1>2, <3>1 DEF Fails
    <3>3. Held \subseteq Held'
      <4>1. 0 \in Sths
        BY CursorAssumption DEF Sths
      <4> QED
        BY <1>0, <1>1, <2>1, <3>2, <4>1, HeldIs DEF Held
    <3> QED
      BY <1>3, <2>1, <3>1, <3>3, AtNoSlot DEF Untouched, RanGoing
  <2>3. CASE FreeSths(db) # {}
    <3> DEFINE s == FirstFree(db)
    <3>1. Steady(db)
      BY <1>1, BusyNotFree DEF Known, Steady
    <3>2. /\ Within(db, s, r.db) /\ NewOpened(db, s, r.db, r.ret)
          /\ NewRun(db.st[s], kind, a, r.db.st[s], r.ret)
      BY <1>1, <1>4, <1>6, <2>3, <3>1, Open2Is
    <3>3. WithinMode(db, s, r.db)
      BY <3>2, WithinModeIs
    <3>4. r.ret = "busy" => db'.nb
      BY <1>3, <3>2 DEF Within, SameConn, NewOpened
    <3>5. r.ret \in {"ok", "error", "busy"}
      BY <3>2 DEF NewOpened
    <3>6. IF r.ret = "error" THEN cur' = cur \/ cur' = Gone(c) ELSE cur' = Opened(c, s)
      BY <1>2, <2>1, <3>5 DEF Fails
    <3> QED
      BY <1>0, <1>3, <2>1, <2>3, <3>2, <3>3, <3>4, <3>6, AtNew
  <2> QED
    BY <2>2, <2>3
<1> QED
  BY <1>5, <1>6

LEMMA SlotsReopen == Known /\ ReopenStep => SlotsInv'
<1> SUFFICES ASSUME Known, NEW c \in Cursors, NEW op \in {"reopen", "reopen_plain"},
                    NEW a \in Args \union {NoArgs}, NEW r \in Reopen(db, cur[c], a),
                    DoReopen(c, op, a, r)
             PROVE  SlotsInv'
  BY DEF ReopenStep
<1>0. PICK h : h = cur[c]
  OBVIOUS
<1> DEFINE o == db.st[h]
           t == r.db.st[h]
           w == Given(db, h, a)
<1>1. /\ db \in Sound /\ TypeOK /\ HandleInv /\ NoSth \notin Sths
      /\ "bind" \notin Faults /\ SlotsInv
  BY CursorAssumption DEF Known, Base, Orderly, Sths, NoSth
<1>2. /\ h # NoSth /\ o.ctype = "default" /\ (a = NoArgs => o.stype = "query")
      /\ Took(Call(op, c, NoKind, a), r)
      /\ cur' = IF Fails(r) THEN Gone(c) ELSE cur
  BY <1>0 DEF DoReopen
<1>3. /\ db' = r.db /\ last'.ret = r.ret /\ last'.call.cur = c /\ last'.call.arg = a
      /\ db.up /\ last'.call.op = op /\ op \in ClientCalls
      /\ db.busy \in Sths => /\ Busy /\ h = db.busy /\ Resumes(op, db.busy)
                             /\ last.call.op = op /\ last.call.cur = c /\ last.call.arg = a
  BY <1>0, <1>2, Alone
<1>4. h \in Sths /\ o.used
  BY <1>0, <1>1, <1>2 DEF TypeOK, HandleInv, HandlesValid
<1>5. InOrder(o, db.busy = h) /\ (o.still <=> db.busy = h)
  BY <1>1, <1>4 DEF SlotsInv, AllInOrder, StillTruth
<1>6. /\ r.ret \in Rets /\ Within(db, h, r.db) /\ ReopenedAs(db, h, a, r.db, r.ret)
  BY <1>0, <1>1, <1>4, ReopenIs
<1>7. db.busy \notin Sths \ {h}
  BY <1>3
<1>8. db.busy = h => o.stype = "query" /\ (o.ran \/ ~o.defs)
  BY <1>3, <1>4 DEF Resumes, Reopens
<1>9. CASE o.stype = "query"
  <2>1. /\ r.ret \in {"ok", "error", "busy"}
        /\ Reopened(db, h, r.db, r.ret) /\ RanWith(o, t, r.ret, w)
    BY <1>6, <1>9 DEF ReopenedAs, Rets
  <2>2. db.busy = h \/ OpenRuns => o.ran \/ ~o.defs
    BY <1>2, <1>3, <1>4, <1>5, <1>8 DEF InOrder, OpenRuns
  <2>3. ReopenRuns /\ op # "reopen_plain" /\ a # NoArgs => w = a /\ (o.ran \/ ~o.defs)
    <3> SUFFICES ASSUME ReopenRuns, op = "reopen", a # NoArgs
                 PROVE  w = a /\ (o.ran \/ ~o.defs)
      OBVIOUS
    <3>1. o.ran \/ ~o.defs
      BY <1>2, <1>3, <1>4, <1>5, <1>8 DEF InOrder, ReopenRuns
    <3>2. CASE db.busy = h
      <4>1. last.ret = "busy" /\ last.call.op = "reopen" /\ last.call.arg = a /\ cur[last.call.cur] = h
        BY <1>0, <1>3, <1>4, <3>2 DEF Busy
      <4> QED
        BY <1>1, <1>9, <3>1, <3>2, <4>1 DEF SlotsInv, RanGoing, Given
    <3>3. CASE db.busy # h
      BY <1>5, <3>1, <3>3 DEF Given
    <3> QED
      BY <3>2, <3>3
  <2>4. IF r.ret = "error" THEN cur' = Gone(c) ELSE cur' = cur \/ cur' = Opened(c, h)
    BY <1>2, <2>1 DEF Fails
  <2> HIDE DEF w
  <2> QED
    BY <1>0, <1>2, <1>3, <1>4, <1>6, <1>7, <2>1, <2>2, <2>3, <2>4, AtReopened
<1>10. CASE o.stype # "query"
  <2>1. /\ ~o.still /\ db.busy # h /\ a # NoArgs
        /\ t.used = o.used /\ t.still = o.still /\ t.hp = o.hp
        /\ t.ran = o.ran /\ t.defs = o.defs /\ t.exec = o.exec
        /\ t.stype = o.stype /\ t.ctype = o.ctype /\ r.db.busy = db.busy /\ r.ret = "ok"
    BY <1>2, <1>5, <1>6, <1>8, <1>10 DEF ReopenedAs
  <2>2. cur' = cur
    BY <1>2, <2>1 DEF Fails
  <2>3. Held' = Held /\ h \in Held /\ cur'[c] = h
    BY <1>0, <1>2, <2>2 DEF Held
  <2>4. Aside(h) /\ db'.busy \in {db.busy, NoSth, h}
    BY <1>3, <1>4, <1>6, WithinAside, WithinModeIs
  <2>5. Settled(h)
    BY <1>3, <2>1 DEF Settled
  <2>6. InOrder(t, r.db.busy = h)
    BY <1>2, <1>5, <1>10, <2>1 DEF InOrder
  <2>7. ReopenRuns => RanGoing'
    BY <1>3, <1>10, <2>1, <2>3 DEF RanGoing
  <2> QED
    BY <1>3, <1>4, <1>7, <2>1, <2>3, <2>4, <2>5, <2>6, <2>7, AtSlot
<1> QED
  BY <1>9, <1>10

\* A new statement in slot n that was not opened, and the others as they were.
LEMMA AtUnopened ==
  ASSUME Known, db.up, NEW n, n = FirstFree(db), FreeSths(db) # {}, db.busy \notin Sths,
         NEW e \in Cursors, cur[e] = NoSth, NEW r, Aside(n), NEW t, t = r.db.st[n],
         ~t.opened, ~t.still, t.defs = db.st[n].defs, t.used => t.hp = "live",
         t.ctype = "ref" => t.exec,
         db' = r.db, db'.busy = db.busy, last'.ret = r.ret, r.ret \in {"ok", "error"},
         last'.call.op \notin {"open", "open2", "reopen"},
         NoLeak /\ t.used => r.ret = "ok",
         cur' = IF Fails(r) THEN cur ELSE Opened(e, n)
  PROVE  SlotsInv'
<1>1. n \in Sths /\ db.busy # n /\ ~t.defs
  BY FreeIs
<1>2. TypeOK /\ NoSth \notin Sths
  BY CursorAssumption DEF Known, Base, Sths, NoSth
<1>3. /\ Held \subseteq Held'
      /\ NoLeak /\ t.used => n \in Held'
  BY <1>1, <1>2, HeldIs DEF Held, Fails
<1>4. Settled(n)
  BY <1>1 DEF Settled
<1>5. InOrder(t, db'.busy = n)
  BY <1>1 DEF InOrder
<1>6. RanGoing'
  BY DEF RanGoing
<1> QED
  BY <1>1, <1>3, <1>4, <1>5, <1>6, AtSlot

LEMMA SlotsPrepare == Known /\ PrepareStep => SlotsInv'
<1> SUFFICES ASSUME Known, NEW c \in Cursors, NEW kind \in Kinds,
                    NEW r \in PrepareStmt(db, kind), DoPrepare(c, kind, r)
             PROVE  SlotsInv'
  BY DEF PrepareStep
<1>1. kind \in AllKinds /\ db \in Sound
  BY KindAssumption DEF Known, Base
<1>2. /\ cur[c] = NoSth /\ Took(Call("prepare", c, kind, NoArgs), r)
      /\ cur' = IF Fails(r) THEN cur ELSE Opened(c, FirstFree(db))
  BY DEF DoPrepare
<1>3. /\ db' = r.db /\ last'.ret = r.ret /\ last'.call.op = "prepare" /\ "prepare" \in ClientCalls
      /\ db.up /\ db.busy \notin Sths
  BY <1>2, Alone DEF Resumes, StillOps, Reopens
<1>4. CASE FreeSths(db) = {}
  <2>1. r.ret = "error" /\ Untouched(db, r.db)
    BY <1>1, <1>4, PrepareStmtIs
  <2>2. Held' = Held
    BY <1>2, <2>1 DEF Fails, Held
  <2> QED
    BY <1>3, <2>1, <2>2, AtNoSlot DEF Untouched, RanGoing
<1>5. CASE FreeSths(db) # {}
  <2> DEFINE n == FirstFree(db)
             t == r.db.st[n]
  <2>1. /\ r.ret \in {"ok", "error"} /\ r.db.busy = db.busy /\ Within(db, n, r.db)
        /\ NewMade(db.st[n], t)
        /\ r.ret = "error" /\ t.used => {"prepare", "type", "prefetch"} \cap Faults # {}
    BY <1>1, <1>5, PrepareStmtIs
  <2>2. n \in Sths
    BY <1>5, FirstFreeIn
  <2>3. Aside(n)
    BY <1>3, <2>1, <2>2, WithinAside, WithinModeIs
  <2>4. NoLeak /\ t.used => r.ret = "ok"
    BY <1>3, <2>1 DEF NoLeak
  <2>5. /\ ~t.opened /\ ~t.still /\ t.defs = db.st[n].defs /\ (t.used => t.hp = "live")
        /\ t.ctype = "default"
    BY <2>1 DEF NewMade
  <2> HIDE DEF t, n
  <2>6. n = FirstFree(db) /\ t = r.db.st[n]
    BY DEF n, t
  <2>7. last'.call.op \notin {"open", "open2", "reopen"} /\ (t.ctype = "ref" => t.exec)
    BY <1>3, <2>5
  <2>8. cur' = IF Fails(r) THEN cur ELSE Opened(c, n)
    BY <1>2, <2>6
  <2> QED
    BY <1>2, <1>3, <1>5, <2>1, <2>3, <2>4, <2>5, <2>6, <2>7, <2>8, AtUnopened
<1> QED
  BY <1>4, <1>5

LEMMA SlotsNewCursor == Known /\ NewCursorStep => SlotsInv'
<1> SUFFICES ASSUME Known, NEW c \in Cursors, NEW e \in Cursors,
                    NEW ctype \in {"ref", "ntable"}, NEW op, op \in {"refcursor", "ntable"},
                    (op = "ntable" <=> ctype = "ntable"),
                    NEW r \in NewCursor(db, cur[c], ctype), DoNewCursor(c, e, op, r)
             PROVE  SlotsInv'
  BY DEF NewCursorStep
<1>0. PICK h : h = cur[c]
  OBVIOUS
<1>1. db \in Sound /\ TypeOK /\ HandleInv
  BY DEF Known, Base
<1>2. /\ cur[e] = NoSth /\ h # NoSth /\ Took(Call(op, c, NoKind, NoArgs), r)
      /\ cur' = IF Fails(r) THEN cur ELSE Opened(e, FirstFree(db))
  BY <1>0 DEF DoNewCursor
<1>3. /\ db' = r.db /\ last'.ret = r.ret /\ last'.call.op = op /\ op \in ClientCalls
      /\ db.up /\ db.busy \notin Sths
  BY <1>2, Alone DEF Resumes, StillOps, Reopens
<1>4. h \in Sths /\ db.st[h].used
  BY <1>0, <1>1, <1>2 DEF TypeOK, HandleInv, HandlesValid
<1> DEFINE n == FirstFree(db)
           t == r.db.st[n]
<1>5. /\ r.ret \in {"ok", "error"} /\ r.db.busy = db.busy
      /\ \/ r.ret = "error" /\ r.db.st = db.st
         \/ /\ FreeSths(db) # {} /\ n \in Sths /\ n # h
            /\ Others(db, r.db, n, h)
            /\ r.db.st[h].used
            /\ t.ctype \in {"default", ctype}
            /\ CursorMade(db.st[n], t) /\ GaveCursor(db.st[h], r.db.st[h], ctype)
            /\ t.used /\ r.ret # "ok" => (IF ctype = "ref" THEN "bind" ELSE "define") \in Faults
  BY <1>0, <1>1, <1>4, NewCursorIs
<1>6. CASE r.ret = "error" /\ r.db.st = db.st
  <2>1. Held' = Held
    BY <1>2, <1>6 DEF Fails, Held
  <2>2. db.busy \notin Sths /\ db'.busy \notin Sths
    BY <1>3, <1>5
  <2> QED
    BY <1>3, <1>6, <2>1, <2>2, AtNoSlot DEF RanGoing
<1>7. CASE ~(r.ret = "error" /\ r.db.st = db.st)
  <2>1. NoLeak /\ t.used => r.ret = "ok"
    BY <1>3, <1>5, <1>7 DEF NoLeak, Known, Orderly
  <2>2. Aside(n)
    <3>1. ctype = "ntable" => "ntable" \in ClientCalls
      BY <1>3
    <3> HIDE DEF n
    <3> QED
      BY <1>3, <1>4, <1>5, <1>7, <3>1 DEF Aside, Others, GaveCursor, Kept, RunKept
  <2>3. /\ ~t.opened /\ ~t.still /\ t.defs = db.st[n].defs /\ (t.used => t.hp = "live")
        /\ t.ctype = "ref" => t.exec
    BY <1>5, <1>7 DEF CursorMade
  <2>4. FreeSths(db) # {}
    BY <1>5, <1>7
  <2> HIDE DEF t, n
  <2>5. n = FirstFree(db) /\ t = r.db.st[n]
    BY DEF n, t
  <2>6. last'.call.op \notin {"open", "open2", "reopen"}
    BY <1>3
  <2>7. cur' = IF Fails(r) THEN cur ELSE Opened(e, n)
    BY <1>2, <2>5
  <2>8. r.ret \in {"ok", "error"} /\ db'.busy = db.busy
    BY <1>3, <1>5
  <2> QED
    BY <1>2, <1>3, <2>1, <2>2, <2>3, <2>4, <2>5, <2>6, <2>7, <2>8, AtUnopened
<1> QED
  BY <1>6, <1>7

\* Before a call on the statement in variable c, and after it.
LEMMA OnKnown ==
  ASSUME Known, NEW c \in Cursors, NEW op, NEW a, NEW r, cur[c] # NoSth,
         Took(Call(op, c, NoKind, a), r), op \notin {"break", "free", "connect"},
         NEW h, h = cur[c]
  PROVE  /\ h \in Sths /\ db.st[h].used /\ db \in Sound /\ db.up
         /\ db' = r.db /\ last'.ret = r.ret /\ last'.call.op = op /\ last'.call.cur = c
         /\ op \in ClientCalls
         /\ db.busy \notin Sths \ {h} /\ (db.st[h].still <=> db.busy = h)
         /\ InOrder(db.st[h], db.busy = h)
         /\ db.busy = h => Resumes(op, h)
         /\ db.nb => Tidy /\ NoNtable
<1>1. /\ db' = r.db /\ last'.ret = r.ret /\ last'.call.op = op /\ last'.call.cur = c
      /\ op \in ClientCalls /\ db.up
      /\ db.nb => Tidy /\ NoNtable
      /\ db.busy \in Sths => h = db.busy /\ Resumes(op, db.busy)
  BY Alone DEF MarkInv
<1>2. TypeOK /\ HandleInv /\ SlotsInv /\ db \in Sound
  BY DEF Known, Base
<1>3. h \in Sths /\ db.st[h].used
  BY <1>2 DEF TypeOK, HandleInv, HandlesValid
<1>4. (db.st[h].still <=> db.busy = h) /\ InOrder(db.st[h], db.busy = h)
  BY <1>2, <1>3 DEF SlotsInv, StillTruth, AllInOrder
<1> QED
  BY <1>1, <1>2, <1>3, <1>4

LEMMA OnSlot ==
  ASSUME Known, db.up, NEW c \in Cursors, NEW h \in Sths, h = cur[c], db.busy \notin Sths \ {h},
         cur' = cur, NEW r, db' = r.db, last'.ret = r.ret, last'.call.cur = c,
         last'.call.op \notin {"open", "open2", "reopen"},
         Within(db, h, r.db), NEW t, t = r.db.st[h], t.used,
         t.still <=> r.ret = "busy", r.db.busy = h <=> r.ret = "busy", r.ret = "busy" => db.nb,
         InOrder(t, r.ret = "busy")
  PROVE  SlotsInv'
<1>1. Aside(h) /\ db'.busy \in {db.busy, NoSth, h}
  BY WithinAside, WithinModeIs
<1>2. Held' = Held /\ h \in Held
  BY CursorAssumption DEF Held, Sths, NoSth
<1>3. db'.nb = db.nb
  BY DEF Within, SameConn
<1>4. Settled(h)
  BY <1>3 DEF Settled
<1>5. RanGoing'
  BY DEF RanGoing
<1>6. InOrder(db'.st[h], db'.busy = h)
  <2>1. CASE r.ret = "busy"
    BY <2>1 DEF InOrder
  <2>2. CASE r.ret # "busy"
    BY <2>2 DEF InOrder
  <2> QED
    BY <2>1, <2>2
<1> QED
  BY <1>1, <1>2, <1>4, <1>5, <1>6, AtSlot

LEMMA SlotsBind == Known /\ (BindStep \/ DefineStep) => SlotsInv'
<1>1. ASSUME Known, NEW c \in Cursors, NEW h, h = cur[c], NEW op, op \in {"bind", "define"},
             NEW a, NEW r, DoOn(c, op, a, r), r.ret \in {"ok", "error"},
             h \in Sths => Within(db, h, r.db) /\ r.db.busy = db.busy
                           /\ Kept(db.st[h], r.db.st[h]) /\ RunKept(db.st[h], r.db.st[h])
                           /\ (op = "bind" => r.db.st[h].defs = db.st[h].defs)
      PROVE  SlotsInv'
  <2> DEFINE o == db.st[h]
             t == r.db.st[h]
  <2>1. /\ cur[c] # NoSth /\ Took(Call(op, c, NoKind, a), r) /\ cur' = cur
    BY <1>1 DEF DoOn
  <2>2. /\ h \in Sths /\ o.used /\ db.up
        /\ db' = r.db /\ last'.ret = r.ret /\ last'.call.op = op /\ last'.call.cur = c
        /\ op \in ClientCalls
        /\ db.busy \notin Sths \ {h} /\ (o.still <=> db.busy = h)
        /\ InOrder(o, db.busy = h)
        /\ db.busy = h => Resumes(op, h)
    BY <1>1, <2>1, OnKnown
  <2>3. db.busy # h
    BY <1>1, <2>2 DEF Resumes, StillOps, Reopens
  <2>4. /\ t.used /\ ~t.still /\ r.db.busy # h
        /\ t.hp = o.hp /\ t.ctype = o.ctype /\ t.ran = o.ran
        /\ t.exec = o.exec /\ t.opened = o.opened /\ t.stype = o.stype
        /\ NoDefines => t.defs = o.defs
    BY <1>1, <2>2, <2>3 DEF Kept, RunKept, NoDefines
  <2>5. InOrder(t, FALSE)
    BY <2>2, <2>3, <2>4 DEF InOrder
  <2>6. r.ret # "busy" /\ Within(db, h, r.db) /\ last'.call.op \notin {"open", "open2", "reopen"}
    BY <1>1, <2>2
  <2> HIDE DEF t, o
  <2>7. InOrder(t, r.ret = "busy") /\ t = r.db.st[h]
    BY <2>5, <2>6 DEF InOrder, t
  <2> QED
    BY <1>1, <2>1, <2>2, <2>4, <2>6, <2>7, OnSlot
<1>2. ASSUME Known, BindStep
      PROVE  SlotsInv'
  <2>1. PICK c \in Cursors, a \in Args : \E r \in BindByName(db, cur[c], a) : DoOn(c, "bind", a, r)
    BY <1>2 DEF BindStep
  <2>2. PICK h : h = cur[c]
    OBVIOUS
  <2>3. PICK r \in BindByName(db, h, a) : DoOn(c, "bind", a, r)
    BY <2>1, <2>2
  <2>4. db \in Sound /\ h \in Sths
    <3>1. cur[c] # NoSth /\ Took(Call("bind", c, NoKind, a), r)
      BY <2>3 DEF DoOn
    <3> QED
      BY <1>2, <2>2, <3>1, OnKnown
  <2>5. /\ r.ret \in {"ok", "error"} /\ Within(db, h, r.db) /\ r.db.busy = db.busy
        /\ Kept(db.st[h], r.db.st[h]) /\ RunKept(db.st[h], r.db.st[h])
        /\ r.db.st[h].defs = db.st[h].defs
    BY <2>3, <2>4, BindByNameIs
  <2> QED
    BY <1>1, <1>2, <2>2, <2>3, <2>5
<1>3. ASSUME Known, DefineStep
      PROVE  SlotsInv'
  <2>1. PICK c \in Cursors : \E r \in DefineByPos(db, cur[c]) : DoOn(c, "define", NoArgs, r)
    BY <1>3 DEF DefineStep
  <2>2. PICK h : h = cur[c]
    OBVIOUS
  <2>3. PICK r \in DefineByPos(db, h) : DoOn(c, "define", NoArgs, r)
    BY <2>1, <2>2
  <2>4. db \in Sound /\ h \in Sths
    <3>1. cur[c] # NoSth /\ Took(Call("define", c, NoKind, NoArgs), r)
      BY <2>3 DEF DoOn
    <3> QED
      BY <1>3, <2>2, <3>1, OnKnown
  <2>5. /\ r.ret \in {"ok", "error"} /\ Within(db, h, r.db) /\ r.db.busy = db.busy
        /\ Kept(db.st[h], r.db.st[h]) /\ RunKept(db.st[h], r.db.st[h])
    BY <2>3, <2>4, DefineByPosIs
  <2> QED
    BY <1>1, <1>3, <2>2, <2>3, <2>5
<1> QED
  BY <1>2, <1>3

LEMMA SlotsExecute == Known /\ ExecuteStep => SlotsInv'
<1> SUFFICES ASSUME Known, NEW c \in Cursors, NEW h, h = cur[c], NEW r \in Execute(db, h),
                    DoOn(c, "execute", NoArgs, r)
             PROVE  SlotsInv'
  BY DEF ExecuteStep
<1> DEFINE o == db.st[h]
           t == r.db.st[h]
<1>1. cur[c] # NoSth /\ Took(Call("execute", c, NoKind, NoArgs), r) /\ cur' = cur
  BY DEF DoOn
<1>2. /\ h \in Sths /\ o.used /\ db \in Sound /\ db.up
      /\ db' = r.db /\ last'.ret = r.ret /\ last'.call.op = "execute" /\ last'.call.cur = c
      /\ "execute" \in ClientCalls
      /\ db.busy \notin Sths \ {h} /\ (o.still <=> db.busy = h)
      /\ InOrder(o, db.busy = h)
      /\ db.busy = h => Resumes("execute", h) /\ Tidy
      /\ db.nb => NoNtable
  <2>1. db.busy \in Sths => db.nb
    BY <1>1, Alone
  <2> QED
    BY <1>1, <2>1, OnKnown
<1>3. /\ r.ret \in Rets /\ Within(db, h, r.db) /\ t.used = o.used
      /\ ToDescribe(db, h) =>
           /\ t.still = o.still /\ t.hp = o.hp /\ t.ctype = o.ctype
           /\ t.opened => o.opened \/ o.ctype = "ref"
           /\ r.ret = "busy" => db.nb
           /\ r.ret # "busy" => r.db.busy \in {db.busy, NoSth}
           /\ o.ctype = "ref" => r.ret # "busy" /\ t.exec = o.exec
      /\ ~ToDescribe(db, h) /\ ~o.prepared => r.ret = "error" /\ t = o /\ r.db.busy = db.busy
      /\ ~ToDescribe(db, h) /\ o.prepared => Run1(db, h, r.db, r.ret)
  <2>1. db \in Sound /\ h \in Sths /\ r \in Execute(db, h)
    BY <1>2
  <2> QED
    BY <2>1, ExecuteIs
<1>4. h # NoSth /\ o.ctype \in {"default", "ref", "ntable"}
  BY <1>2, SoundStmt, CursorAssumption DEF Stmts, Sths, NoSth
<1>5. ASSUME t.still <=> r.ret = "busy", r.db.busy = h <=> r.ret = "busy", r.ret = "busy" => db.nb,
             InOrder(t, r.ret = "busy")
      PROVE  SlotsInv'
  <2>1. last'.call.op \notin {"open", "open2", "reopen"} /\ t.used
    BY <1>2, <1>3
  <2> HIDE DEF t, o
  <2>2. t = r.db.st[h]
    BY DEF t
  <2> QED
    BY <1>1, <1>2, <1>3, <1>5, <2>1, <2>2, OnSlot
<1>6. CASE ToDescribe(db, h)
  <2>1. db.busy # h /\ ~o.still /\ o.ctype # "default" /\ ~o.ran
    BY <1>2, <1>6 DEF Resumes, ToDescribe
  <2>2. r.ret # "busy"
    BY <1>2, <1>3, <1>4, <1>6, <2>1 DEF NoNtable
  <2>3. ~t.still /\ r.db.busy # h
    BY <1>3, <1>4, <1>6, <2>1, <2>2
  <2>4. o.ctype = "ntable" => ~o.opened
    BY <1>2, <2>1 DEF InOrder
  <2>5. InOrder(t, FALSE)
    BY <1>2, <1>3, <1>4, <1>6, <2>1, <2>4 DEF InOrder, OpenRuns
  <2>6. InOrder(t, r.ret = "busy")
    BY <2>2, <2>5 DEF InOrder
  <2> QED
    BY <1>5, <2>2, <2>3, <2>6
<1>7. CASE ~ToDescribe(db, h) /\ ~o.prepared
  <2>1. db.busy # h
    BY <1>2, <1>7 DEF Resumes
  <2>2. InOrder(t, r.ret = "busy")
    BY <1>2, <1>3, <1>7, <2>1 DEF InOrder
  <2> QED
    BY <1>2, <1>3, <1>5, <1>7, <2>1, <2>2
<1>8. CASE ~ToDescribe(db, h) /\ o.prepared
  <2>1. Run1(db, h, r.db, r.ret) /\ o.hp = "live"
    BY <1>2, <1>3, <1>8 DEF InOrder
  <2>2. r.ret = "error" => "execute" \in Faults
    BY <2>1 DEF Run1
  <2>3. r.ret = "error" => ~o.still
    BY <1>2, <2>2 DEF Tidy
  <2>4. /\ t.still <=> r.ret = "busy"
        /\ r.db.busy = h <=> r.ret = "busy"
        /\ r.ret = "busy" => db.nb
    BY <1>3, <1>4, <2>1, <2>3 DEF Run1, Rets
  <2>5. o.ctype = "ntable" => o.ran
    BY <1>8 DEF ToDescribe
  <2>6. r.ret = "error" => ~OpenRuns
    BY <1>2, <2>2 DEF OpenRuns
  <2>7. InOrder(t, r.ret = "busy")
    BY <1>2, <1>3, <2>1, <2>2, <2>5, <2>6 DEF InOrder, Run1, Rets
  <2> QED
    BY <1>5, <2>4, <2>7
<1> QED
  BY <1>6, <1>7, <1>8

LEMMA SlotsFetch == Known /\ FetchStep => SlotsInv'
<1> SUFFICES ASSUME Known, NEW c \in Cursors, NEW h, h = cur[c], NEW r \in Fetch(db, h),
                    DoOn(c, "fetch", NoArgs, r)
             PROVE  SlotsInv'
  BY DEF FetchStep
<1> DEFINE o == db.st[h]
           t == r.db.st[h]
<1>1. cur[c] # NoSth /\ Took(Call("fetch", c, NoKind, NoArgs), r) /\ cur' = cur
  BY DEF DoOn
<1>2. /\ h \in Sths /\ o.used /\ db \in Sound /\ db.up
      /\ db' = r.db /\ last'.ret = r.ret /\ last'.call.op = "fetch" /\ last'.call.cur = c
      /\ db.busy \notin Sths \ {h} /\ (o.still <=> db.busy = h)
      /\ InOrder(o, db.busy = h)
      /\ db.busy = h => Resumes("fetch", h) /\ Tidy
  <2>1. db.busy \in Sths => db.nb
    BY <1>1, Alone
  <2> QED
    BY <1>1, <2>1, OnKnown
<1>3. /\ r.ret \in Rets /\ Within(db, h, r.db) /\ t.used = o.used
      /\ r.db.busy = IF r.ret = "busy" THEN h ELSE NoSth
      /\ r.ret = "ok" => ~t.still
      /\ r.ret = "busy" => t.still
      /\ t.stype = o.stype
      /\ o.stype = "query" => /\ Fetched(db, h, r.db, r.ret)
                              /\ r.ret = "nodata" => ~t.still
      /\ o.stype # "query" /\ r.ret = "error" => o.hp # "live" \/ "execute" \in Faults
      /\ o.stype # "query" /\ r.ret = "nodata" => "nodata" \in Faults
      /\ o.stype # "query" => (t.exec <=> r.ret \in {"ok", "nodata"})
      /\ r.ret = "busy" => db.nb
      /\ r.ret \in {"error", "nodata"} /\ ~o.still => ~t.still
      /\ t.opened = o.opened /\ t.defs = o.defs /\ t.ran = o.ran
      /\ t.ctype = o.ctype /\ t.hp = o.hp
  <2>1. db \in Sound /\ h \in Sths /\ r \in Fetch(db, h)
    BY <1>2
  <2> QED
    BY <2>1, FetchIs
<1>4. h # NoSth /\ o.hp = "live"
  BY <1>2, CursorAssumption DEF InOrder, Sths, NoSth
<1>5. o.still => r.ret \notin {"error", "nodata"} \/ ~t.still
  BY <1>2, <1>3 DEF Resumes, Tidy, Fetched
<1>6. /\ t.still <=> r.ret = "busy"
      /\ r.db.busy = h <=> r.ret = "busy"
  BY <1>3, <1>4, <1>5 DEF Rets
<1>7. o.stype = "query" => t.exec = o.exec /\ (db.busy = h => o.exec)
  BY <1>2, <1>3 DEF Resumes, Fetched
<1>8. InOrder(t, r.ret = "busy")
  BY <1>2, <1>3, <1>4, <1>7 DEF InOrder, Rets
<1>9. last'.call.op \notin {"open", "open2", "reopen"} /\ t.used
  BY <1>2, <1>3
<1>10. t = r.db.st[h]
  OBVIOUS
<1> HIDE DEF t, o
<1> QED
  BY <1>1, <1>2, <1>3, <1>6, <1>8, <1>9, <1>10, OnSlot

LEMMA SlotsResult == Known /\ ResultStep => SlotsInv'
<1> SUFFICES ASSUME Known, NEW c \in Cursors, NEW h, h = cur[c], NEW r \in QueryResult(db, h),
                    DoOn(c, "result", NoArgs, r)
             PROVE  SlotsInv'
  BY DEF ResultStep
<1> DEFINE o == db.st[h]
           t == r.db.st[h]
<1>1. cur[c] # NoSth /\ Took(Call("result", c, NoKind, NoArgs), r) /\ cur' = cur
  BY DEF DoOn
<1>2. /\ h \in Sths /\ o.used /\ db \in Sound /\ db.up
      /\ db' = r.db /\ last'.ret = r.ret /\ last'.call.op = "result" /\ last'.call.cur = c
      /\ "result" \in ClientCalls
      /\ db.busy \notin Sths \ {h} /\ (o.still <=> db.busy = h)
      /\ InOrder(o, db.busy = h)
      /\ db.busy = h => Resumes("result", h)
      /\ db.nb => Tidy
  BY <1>1, OnKnown
<1>3. /\ r.ret \in Rets /\ Within(db, h, r.db) /\ t.used = o.used
      /\ o.stype = "query" => Fetched(db, h, r.db, r.ret) /\ (r.ret # "busy" /\ ~o.still => ~t.still)
      /\ o.stype # "query" => r.ret = "error" /\ t.still = o.still /\ r.db.busy = db.busy
      /\ t.exec = o.exec /\ t.stype = o.stype
      /\ t.opened = o.opened /\ t.defs = o.defs /\ t.ran = o.ran
      /\ t.ctype = o.ctype /\ t.hp = o.hp
  <2>1. db \in Sound /\ h \in Sths /\ r \in QueryResult(db, h)
    BY <1>2
  <2> QED
    BY <2>1, QueryResultIs
<1>4. h # NoSth /\ ~db.nb /\ db.busy # h
  BY <1>2, CursorAssumption DEF Tidy, Resumes, StillOps, Reopens, Sths, NoSth
<1>5. r.ret # "busy" /\ ~t.still /\ r.db.busy # h
  BY <1>2, <1>3, <1>4 DEF Fetched
<1>6. InOrder(t, r.ret = "busy")
  BY <1>2, <1>3, <1>4, <1>5 DEF InOrder
<1>7. last'.call.op \notin {"open", "open2", "reopen"} /\ t.used
  BY <1>2, <1>3
<1>8. t = r.db.st[h]
  OBVIOUS
<1> HIDE DEF t, o
<1> QED
  BY <1>1, <1>2, <1>3, <1>5, <1>6, <1>7, <1>8, OnSlot

LEMMA SlotsClose == Known /\ CloseStep => SlotsInv'
<1> SUFFICES ASSUME Known, NEW c \in Cursors, NEW h, h = cur[c], NEW r \in Close(db, h),
                    DoClose(c, r)
             PROVE  SlotsInv'
  BY DEF CloseStep
<1> DEFINE o == db.st[h]
           t == r.db.st[h]
<1>1. /\ cur[c] # NoSth /\ Took(Call("close", c, NoKind, NoArgs), r)
      /\ cur' = IF Fails(r) THEN cur ELSE Gone(c)
  BY DEF DoClose
<1>2. /\ h \in Sths /\ o.used /\ db \in Sound /\ db.up
      /\ db' = r.db /\ last'.ret = r.ret /\ last'.call.op = "close"
      /\ db.busy \notin Sths \ {h}
      /\ db.busy = h => Resumes("close", h)
  BY <1>1, OnKnown
<1>3. /\ r.ret \in {"ok", "error"} /\ Within(db, h, r.db)
      /\ r.db.busy = IF db.busy = h THEN NoSth ELSE db.busy
      /\ r.ret = "ok" => ~t.used /\ ~t.still
      /\ ~t.defs
      /\ r.ret = "error" => "free" \in Faults
  <2>1. db \in Sound /\ h \in Sths /\ r \in Close(db, h) /\ db.st[h].used
    BY <1>2
  <2> QED
    BY <2>1, CloseIs
<1>4. "free" \notin Faults /\ TypeOK
  BY DEF Known, Orderly, Base
<1>5. r.ret = "ok" /\ ~t.used /\ ~t.still /\ db.busy # h /\ r.db.busy = db.busy
  BY <1>2, <1>3, <1>4 DEF Resumes, StillOps, Reopens
<1>6. cur' = Gone(c)
  BY <1>1, <1>5 DEF Fails
<1>7. Held \ {h} \subseteq Held'
  BY <1>2, <1>4, <1>6, HeldIs
<1>8. Aside(h) /\ db'.busy \in {db.busy, NoSth, h}
  BY <1>2, <1>3, WithinAside, WithinModeIs
<1>9. Settled(h) /\ InOrder(db'.st[h], db'.busy = h) /\ RanGoing'
  BY <1>2, <1>5 DEF Settled, InOrder, RanGoing
<1> QED
  BY <1>2, <1>3, <1>5, <1>7, <1>8, <1>9, AtSlot

\* A call on the connection is made while no statement goes on.
LEMMA OnNone ==
  ASSUME Known, NEW op, NEW kind, NEW a, NEW r, Took(Call(op, NoCursor, kind, a), r),
         op \notin {"break", "free", "open", "open2", "reopen"}
  PROVE  /\ db.busy \notin Sths /\ (db.up \/ "connect" \in ClientCalls)
         /\ db' = r.db /\ last'.ret = r.ret /\ last'.call.op = op
         /\ last'.call.cur \notin Cursors /\ op \in ClientCalls
         /\ db.nb => Tidy /\ "attr" \notin Faults
BY Alone, CursorNames

LEMMA AtConnection ==
  ASSUME Known, NEW op, NEW kind, NEW a, NEW r, Took(Call(op, NoCursor, kind, a), r),
         op \notin {"break", "free", "open", "open2", "reopen"}, cur' = cur,
         r.db.st = db.st, r.db.busy \in {db.busy, ExecHandle, NoSth},
         r.ret = "busy" => r.db.nb
  PROVE  SlotsInv'
<1>1. ExecHandle \notin Sths /\ NoSth \notin Sths /\ Held' = Held
  BY CursorAssumption DEF Sths, NoSth, ExecHandle, Held
<1>2. RanGoing'
  BY OnNone DEF RanGoing
<1> QED
  BY <1>1, <1>2, OnNone, AtNoSlot

LEMMA SlotsConnection ==
  Known /\ (ExecStep \/ BlockingStep \/ AutocommitStep \/ ConnectStep) => SlotsInv'
<1>0. Known => db \in Sound
  BY DEF Known, Base
<1>1. ASSUME Known, ExecStep
      PROVE  SlotsInv'
  <2>1. PICK stmt \in Statements : \E r \in Exec(db, stmt) : DoShot("exec", NoKind, stmt, r)
    BY <1>1 DEF ExecStep
  <2>2. PICK r \in Exec(db, stmt) : DoShot("exec", NoKind, stmt, r)
    BY <2>1
  <2>3. Apart(db, r.db) /\ (r.ret = "busy" => db.nb)
    BY <1>0, <1>1, ExecIs
  <2>4. /\ r.db.st = db.st /\ r.db.busy \in {db.busy, ExecHandle, NoSth}
        /\ r.ret = "busy" => r.db.nb
    BY <2>3 DEF Apart
  <2>5. Took(Call("exec", NoCursor, NoKind, stmt), r) /\ cur' = cur
    BY <2>2 DEF DoShot
  <2> QED
    BY <1>1, <2>4, <2>5, AtConnection
<1>2. ASSUME Known, BlockingStep
      PROVE  SlotsInv'
  <2>1. PICK on \in BOOLEAN : \E r \in SetBlocking(db, on) : DoBlocking(on, r)
    BY <1>2 DEF BlockingStep
  <2>2. PICK r \in SetBlocking(db, on) : DoBlocking(on, r)
    BY <2>1
  <2>3. r.ret # "busy" /\ r.db.st = db.st /\ r.db.busy = db.busy
    BY <1>0, <1>2, SetBlockingIs DEF Switched
  <2>4. Took(Call("blocking", NoCursor, NoKind, on), r) /\ cur' = cur
    BY <2>2 DEF DoBlocking
  <2> QED
    BY <1>2, <2>3, <2>4, AtConnection
<1>3. ASSUME Known, AutocommitStep
      PROVE  SlotsInv'
  <2>1. PICK on \in BOOLEAN : \E r \in SetAutocommit(db, on) : DoAutocommit(on, r)
    BY <1>3 DEF AutocommitStep
  <2>2. PICK r \in SetAutocommit(db, on) : DoAutocommit(on, r)
    BY <2>1
  <2>3. r.ret = "ok" /\ r.db.st = db.st /\ r.db.busy = db.busy
    BY <1>0, <1>3, SetAutocommitIs
  <2>4. Took(Call("autocommit", NoCursor, NoKind, on), r) /\ cur' = cur
    BY <2>2 DEF DoAutocommit
  <2> QED
    BY <1>3, <2>3, <2>4, AtConnection
<1>4. ASSUME Known, ConnectStep
      PROVE  SlotsInv'
  <2>1. PICK r \in DbConnect(db) : DoConnect(r)
    BY <1>4 DEF ConnectStep
  <2>2. r.ret = "ok" /\ r.db.st = db.st /\ r.db.busy = db.busy
    BY <1>0, <1>4, DbConnectIs
  <2>3. Took(Call("connect", NoCursor, NoKind, NoArgs), r) /\ cur' = cur
    BY <2>1 DEF DoConnect
  <2> QED
    BY <1>4, <2>2, <2>3, AtConnection
<1> QED
  BY <1>1, <1>2, <1>3, <1>4

LEMMA SlotsOwn == Known /\ OwnStep => SlotsInv'
<1> SUFFICES ASSUME Known, NEW op \in {"exists", "run"}, NEW kind \in AllKinds, NEW a \in Args,
                    NEW always \in BOOLEAN,
                    NEW r \in IF FreeSths(db) = {} THEN {Sets(db, "error")}
                              ELSE OwnCursor(db, kind, a, always),
                    DoShot(op, kind, a, r), always \/ (op = "exists" /\ kind = "query")
             PROVE  SlotsInv'
  BY DEF OwnStep
<1>1. db \in Sound /\ Took(Call(op, NoCursor, kind, a), r) /\ cur' = cur
  BY DEF Known, Base, DoShot
<1>2. /\ db.busy \notin Sths /\ op \in ClientCalls
      /\ db' = r.db /\ last'.ret = r.ret /\ last'.call.op = op
      /\ db.nb => "attr" \notin Faults
  BY <1>1, OnNone
<1>3. db.up
  BY <1>1 DEF Took, Call
<1>4. Steady(db) /\ Sure(db) /\ (op = "exists" => "fetch" \notin Faults)
  BY <1>2, BusyNotFree DEF Known, Orderly, Steady, Sure
<1>5. CASE FreeSths(db) = {}
  <2>1. r.ret # "busy" /\ r.db.st = db.st /\ r.db.busy = db.busy
    BY <1>1, <1>5, OwnIs
  <2> QED
    BY <1>1, <2>1, AtConnection
<1>6. CASE FreeSths(db) # {}
  <2> DEFINE s == FirstFree(db)
             t == r.db.st[s]
  <2>1. /\ s \in Sths /\ ~db.st[s].defs /\ ~db.st[s].still
    BY <1>3, <1>6, FreeIs
  <2>2. r.ret # "busy" /\ Within(db, s, r.db) /\ Marked(r.db, s) /\ Freed(t)
    BY <1>1, <1>4, <1>6, <2>1, OwnIs DEF Clean
  <2>3. /\ ~t.used /\ ~t.still /\ ~t.defs /\ r.db.busy # s
    BY <2>2 DEF Freed, Marked
  <2> HIDE DEF s
  <2>4. Aside(s) /\ db'.busy \in {db.busy, NoSth, s}
    BY <1>2, <2>1, <2>2, WithinAside, WithinModeIs
  <2>5. Settled(s) /\ InOrder(db'.st[s], db'.busy = s) /\ RanGoing'
    BY <1>2, <2>2, <2>3 DEF Settled, InOrder, RanGoing
  <2>6. Held' = Held
    BY <1>1 DEF Held
  <2> QED
    BY <1>2, <1>3, <2>1, <2>3, <2>4, <2>5, <2>6, AtSlot
<1> QED
  BY <1>5, <1>6

\* A break that changes no statement, and one that closes those marked.
LEMMA SlotsBreak == Known /\ BreakStep => SlotsInv'
<1> SUFFICES ASSUME Known, NEW r \in Break(db), DoBreak(r)
             PROVE  SlotsInv'
  BY DEF BreakStep
<1> DEFINE c == IF Busy THEN last.call.cur ELSE NoCursor
           q == BreakOutcome(r)
           S == StillSths(db)
<1>1. /\ TypeOK /\ HandleInv /\ SlotsInv /\ db \in Sound
      /\ NoSth \notin Sths /\ "free" \notin Faults
  BY CursorAssumption DEF Known, Base, Orderly, Sths, NoSth
<1>2. r.ret \in Rets /\ Broken(db, r.db, r.ret) /\ r.db.nb = db.nb /\ r.db.up = db.up
  BY <1>1, BreakIs
<1>3. /\ Took(Call("break", c, NoKind, NoArgs), q)
      /\ cur' = IF q.ret = "ok" /\ c # NoCursor THEN Gone(c) ELSE cur
      /\ q.db = r.db /\ q.ret = IF Busy /\ r.ret # "ok" THEN "busy" ELSE r.ret
  BY BreakOutcomeIs DEF DoBreak
<1>4. /\ db' = r.db /\ last'.call.op = "break" /\ last'.call.cur = c /\ last'.ret = q.ret
      /\ db.up
  BY <1>3 DEF Took, Call
<1>5. /\ c \in Cursors \union {NoCursor}
      /\ Busy => db.nb /\ (c \in Cursors => cur[c] = db.busy /\ db.busy \in Sths)
      /\ c # NoCursor => Busy
      /\ db.busy \in Sths => Busy /\ c \in Cursors
  BY <1>1 DEF TypeOK, Calls, SlotsInv, Going
<1>6. RanGoing'
  BY <1>4 DEF RanGoing
<1> HIDE DEF c, q
<1>7. CASE r.db.st = db.st /\ r.db.busy = db.busy /\ (r.ret = "error" \/ (r.ret = "ok" /\ ~db.nb))
  <2>1. CASE Busy
    <3>1. q.ret = "busy" /\ cur' = cur
      BY <1>3, <1>5, <1>7, <2>1
    <3>2. Going'
      BY <1>2, <1>4, <1>5, <1>7, <2>1, <3>1 DEF Going, Busy
    <3>3. Held' = Held
      BY <3>1 DEF Held
    <3> QED
      BY <1>1, <1>2, <1>4, <1>6, <1>7, <3>2, <3>3
         DEF SlotsInv, StillTruth, CleanSlots, AllInOrder, NoLostSlot, UsedSths
  <2>2. CASE ~Busy
    <3>1. q.ret # "busy" /\ cur' = cur /\ db.busy \notin Sths
      BY <1>3, <1>5, <1>7, <2>2
    <3>2. Going'
      BY <1>4, <1>7, <3>1 DEF Going, Busy
    <3>3. Held' = Held
      BY <3>1 DEF Held
    <3> QED
      BY <1>1, <1>2, <1>4, <1>6, <1>7, <3>2, <3>3
         DEF SlotsInv, StillTruth, CleanSlots, AllInOrder, NoLostSlot, UsedSths
  <2> QED
    BY <2>1, <2>2
<1>8. CASE /\ r.db.busy = NoSth
           /\ \A s \in Sths \ S : r.db.st[s] = db.st[s]
           /\ \A s \in S : ~r.db.st[s].used /\ ~r.db.st[s].still /\ ~r.db.st[s].defs
           /\ S # {} => r.ret = "ok"
           /\ r.ret \in {"ok", "error"}
  <2>1. \A s \in Sths : s \in S <=> db.busy = s
    BY <1>1 DEF SlotsInv, StillTruth, HandleInv, BusyUsed, StillSths, UsedSths
  <2> HIDE DEF S
  <2>2. db'.busy \notin Sths
    BY <1>1, <1>4, <1>8
  <2>3. StillTruth'
    <3>1. \A s \in Sths \ S : ~db.st[s].still
      BY <1>1, <2>1 DEF SlotsInv, StillTruth
    <3>2. \A s \in Sths : ~db'.st[s].still
      BY <1>4, <1>8, <3>1
    <3> QED
      BY <2>2, <3>2 DEF StillTruth
  <2>4. Going'
    <3>1. Busy' => Busy /\ S = {}
      BY <1>3, <1>4, <1>8 DEF Busy
    <3>2. Busy' => db'.nb /\ c \notin Cursors
      BY <1>2, <1>4, <1>5, <2>1, <3>1
    <3> QED
      BY <1>4, <2>2, <3>2 DEF Going
  <2>5. CleanSlots'
    <3>1. \A s \in Sths : ~db.st[s].used => ~db.st[s].defs
      BY <1>1, <1>4 DEF SlotsInv, CleanSlots
    <3>2. \A s \in Sths : ~db'.st[s].used => ~db'.st[s].defs
      BY <1>4, <1>8, <3>1
    <3> QED
      BY <3>2 DEF CleanSlots
  <2>6. AllInOrder'
    <3>1. ASSUME NEW s \in Sths
          PROVE  InOrder(db'.st[s], db'.busy = s)
      <4>1. CASE s \in S
        BY <1>4, <1>8, <4>1 DEF InOrder
      <4>2. CASE s \notin S
        BY <1>1, <1>4, <1>8, <2>1, <2>2, <4>2 DEF SlotsInv, AllInOrder, InOrder
      <4> QED
        BY <4>1, <4>2
    <3> QED
      BY <3>1 DEF AllInOrder
  <2>7. \A s \in Held : s \in Held' \/ s \in S
    <3>1. CASE cur' = cur
      BY <3>1 DEF Held
    <3>2. CASE cur' # cur
      <4>1. c \in Cursors /\ cur' = Gone(c) /\ cur[c] \in S
        BY <1>3, <1>5, <2>1, <3>2
      <4>2. Held \ {cur[c]} \subseteq Held'
        <5>1. 0 \in Sths
          BY CursorAssumption DEF Sths
        <5> QED
          BY <1>1, <4>1, <5>1, HeldIs
      <4> QED
        BY <4>1, <4>2
    <3> QED
      BY <3>1, <3>2
  <2>8. NoLeak => NoLostSlot'
    BY <1>1, <1>4, <1>8, <2>7 DEF SlotsInv, NoLostSlot, UsedSths
  <2> QED
    BY <1>6, <2>3, <2>4, <2>5, <2>6, <2>8 DEF SlotsInv
<1> QED
  BY <1>1, <1>2, <1>7, <1>8 DEF Broken

\* The end of the session or of the connection leaves no statement in use.
LEMMA SlotsEnd == Known /\ EndStep => SlotsInv'
<1> SUFFICES ASSUME Known, NEW op \in {"finish", "free"},
                    NEW r \in DbFinish(db) \union DbFree(db), DoEnd(op, r)
             PROVE  SlotsInv'
  BY DEF EndStep
<1>1. /\ SlotsInv /\ db \in Sound /\ NoSth \notin Sths
      /\ "free" \notin Faults /\ ~({"free", "connect"} \subseteq ClientCalls)
  BY CursorAssumption DEF Known, Base, Orderly, Sths, NoSth
<1>2. /\ db' = r.db /\ last'.call.op = op /\ last'.ret = r.ret /\ db.up /\ op \in ClientCalls
      /\ op = "finish" => r \in DbFinish(db)
  BY DEF DoEnd, Took, Call
<1>3. /\ r.ret = "ok" /\ ~db'.up /\ db'.busy = NoSth
      /\ \A s \in Sths : ~db'.st[s].used /\ ~db'.st[s].still
      /\ op = "finish" => \A s \in Sths : r.db.st[s].defs => ~db.st[s].used /\ db.st[s].defs
  BY <1>1, <1>2, DbEndIs DEF Emptied
<1>4. StillTruth' /\ AllInOrder' /\ NoLostSlot'
  BY <1>1, <1>3 DEF StillTruth, AllInOrder, InOrder, NoLostSlot, UsedSths
<1>5. Going' /\ RanGoing'
  BY <1>1, <1>2, <1>3 DEF Going, Busy, RanGoing
<1>6. CleanSlots'
  <2>1. CASE op = "finish"
    BY <1>1, <1>2, <1>3, <2>1 DEF SlotsInv, CleanSlots
  <2>2. CASE op = "free"
    BY <1>1, <1>2, <1>3, <2>2 DEF CleanSlots
  <2> QED
    BY <2>1, <2>2
<1> QED
  BY <1>4, <1>5, <1>6 DEF SlotsInv

LEMMA SlotsStep == Known /\ [Next]_vars => SlotsInv'
<1>1. Known /\ UNCHANGED vars => SlotsInv'
  BY DEF Known, vars, SlotsInv, StillTruth, Going, CleanSlots, AllInOrder, NoLostSlot, Held,
         RanGoing, Busy
<1> QED
  BY <1>1, NextIs, SlotsOpen, SlotsOpen2, SlotsPrepare, SlotsNewCursor, SlotsReopen, SlotsBind,
     SlotsExecute, SlotsFetch, SlotsResult, SlotsClose, SlotsOwn, SlotsBreak, SlotsEnd,
     SlotsConnection

LEMMA SlotsInit == Init => SlotsInv
<1> SUFFICES ASSUME Init
             PROVE  SlotsInv
  OBVIOUS
<1>1. /\ db.busy = NoSth /\ NoSth \notin Sths /\ last.call.op = "none" /\ last.ret = "ok"
      /\ \A s \in Sths : ~db.st[s].used /\ ~db.st[s].still /\ ~db.st[s].defs
  BY CursorAssumption DEF Init, EmptyDb, EmptyStmt, Sths, NoSth
<1> QED
  BY <1>1 DEF SlotsInv, StillTruth, Going, Busy, CleanSlots, AllInOrder, InOrder, NoLostSlot,
              UsedSths, RanGoing

\* The invariant with all it rests on.
SlotsBase == Base /\ HandleInv /\ NbOff /\ SlotsInv /\ ("ntable" \notin ClientCalls => MarkInv)

LEMMA SlotsBaseStep == Orderly /\ SlotsBase /\ [Next]_vars => SlotsBase'
<1> SUFFICES ASSUME Orderly, SlotsBase, [Next]_vars
             PROVE  SlotsBase'
  OBVIOUS
<1>1. Base' /\ NbOff'
  BY BaseStep, NbOffStep DEF SlotsBase
<1>2. HandleInv' /\ ("ntable" \notin ClientCalls => MarkInv')
  BY HandlesNext DEF SlotsBase, Orderly, Quiet
<1>3. SlotsInv'
  BY <1>1, SlotsStep DEF SlotsBase, Known
<1> QED
  BY <1>1, <1>2, <1>3 DEF SlotsBase

LEMMA SlotsBaseInit == Init => SlotsBase
BY BaseInit, HandlesInit, SlotsInit DEF SlotsBase, NbOff, Init, EmptyDb

LEMMA SlotsAlways == ASSUME Orderly PROVE Spec => []SlotsBase
<1>1. Orderly /\ SlotsBase /\ [Next]_vars => SlotsBase'
  BY SlotsBaseStep
<1> QED
  BY <1>1, SlotsBaseInit, PTL DEF Spec

\* The flag still_executing of a statement says whether a call on it goes on:
\* sqlo_break closes what goes on and nothing else, and sqlo_open2 and
\* sqlo_execute resume what OCI still works on.
THEOREM StillIsBusy == ASSUME Orderly PROVE Spec => []StillTruth
<1>1. SlotsBase => StillTruth
  BY DEF SlotsBase, SlotsInv
<1> QED
  BY <1>1, SlotsAlways, PTL

\* A slot that is in use is that of a handle the application holds: no call
\* that fails, or is broken off, leaves one behind that nobody can close.
THEOREM NoSlotIsLost == ASSUME Orderly, NoLeak PROVE Spec => []NoLostSlot
<1>1. SlotsBase => NoLostSlot
  BY DEF SlotsBase, SlotsInv
<1> QED
  BY <1>1, SlotsAlways, PTL

\* A query that is open has been executed by the server, unless it still is.
THEOREM OpenQueriesHaveRun == ASSUME Orderly, OpenRuns PROVE Spec => []OpenedHasRun
<1>1. SlotsBase => OpenedHasRun
  <2>1. SlotsBase => TypeOK /\ AllInOrder
    BY DEF SlotsBase, SlotsInv, Base
  <2> QED
    BY <2>1 DEF AllInOrder, InOrder, OpenedHasRun
<1> QED
  BY <1>1, SlotsAlways, PTL

\* A query that was opened or reopened with values has run with them, however
\* often the call was repeated while it went on.
THEOREM QueriesRunWithTheirValues == ASSUME Orderly, ReopenRuns PROVE Spec => []RanWithArgs
<1>1. SlotsBase => RanWithArgs
  BY DEF SlotsBase, SlotsInv, RanGoing, RanWithArgs
<1> QED
  BY <1>1, SlotsAlways, PTL

-----------------------------------------------------------------------------
(* The slots of an application that breaks nothing off, whichever of its   *)
(* executions and fetches fail.  StillTruth does not hold for it: a mark   *)
(* outlives the call that failed.                                          *)

\* The application does not call sqlo_break, which closes what is marked, nor
\* sqlo_reopen with values, which returns an old status for a statement that is
\* marked and no query, nor sqlo_define_ntable; no mode fails to be set, and the
\* rest is as in Orderly.
Unbroken ==
  /\ \A l \in {"bind", "free", "attr", "toggle"} : l \notin Faults
  /\ \A f \in {"break", "reopen", "ntable"} : f \notin ClientCalls
  /\ "exists" \in ClientCalls => "fetch" \notin Faults
  /\ ~({"free", "connect"} \subseteq ClientCalls)

\* Nothing that the next statement could take for its own is left in a free slot.
Vacant ==
  db.up \/ "connect" \in ClientCalls =>
    \A s \in Sths : ~db.st[s].used => ~db.st[s].defs /\ ~db.st[s].still

HeldInv == NoLostSlot /\ Vacant
Spared ==
  Unbroken /\ NoLeak /\ Base /\ Base' /\ HandleInv /\ MarkInv /\ HeldInv

\* The step worked on slot s, or on none.
LEMMA HeldAtSlot ==
  ASSUME Spared, db.up, NEW s \in Sths, Aside(s), Held \ {s} \subseteq Held',
         db'.st[s].used => s \in Held',
         ~db'.st[s].used => ~db'.st[s].defs /\ ~db'.st[s].still
  PROVE  HeldInv'
<1>1. HeldInv /\ "ntable" \notin ClientCalls
  BY DEF Spared, Unbroken
<1>2. ASSUME NEW u \in Sths
      PROVE  /\ db'.st[u].used => u \in Held'
             /\ ~db'.st[u].used => ~db'.st[u].defs /\ ~db'.st[u].still
  <2>1. CASE u = s
    BY <2>1
  <2>2. CASE u # s
    <3>1. /\ db'.st[u].used = db.st[u].used /\ db'.st[u].still = db.st[u].still
          /\ db'.st[u].defs => db.st[u].defs
      BY <1>1, <2>2 DEF Aside
    <3> QED
      BY <1>1, <2>2, <3>1 DEF HeldInv, Vacant, NoLostSlot, UsedSths
  <2> QED
    BY <2>1, <2>2
<1>3. NoLostSlot'
  BY <1>2 DEF NoLostSlot, UsedSths
<1>4. Vacant'
  BY <1>2 DEF Vacant
<1> QED
  BY <1>3, <1>4 DEF HeldInv

LEMMA HeldAtNone ==
  ASSUME Spared, db.up \/ "connect" \in ClientCalls, db'.st = db.st, Held \subseteq Held'
  PROVE  HeldInv'
BY DEF Spared, HeldInv, NoLostSlot, UsedSths, Vacant

\* A call that is made: what is known of it, and of the statement in variable c.
LEMMA Made ==
  ASSUME Spared, NEW op, NEW c, NEW kind, NEW a, NEW r, Took(Call(op, c, kind, a), r)
  PROVE  /\ db' = r.db /\ last'.ret = r.ret /\ op \in ClientCalls
         /\ op # "break" /\ (db.up \/ (op = "connect" /\ "connect" \in ClientCalls))
         /\ Busy => op = "free" \/ (last.call.op = op /\ last.call.cur = c)
         /\ db \in Sound /\ TypeOK /\ NoSth \notin Sths
         /\ Steady(db) /\ ModesHold(db) /\ Sure(db)
         /\ c \in Cursors /\ cur[c] # NoSth => cur[c] \in Sths /\ db.st[cur[c]].used
<1>1. /\ Unbroken /\ db \in Sound /\ TypeOK /\ HandleInv /\ NoSth \notin Sths
  BY CursorAssumption DEF Spared, Base, Sths, NoSth
<1>2. Steady(db) /\ ModesHold(db) /\ Sure(db)
  BY <1>1, BusyNotFree DEF Unbroken, Steady, ModesHold, Sure
<1>3. c \in Cursors /\ cur[c] # NoSth => cur[c] \in Sths /\ db.st[cur[c]].used
  BY <1>1 DEF TypeOK, HandleInv, HandlesValid
<1> QED
  BY <1>1, <1>2, <1>3 DEF Took, Call, Unbroken

\* What is free is unmarked and has no columns.
LEMMA VacantIs ==
  ASSUME Spared, db.up, NEW s, s = FirstFree(db), FreeSths(db) # {}
  PROVE  s \in Sths /\ ~db.st[s].used /\ ~db.st[s].defs /\ ~db.st[s].still
BY FirstFreeIn DEF Spared, HeldInv, Vacant

\* A new statement was made in slot s, and is in variable c if it has not failed.
LEMMA HeldAtNew ==
  ASSUME Spared, db.up, NEW s, s = FirstFree(db), FreeSths(db) # {},
         NEW c \in Cursors, cur[c] = NoSth, NEW r, Aside(s), NEW t, t = r.db.st[s],
         db' = r.db, ~t.used => ~t.defs /\ ~t.still, t.used => ~Fails(r),
         \/ cur' = IF Fails(r) THEN cur ELSE Opened(c, s)
         \/ cur' = IF Fails(r) THEN Gone(c) ELSE Opened(c, s)
  PROVE  HeldInv'
<1>1. s \in Sths
  BY VacantIs
<1>2. TypeOK /\ NoSth \notin Sths
  BY CursorAssumption DEF Spared, Base, Sths, NoSth
<1>3. /\ Held \subseteq Held'
      /\ t.used => s \in Held'
  BY <1>1, <1>2, HeldIs DEF Held
<1> QED
  BY <1>1, <1>3, HeldAtSlot

LEMMA HeldOpen == Spared /\ OpenStep => HeldInv'
<1> SUFFICES ASSUME Spared, NEW c \in Cursors, NEW kind \in Kinds, NEW a \in Args \union {NoArgs},
                    NEW r \in Open(db, kind, a), DoOpen(c, kind, a, r)
             PROVE  HeldInv'
  BY DEF OpenStep
<1>1. /\ cur[c] = NoSth /\ Took(Call("open", c, kind, a), r)
      /\ cur' = IF Fails(r) THEN cur ELSE Opened(c, FirstFree(db))
  BY DEF DoOpen
<1>2. /\ kind \in AllKinds /\ db \in Sound /\ Steady(db) /\ ModesHold(db)
      /\ db' = r.db /\ db.up /\ "free" \notin Faults
  BY <1>1, KindAssumption, Made DEF Spared, Unbroken
<1>3. CASE FreeSths(db) = {}
  <2>1. r.ret = "error" /\ Switched(db, r.db)
    BY <1>2, <1>3, OpenIs
  <2>2. Held' = Held
    BY <1>1, <2>1 DEF Fails, Held
  <2> QED
    BY <1>2, <2>1, <2>2, HeldAtNone DEF Switched
<1>4. CASE FreeSths(db) # {}
  <2> DEFINE s == FirstFree(db)
             t == r.db.st[s]
  <2>1. /\ WithinMode(db, s, r.db) /\ Opening(db, s, r.db, r.ret)
        /\ NewRun(db.st[s], kind, a, t, r.ret)
    BY <1>2, <1>4, OpenIs
  <2>2. s \in Sths /\ ~db.st[s].used /\ ~db.st[s].defs /\ ~db.st[s].still
    BY <1>2, <1>4, VacantIs
  <2>3. /\ ~t.used => ~t.defs /\ ~t.still
        /\ t.used => ~Fails(r)
    BY <1>2, <2>1, <2>2 DEF Opening, NewRun, Fails
  <2> HIDE DEF s, t
  <2>4. Aside(s)
    BY <1>2, <2>1, <2>2, WithinAside
  <2>5. s = FirstFree(db) /\ t = r.db.st[s]
    BY DEF s, t
  <2>6. cur' = IF Fails(r) THEN cur ELSE Opened(c, s)
    BY <1>1, <2>5
  <2> QED
    BY <1>1, <1>2, <1>4, <2>3, <2>4, <2>5, <2>6, HeldAtNew
<1> QED
  BY <1>3, <1>4

\* A call that leaves the statement in variable c in use, or closes it.
LEMMA HeldAtOwn ==
  ASSUME Spared, db.up, NEW c \in Cursors, NEW h \in Sths, h = cur[c], NEW y, db' = y,
         WithinMode(db, h, y), NEW t, t = y.st[h],
         \/ cur' = Gone(c) /\ ~t.used /\ ~t.defs /\ ~t.still
         \/ (cur' = cur \/ cur' = Opened(c, h)) /\ t.used
  PROVE  HeldInv'
<1>1. Aside(h) /\ TypeOK /\ NoSth \notin Sths
  BY WithinAside, CursorAssumption DEF Spared, Base, Sths, NoSth
<1>2. /\ Held \ {h} \subseteq Held'
      /\ t.used => h \in Held'
  BY <1>1, HeldIs DEF Held
<1> QED
  BY <1>1, <1>2, HeldAtSlot

\* A repeated sqlo_open2 goes on with the statement it has made.
LEMMA HeldOpen2 == Spared /\ Open2Step => HeldInv'
<1> SUFFICES ASSUME Spared, NEW c \in Cursors, NEW kind \in Kinds, NEW a \in Args \union {NoArgs},
                    NEW h, h = cur[c], NEW r \in Open2(db, h, kind, a), DoOpen2(c, kind, a, r)
             PROVE  HeldInv'
  BY DEF Open2Step
<1>1. /\ h = NoSth \/ Busy
      /\ Took(Call("open2", c, kind, a), r)
      /\ cur' = IF Fails(r) THEN Gone(c) ELSE Opened(c, IF h = NoSth THEN FirstFree(db) ELSE h)
  BY DEF DoOpen2
<1>2. /\ kind \in AllKinds /\ db \in Sound /\ Steady(db) /\ TypeOK /\ NoSth \notin Sths
      /\ db' = r.db /\ db.up
      /\ "free" \notin Faults /\ "attr" \notin Faults /\ "bind" \notin Faults
      /\ Busy => last.call.op = "open2" /\ last.call.cur = c
      /\ h # NoSth => h \in Sths /\ db.st[h].used
  BY <1>1, KindAssumption, Made DEF Spared, Unbroken
<1>3. h # NoSth => GoesOn(db, h)
  <2>1. ASSUME h # NoSth
        PROVE  BusyGoing(c)
    <3>1. Busy /\ last.call.op = "open2" /\ last.call.cur = c
      BY <1>1, <1>2, <2>1
    <3>2. MarkInv
      BY DEF Spared
    <3>3. cur[c] = db.busy /\ cur[c] # NoSth
      BY <2>1, <3>1, <3>2 DEF MarkInv, OpenGoing
    <3> QED
      BY <3>2, <3>3 DEF MarkInv, BusyHeld
  <2> QED
    BY <1>1, <1>2, <2>1 DEF BusyGoing
<1>4. CASE h # NoSth
  <2>1. /\ Within(db, h, r.db) /\ r.ret \in Rets \ {"nodata"} /\ Reopened(db, h, r.db, r.ret)
        /\ RanWith(db.st[h], r.db.st[h], r.ret, Given(db, h, a))
    BY <1>2, <1>3, <1>4, Open2Is
  <2> DEFINE t == r.db.st[h]
  <2>2. /\ r.ret = "error" => ~t.used /\ ~t.defs /\ ~t.still
        /\ r.ret # "error" => t.used
    BY <1>2, <2>1 DEF Reopened, RanWith, Rets
  <2>3. \/ cur' = Gone(c) /\ ~t.used /\ ~t.defs /\ ~t.still
        \/ cur' = Opened(c, h) /\ t.used
    BY <1>1, <1>4, <2>1, <2>2 DEF Fails, Rets
  <2>4. WithinMode(db, h, r.db) /\ h \in Sths
    BY <1>2, <1>4, <2>1, WithinModeIs
  <2> HIDE DEF t
  <2>5. t = r.db.st[h]
    BY DEF t
  <2> QED
    BY <1>2, <2>3, <2>4, <2>5, HeldAtOwn
<1>5. CASE h = NoSth
  <2>0. ~GoesOn(db, h)
    BY <1>2, <1>5 DEF GoesOn
  <2>1. CASE FreeSths(db) = {}
    <3>1. r.ret = "error" /\ Untouched(db, r.db)
      BY <1>2, <2>0, <2>1, Open2Is
    <3>2. cur' = Gone(c)
      BY <1>1, <3>1 DEF Fails
    <3>3. Held \subseteq Held'
      <4>1. 0 \in Sths
        BY CursorAssumption DEF Sths
      <4> QED
        BY <1>2, <1>5, <3>2, <4>1, HeldIs DEF Held
    <3> QED
      BY <1>2, <3>1, <3>3, HeldAtNone DEF Untouched
  <2>2. CASE FreeSths(db) # {}
    <3> DEFINE s == FirstFree(db)
               t == r.db.st[s]
    <3>1. /\ Within(db, s, r.db) /\ NewOpened(db, s, r.db, r.ret)
          /\ NewRun(db.st[s], kind, a, t, r.ret)
      BY <1>2, <2>0, <2>2, Open2Is
    <3>2. s \in Sths /\ ~db.st[s].used /\ ~db.st[s].defs /\ ~db.st[s].still
      BY <1>2, <2>2, VacantIs
    <3>3. /\ ~t.used => ~t.defs /\ ~t.still
          /\ t.used => ~Fails(r)
      BY <1>2, <3>1, <3>2 DEF NewOpened, NewRun, Fails
    <3> HIDE DEF s, t
    <3>4. Aside(s)
      BY <1>2, <3>1, <3>2, WithinAside, WithinModeIs
    <3>5. s = FirstFree(db) /\ t = r.db.st[s]
      BY DEF s, t
    <3>6. cur' = IF Fails(r) THEN Gone(c) ELSE Opened(c, s)
      BY <1>1, <1>5, <3>5
    <3> QED
      BY <1>2, <1>5, <2>2, <3>3, <3>4, <3>5, <3>6, HeldAtNew
  <2> QED
    BY <2>1, <2>2
<1> QED
  BY <1>4, <1>5

LEMMA HeldPrepare == Spared /\ PrepareStep => HeldInv'
<1> SUFFICES ASSUME Spared, NEW c \in Cursors, NEW kind \in Kinds,
                    NEW r \in PrepareStmt(db, kind), DoPrepare(c, kind, r)
             PROVE  HeldInv'
  BY DEF PrepareStep
<1>1. /\ cur[c] = NoSth /\ Took(Call("prepare", c, kind, NoArgs), r)
      /\ cur' = IF Fails(r) THEN cur ELSE Opened(c, FirstFree(db))
  BY DEF DoPrepare
<1>2. /\ kind \in AllKinds /\ db \in Sound /\ db' = r.db /\ db.up
      /\ "prepare" \in ClientCalls
  BY <1>1, KindAssumption, Made
<1>3. CASE FreeSths(db) = {}
  <2>1. r.ret = "error" /\ Untouched(db, r.db)
    BY <1>2, <1>3, PrepareStmtIs
  <2>2. Held' = Held
    BY <1>1, <2>1 DEF Fails, Held
  <2> QED
    BY <1>2, <2>1, <2>2, HeldAtNone DEF Untouched
<1>4. CASE FreeSths(db) # {}
  <2> DEFINE s == FirstFree(db)
             t == r.db.st[s]
  <2>1. /\ r.ret \in {"ok", "error"} /\ Within(db, s, r.db) /\ NewMade(db.st[s], t)
        /\ r.ret = "error" /\ t.used => {"prepare", "type", "prefetch"} \cap Faults # {}
    BY <1>2, <1>4, PrepareStmtIs
  <2>2. s \in Sths /\ ~db.st[s].used /\ ~db.st[s].defs /\ ~db.st[s].still
    BY <1>2, <1>4, VacantIs
  <2>3. /\ ~t.used => ~t.defs /\ ~t.still
        /\ t.used => ~Fails(r)
    BY <1>2, <2>1, <2>2 DEF NewMade, Fails, Spared, NoLeak
  <2> HIDE DEF s, t
  <2>4. Aside(s)
    BY <1>2, <2>1, <2>2, WithinAside, WithinModeIs
  <2>5. s = FirstFree(db) /\ t = r.db.st[s]
    BY DEF s, t
  <2>6. cur' = IF Fails(r) THEN cur ELSE Opened(c, s)
    BY <1>1, <2>5
  <2> QED
    BY <1>1, <1>2, <1>4, <2>3, <2>4, <2>5, <2>6, HeldAtNew
<1> QED
  BY <1>3, <1>4

LEMMA HeldNewCursor == Spared /\ NewCursorStep => HeldInv'
<1>1. ASSUME Spared, NewCursorStep
      PROVE  \E c \in Cursors, e \in Cursors :
               \E r \in NewCursor(db, cur[c], "ref") : DoNewCursor(c, e, "refcursor", r)
  BY <1>1 DEF NewCursorStep, DoNewCursor, Took, Call, Spared, Unbroken
<1> SUFFICES ASSUME Spared, NEW c \in Cursors, NEW e \in Cursors, NEW h, h = cur[c],
                    NEW r \in NewCursor(db, h, "ref"), DoNewCursor(c, e, "refcursor", r)
             PROVE  HeldInv'
  BY <1>1
<1>2. /\ cur[e] = NoSth /\ h # NoSth /\ Took(Call("refcursor", c, NoKind, NoArgs), r)
      /\ cur' = IF Fails(r) THEN cur ELSE Opened(e, FirstFree(db))
  BY DEF DoNewCursor
<1>3. /\ db \in Sound /\ db' = r.db /\ db.up /\ h \in Sths /\ db.st[h].used
      /\ "bind" \notin Faults
  BY <1>2, Made DEF Spared, Unbroken
<1> DEFINE n == FirstFree(db)
           t == r.db.st[n]
<1>4. /\ r.ret \in {"ok", "error"} /\ r.db.busy = db.busy
      /\ \/ r.ret = "error" /\ r.db.st = db.st
         \/ /\ FreeSths(db) # {} /\ n \in Sths /\ n # h
            /\ Others(db, r.db, n, h)
            /\ r.db.st[h].used
            /\ CursorMade(db.st[n], t) /\ GaveCursor(db.st[h], r.db.st[h], "ref")
            /\ t.used /\ r.ret # "ok" => "bind" \in Faults
  <2>1. db \in Sound /\ h \in Sths /\ r \in NewCursor(db, h, "ref") /\ db.st[h].used
    BY <1>3
  <2> QED
    BY <2>1, NewCursorIs
<1>5. CASE r.ret = "error" /\ r.db.st = db.st
  <2>1. Held' = Held
    BY <1>2, <1>5 DEF Fails, Held
  <2> QED
    BY <1>3, <1>5, <2>1, HeldAtNone
<1>6. CASE ~(r.ret = "error" /\ r.db.st = db.st)
  <2>1. FreeSths(db) # {}
    BY <1>4, <1>6
  <2>2. n \in Sths /\ ~db.st[n].used /\ ~db.st[n].defs /\ ~db.st[n].still
    BY <1>3, <2>1, VacantIs
  <2>3. /\ ~t.used => ~t.defs /\ ~t.still
        /\ t.used => ~Fails(r)
    BY <1>3, <1>4, <1>6, <2>2 DEF CursorMade, Fails
  <2> HIDE DEF n, t
  <2>4. Aside(n)
    BY <1>3, <1>4, <1>6 DEF Aside, Others, GaveCursor, Kept, RunKept
  <2>5. n = FirstFree(db) /\ t = r.db.st[n]
    BY DEF n, t
  <2>6. cur' = IF Fails(r) THEN cur ELSE Opened(e, n)
    BY <1>2, <2>5
  <2> QED
    BY <1>2, <1>3, <2>1, <2>3, <2>4, <2>5, <2>6, HeldAtNew
<1> QED
  BY <1>5, <1>6

\* Only queries are reopened.
LEMMA HeldReopen == Spared /\ ReopenStep => HeldInv'
<1> SUFFICES ASSUME Spared, NEW c \in Cursors, NEW op \in {"reopen", "reopen_plain"},
                    NEW a \in Args \union {NoArgs}, NEW h, h = cur[c],
                    NEW r \in Reopen(db, h, a), DoReopen(c, op, a, r)
             PROVE  HeldInv'
  BY DEF ReopenStep
<1> DEFINE t == r.db.st[h]
<1>1. /\ h # NoSth /\ (a = NoArgs => db.st[h].stype = "query") /\ (op = "reopen_plain" => a = NoArgs)
      /\ Took(Call(op, c, NoKind, a), r)
      /\ cur' = IF Fails(r) THEN Gone(c) ELSE cur
  BY DEF DoReopen
<1>2. /\ db \in Sound /\ db' = r.db /\ db.up /\ h \in Sths /\ db.st[h].used
      /\ op \in ClientCalls
      /\ "bind" \notin Faults /\ "free" \notin Faults /\ "reopen" \notin ClientCalls
  BY <1>1, Made DEF Spared, Unbroken
<1>3. db.st[h].stype = "query"
  BY <1>1, <1>2
<1>4. r.ret \in Rets /\ Within(db, h, r.db) /\ ReopenedAs(db, h, a, r.db, r.ret)
  <2>1. db \in Sound /\ h \in Sths /\ r \in Reopen(db, h, a) /\ db.st[h].used
    BY <1>2
  <2> QED
    BY <1>2, <2>1, ReopenIs
<1>5. /\ r.ret # "nodata"
      /\ r.ret = "error" => ~t.used /\ ~t.defs /\ ~t.still
      /\ r.ret # "error" => t.used
  BY <1>2, <1>3, <1>4 DEF ReopenedAs, Reopened, RanWith, Rets
<1>6. \/ cur' = Gone(c) /\ ~t.used /\ ~t.defs /\ ~t.still
      \/ cur' = cur /\ t.used
  BY <1>1, <1>4, <1>5 DEF Fails, Rets
<1>7. WithinMode(db, h, r.db)
  BY <1>4, WithinModeIs
<1> HIDE DEF t
<1>8. t = r.db.st[h]
  BY DEF t
<1> QED
  BY <1>2, <1>6, <1>7, <1>8, HeldAtOwn

\* The calls that keep the statement they are on, whatever they answer.
LEMMA HeldOn ==
  Spared /\ (BindStep \/ DefineStep \/ ExecuteStep \/ FetchStep \/ ResultStep) => HeldInv'
<1>1. ASSUME Spared, NEW c \in Cursors, NEW h, h = cur[c], NEW op, NEW a, NEW r,
             DoOn(c, op, a, r), op # "connect",
             db \in Sound /\ h \in Sths =>
               Within(db, h, r.db) /\ r.db.st[h].used = db.st[h].used
      PROVE  HeldInv'
  <2>1. cur[c] # NoSth /\ Took(Call(op, c, NoKind, a), r) /\ cur' = cur
    BY <1>1 DEF DoOn
  <2>2. db \in Sound /\ h \in Sths /\ db.st[h].used /\ db' = r.db /\ db.up
    BY <1>1, <2>1, Made
  <2>3. WithinMode(db, h, r.db) /\ r.db.st[h].used
    BY <1>1, <2>2, WithinModeIs
  <2> QED
    BY <1>1, <2>1, <2>2, <2>3, HeldAtOwn
<1>2. ASSUME Spared, BindStep
      PROVE  HeldInv'
  <2>1. PICK c \in Cursors, a \in Args : \E r \in BindByName(db, cur[c], a) : DoOn(c, "bind", a, r)
    BY <1>2 DEF BindStep
  <2>2. PICK h : h = cur[c]
    OBVIOUS
  <2>3. PICK r \in BindByName(db, h, a) : DoOn(c, "bind", a, r)
    BY <2>1, <2>2
  <2>4. ASSUME db \in Sound, h \in Sths
        PROVE  Within(db, h, r.db) /\ r.db.st[h].used = db.st[h].used
    BY <2>3, <2>4, BindByNameIs
  <2> QED
    BY <1>1, <1>2, <2>2, <2>3, <2>4
<1>3. ASSUME Spared, DefineStep
      PROVE  HeldInv'
  <2>1. PICK c \in Cursors : \E r \in DefineByPos(db, cur[c]) : DoOn(c, "define", NoArgs, r)
    BY <1>3 DEF DefineStep
  <2>2. PICK h : h = cur[c]
    OBVIOUS
  <2>3. PICK r \in DefineByPos(db, h) : DoOn(c, "define", NoArgs, r)
    BY <2>1, <2>2
  <2>4. ASSUME db \in Sound, h \in Sths
        PROVE  Within(db, h, r.db) /\ r.db.st[h].used = db.st[h].used
    BY <2>3, <2>4, DefineByPosIs
  <2> QED
    BY <1>1, <1>3, <2>2, <2>3, <2>4
<1>4. ASSUME Spared, ExecuteStep
      PROVE  HeldInv'
  <2>1. PICK c \in Cursors : \E r \in Execute(db, cur[c]) : DoOn(c, "execute", NoArgs, r)
    BY <1>4 DEF ExecuteStep
  <2>2. PICK h : h = cur[c]
    OBVIOUS
  <2>3. PICK r \in Execute(db, h) : DoOn(c, "execute", NoArgs, r)
    BY <2>1, <2>2
  <2>4. ASSUME db \in Sound, h \in Sths
        PROVE  Within(db, h, r.db) /\ r.db.st[h].used = db.st[h].used
    BY <2>3, <2>4, ExecuteIs
  <2> QED
    BY <1>1, <1>4, <2>2, <2>3, <2>4
<1>5. ASSUME Spared, FetchStep
      PROVE  HeldInv'
  <2>1. PICK c \in Cursors : \E r \in Fetch(db, cur[c]) : DoOn(c, "fetch", NoArgs, r)
    BY <1>5 DEF FetchStep
  <2>2. PICK h : h = cur[c]
    OBVIOUS
  <2>3. PICK r \in Fetch(db, h) : DoOn(c, "fetch", NoArgs, r)
    BY <2>1, <2>2
  <2>4. ASSUME db \in Sound, h \in Sths
        PROVE  Within(db, h, r.db) /\ r.db.st[h].used = db.st[h].used
    BY <2>3, <2>4, FetchIs
  <2> QED
    BY <1>1, <1>5, <2>2, <2>3, <2>4
<1>6. ASSUME Spared, ResultStep
      PROVE  HeldInv'
  <2>1. PICK c \in Cursors : \E r \in QueryResult(db, cur[c]) : DoOn(c, "result", NoArgs, r)
    BY <1>6 DEF ResultStep
  <2>2. PICK h : h = cur[c]
    OBVIOUS
  <2>3. PICK r \in QueryResult(db, h) : DoOn(c, "result", NoArgs, r)
    BY <2>1, <2>2
  <2>4. ASSUME db \in Sound, h \in Sths
        PROVE  Within(db, h, r.db) /\ r.db.st[h].used = db.st[h].used
    BY <2>3, <2>4, QueryResultIs
  <2> QED
    BY <1>1, <1>6, <2>2, <2>3, <2>4
<1> QED
  BY <1>2, <1>3, <1>4, <1>5, <1>6

LEMMA HeldClose == Spared /\ CloseStep => HeldInv'
<1> SUFFICES ASSUME Spared, NEW c \in Cursors, NEW h, h = cur[c], NEW r \in Close(db, h),
                    DoClose(c, r)
             PROVE  HeldInv'
  BY DEF CloseStep
<1> DEFINE t == r.db.st[h]
<1>1. /\ h # NoSth /\ Took(Call("close", c, NoKind, NoArgs), r)
      /\ cur' = IF Fails(r) THEN cur ELSE Gone(c)
  BY DEF DoClose
<1>2. /\ db \in Sound /\ db' = r.db /\ db.up /\ h \in Sths /\ db.st[h].used
      /\ "free" \notin Faults
  BY <1>1, Made DEF Spared, Unbroken
<1>3. /\ r.ret \in {"ok", "error"} /\ Within(db, h, r.db)
      /\ r.ret = "ok" => ~t.used /\ ~t.still
      /\ ~t.defs
      /\ r.ret = "error" => "free" \in Faults
  <2>1. db \in Sound /\ h \in Sths /\ r \in Close(db, h) /\ db.st[h].used
    BY <1>2
  <2> QED
    BY <2>1, CloseIs
<1>4. cur' = Gone(c) /\ ~t.used /\ ~t.defs /\ ~t.still
  BY <1>1, <1>2, <1>3 DEF Fails
<1>5. WithinMode(db, h, r.db)
  BY <1>3, WithinModeIs
<1> HIDE DEF t
<1>6. t = r.db.st[h]
  BY DEF t
<1> QED
  BY <1>2, <1>4, <1>5, <1>6, HeldAtOwn

LEMMA HeldConnection ==
  Spared /\ (ExecStep \/ BlockingStep \/ AutocommitStep \/ ConnectStep) => HeldInv'
<1>0. Spared => db \in Sound
  BY DEF Spared, Base
<1>1. ASSUME Spared, NEW op, NEW kind, NEW a, NEW r, Took(Call(op, NoCursor, kind, a), r),
             cur' = cur, r.db.st = db.st
      PROVE  HeldInv'
  <2>1. db' = r.db /\ (db.up \/ "connect" \in ClientCalls)
    BY <1>1, Made
  <2>2. Held' = Held
    BY <1>1 DEF Held
  <2> QED
    BY <1>1, <2>1, <2>2, HeldAtNone
<1>2. ASSUME Spared, ExecStep
      PROVE  HeldInv'
  <2>1. PICK stmt \in Statements : \E r \in Exec(db, stmt) : DoShot("exec", NoKind, stmt, r)
    BY <1>2 DEF ExecStep
  <2>2. PICK r \in Exec(db, stmt) : DoShot("exec", NoKind, stmt, r)
    BY <2>1
  <2>3. r.db.st = db.st
    BY <1>0, <1>2, ExecIs DEF Apart
  <2> QED
    BY <1>1, <1>2, <2>2, <2>3 DEF DoShot
<1>3. ASSUME Spared, BlockingStep
      PROVE  HeldInv'
  <2>1. PICK on \in BOOLEAN : \E r \in SetBlocking(db, on) : DoBlocking(on, r)
    BY <1>3 DEF BlockingStep
  <2>2. PICK r \in SetBlocking(db, on) : DoBlocking(on, r)
    BY <2>1
  <2>3. r.db.st = db.st
    BY <1>0, <1>3, SetBlockingIs DEF Switched
  <2> QED
    BY <1>1, <1>3, <2>2, <2>3 DEF DoBlocking
<1>4. ASSUME Spared, AutocommitStep
      PROVE  HeldInv'
  <2>1. PICK on \in BOOLEAN : \E r \in SetAutocommit(db, on) : DoAutocommit(on, r)
    BY <1>4 DEF AutocommitStep
  <2>2. PICK r \in SetAutocommit(db, on) : DoAutocommit(on, r)
    BY <2>1
  <2>3. r.db.st = db.st
    BY <1>0, <1>4, SetAutocommitIs
  <2> QED
    BY <1>1, <1>4, <2>2, <2>3 DEF DoAutocommit
<1>5. ASSUME Spared, ConnectStep
      PROVE  HeldInv'
  <2>1. PICK r \in DbConnect(db) : DoConnect(r)
    BY <1>5 DEF ConnectStep
  <2>2. r.db.st = db.st
    BY <1>0, <1>5, DbConnectIs
  <2> QED
    BY <1>1, <1>5, <2>1, <2>2 DEF DoConnect
<1> QED
  BY <1>2, <1>3, <1>4, <1>5

LEMMA HeldOwn == Spared /\ OwnStep => HeldInv'
<1> SUFFICES ASSUME Spared, NEW op \in {"exists", "run"}, NEW kind \in AllKinds, NEW a \in Args,
                    NEW always \in BOOLEAN,
                    NEW r \in IF FreeSths(db) = {} THEN {Sets(db, "error")}
                              ELSE OwnCursor(db, kind, a, always),
                    DoShot(op, kind, a, r), always \/ (op = "exists" /\ kind = "query")
             PROVE  HeldInv'
  BY DEF OwnStep
<1>1. Took(Call(op, NoCursor, kind, a), r) /\ cur' = cur
  BY DEF DoShot
<1>2. /\ db \in Sound /\ db' = r.db /\ db.up /\ Steady(db) /\ Sure(db)
      /\ op = "exists" => "fetch" \notin Faults
  BY <1>1, Made DEF Spared, Unbroken
<1>3. Held' = Held
  BY <1>1 DEF Held
<1>4. CASE FreeSths(db) = {}
  <2>1. r.db.st = db.st
    BY <1>2, <1>4, OwnIs
  <2> QED
    BY <1>2, <1>3, <2>1, HeldAtNone
<1>5. CASE FreeSths(db) # {}
  <2> DEFINE s == FirstFree(db)
  <2>1. s \in Sths /\ ~db.st[s].defs /\ ~db.st[s].still
    BY <1>2, <1>5, VacantIs
  <2>2. Within(db, s, r.db) /\ Freed(r.db.st[s])
    BY <1>2, <1>5, <2>1, OwnIs DEF Clean
  <2> HIDE DEF s
  <2>3. Aside(s) /\ ~db'.st[s].used /\ ~db'.st[s].defs /\ ~db'.st[s].still
    BY <1>2, <2>1, <2>2, WithinAside, WithinModeIs DEF Freed
  <2> QED
    BY <1>2, <1>3, <2>1, <2>3, HeldAtSlot
<1> QED
  BY <1>4, <1>5

LEMMA HeldEnd == Spared /\ EndStep => HeldInv'
<1> SUFFICES ASSUME Spared, NEW op \in {"finish", "free"},
                    NEW r \in DbFinish(db) \union DbFree(db), DoEnd(op, r)
             PROVE  HeldInv'
  BY DEF EndStep
<1>1. /\ HeldInv /\ db \in Sound
      /\ "free" \notin Faults /\ ~({"free", "connect"} \subseteq ClientCalls)
  BY DEF Spared, Unbroken, Base
<1>2. /\ db' = r.db /\ db.up /\ op \in ClientCalls
      /\ op = "finish" => r \in DbFinish(db)
  BY DEF DoEnd, Took, Call
<1>3. /\ ~db'.up
      /\ \A s \in Sths : ~db'.st[s].used /\ ~db'.st[s].still
      /\ op = "finish" => \A s \in Sths : r.db.st[s].defs => ~db.st[s].used /\ db.st[s].defs
  BY <1>1, <1>2, DbEndIs DEF Emptied
<1>4. NoLostSlot'
  BY <1>3 DEF NoLostSlot, UsedSths
<1>5. Vacant'
  <2>1. CASE op = "finish"
    BY <1>1, <1>2, <1>3, <2>1 DEF HeldInv, Vacant
  <2>2. CASE op = "free"
    BY <1>1, <1>2, <1>3, <2>2 DEF Vacant
  <2> QED
    BY <2>1, <2>2
<1> QED
  BY <1>4, <1>5 DEF HeldInv

LEMMA HeldStep == Spared /\ [Next]_vars => HeldInv'
<1>1. Spared /\ UNCHANGED vars => HeldInv'
  BY DEF Spared, vars, HeldInv, NoLostSlot, UsedSths, Held, Vacant
<1>2. Spared => ~BreakStep
  BY DEF BreakStep, DoBreak, Took, Call, Spared, Unbroken
<1> QED
  BY <1>1, <1>2, NextIs, HeldOpen, HeldOpen2, HeldPrepare, HeldNewCursor, HeldReopen, HeldOn,
     HeldClose, HeldConnection, HeldOwn, HeldEnd

LEMMA HeldInit == Init => HeldInv
<1> SUFFICES ASSUME Init
             PROVE  HeldInv
  OBVIOUS
<1>1. \A s \in Sths : ~db.st[s].used /\ ~db.st[s].still /\ ~db.st[s].defs
  BY DEF Init, EmptyDb, EmptyStmt
<1> QED
  BY <1>1 DEF HeldInv, NoLostSlot, UsedSths, Vacant

\* An application that breaks nothing off loses no slot, in either mode,
\* whichever executions, fetches and defines fail or answer that they go on.
THEOREM NoFailureLosesASlot == ASSUME Unbroken, NoLeak PROVE Spec => []NoLostSlot
<1> DEFINE Inv == Base /\ HandleInv /\ MarkInv /\ HeldInv
<1>1. Init => Inv
  BY BaseInit, HandlesInit, HeldInit
<1>2. Inv /\ [Next]_vars => Inv'
  <2> SUFFICES ASSUME Inv, [Next]_vars
               PROVE  Inv'
    OBVIOUS
  <2>1. Base'
    BY BaseStep
  <2>2. HandleInv' /\ MarkInv'
    BY HandlesNext DEF Unbroken, Quiet
  <2>3. HeldInv'
    BY <2>1, HeldStep DEF Spared
  <2> QED
    BY <2>1, <2>2, <2>3
<1>3. Inv => NoLostSlot
  BY DEF HeldInv
<1> HIDE DEF Inv
<1> QED
  BY <1>1, <1>2, <1>3, PTL DEF Spec
=============================================================================
