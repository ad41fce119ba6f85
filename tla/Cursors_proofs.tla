---------------------------- MODULE Cursors_proofs ----------------------------
(***************************************************************************)
(* Proofs about Cursors, for any number of statements, variables, values,  *)
(* failures and calls.  A function of the library is an operator from a    *)
(* connection to the set of its outcomes, so there is a lemma for each,    *)
(* <Operator>Is, which says of every outcome what the invariants need:     *)
(* which statement it has changed (Within), how (Reopened, Opening,        *)
(* Fetched, ...), and what the returned value means.  Then follow the      *)
(* actions, NextIs, and the invariants: types and freed handles (Base),    *)
(* the modes, the handles the application holds (HandleInv) and the calls  *)
(* that go on (MarkInv).                                                   *)
(***************************************************************************)
EXTENDS Cursors, WellFoundedInduction, TLAPS

-----------------------------------------------------------------------------
(* Connections whose free slots have no OCI handle, and parts of them that *)
(* a function leaves alone.                                                *)
FreeClean(x) == \A s \in Sths : ~x.st[s].used => x.st[s].hp # "live"
Sound == {x \in Dbs : FreeClean(x)}

\* The same handles, modes and one-shot statement.
SameConn(x, y) ==
  /\ y.up = x.up /\ y.nb = x.nb /\ y.auto = x.auto
  /\ y.xhp = x.xhp /\ y.xstmt = x.xstmt /\ y.xran = x.xran

\* From x to y only the statement in slot s has changed, and it is a cursor of
\* the same kind or an ordinary one.
Within(x, s, y) ==
  /\ y \in Sound
  /\ SameConn(x, y)
  /\ \A u \in Sths \ {s} : y.st[u] = x.st[u]
  /\ y.st[s].ctype \in {x.st[s].ctype, "default"}
  /\ y.busy \in {x.busy, s, NoSth}

LEMMA WithinWithin ==
  ASSUME NEW x, NEW y, NEW z, NEW s, Within(x, s, y), Within(y, s, z)
  PROVE  Within(x, s, z)
BY DEF Within, SameConn

\* The connection x with another status, another handle on which a call goes
\* on, and another statement in slot s.
Change(x, s, a, b, stmt) == [x EXCEPT !.status = a, !.busy = b, !.st[s] = stmt]

LEMMA ChangeIs ==
  ASSUME NEW x \in Sound, NEW s \in Sths, NEW stmt \in Stmts, NEW a \in Rets,
         NEW b \in {x.busy, s, NoSth}, ~stmt.used => stmt.hp # "live",
         stmt.ctype \in {x.st[s].ctype, "default"}
  PROVE  LET y == Change(x, s, a, b, stmt)
         IN  /\ Within(x, s, y) /\ y \in Sound
             /\ y.st[s] = stmt /\ y.busy = b /\ y.status = a
<1> DEFINE y == Change(x, s, a, b, stmt)
<1>1. x \in Dbs
  BY DEF Sound
<1>2. b \in Sths \union {NoSth, ExecHandle}
  BY <1>1 DEF Dbs
<1>3. /\ y.up = x.up /\ y.nb = x.nb /\ y.auto = x.auto
      /\ y.xhp = x.xhp /\ y.xstmt = x.xstmt /\ y.xran = x.xran
      /\ y.status = a /\ y.busy = b
  BY <1>1 DEF Dbs, Change
<1>4. y.st = [x.st EXCEPT ![s] = stmt]
  BY <1>1 DEF Dbs, Change
<1>5. y \in Dbs
  BY <1>1, <1>2 DEF Dbs, Change
<1> HIDE DEF y
<1>6. x.st \in [Sths -> Stmts]
  BY <1>1 DEF Dbs
<1>7. y.st[s] = stmt /\ \A u \in Sths \ {s} : y.st[u] = x.st[u]
  BY <1>4, <1>6
<1>8. FreeClean(y)
  BY <1>7 DEF FreeClean, Sound
<1>9. Within(x, s, y)
  BY <1>3, <1>5, <1>7, <1>8 DEF Within, SameConn, Sound
<1> QED
  BY <1>3, <1>5, <1>7, <1>8, <1>9 DEF Sound, y

LEMMA SoundStmt ==
  ASSUME NEW x \in Sound, NEW s \in Sths
  PROVE  /\ x \in Dbs /\ x.st \in [Sths -> Stmts] /\ x.st[s] \in Stmts
         /\ ~x.st[s].used => x.st[s].hp # "live"
         /\ x.status \in Rets /\ x.nb \in BOOLEAN
BY DEF Sound, FreeClean, Dbs

LEMMA SetsIs ==
  ASSUME NEW x \in Sound, NEW s \in Sths, NEW a \in Rets
  PROVE  LET r == Sets(x, a)
         IN  /\ r.ret = a /\ Within(x, s, r.db) /\ r.db \in Sound
             /\ r.db.st = x.st /\ r.db.busy = x.busy /\ r.db.status = a
<1> DEFINE y == Change(x, s, a, x.busy, x.st[s])
<1>1. Sets(x, a).ret = a /\ Sets(x, a).db = [x EXCEPT !.status = a]
  BY DEF Sets, Result
<1>2. /\ [x EXCEPT !.status = a] = y
      /\ [x EXCEPT !.status = a].st = x.st
  BY SoundStmt DEF Change, Dbs
<1> HIDE DEF y
<1>3. /\ Within(x, s, y) /\ y \in Sound /\ y.busy = x.busy /\ y.status = a
  BY SoundStmt, ChangeIs DEF y
<1> QED
  BY <1>1, <1>2, <1>3

\* A call of OCI that touches no statement.
LEMMA OciIs ==
  ASSUME NEW x \in Sound, NEW s \in Sths, NEW l, NEW r \in Oci(x, l)
  PROVE  /\ r.ret \in {"ok", "error"} /\ (r.ret = "error" => l \in Faults)
         /\ Within(x, s, r.db) /\ r.db \in Sound
         /\ r.db.st = x.st /\ r.db.busy = x.busy /\ r.db.status = r.ret
<1>1. PICK a \in Answers(l) : r = Sets(x, a)
  BY DEF Oci
<1>2. a \in {"ok", "error"} /\ (a = "error" => l \in Faults) /\ a \in Rets
  BY DEF Answers, Rets
<1> QED
  BY <1>1, <1>2, SetsIs

\* What the steps that prepare, bind, define and execute leave alone.
Kept(o, t) ==
  /\ t.used = o.used /\ t.still = o.still /\ t.ran = o.ran
  /\ t.hp = o.hp /\ t.ctype = o.ctype

\* And what those leave alone that execute nothing.
RunKept(o, t) == t.exec = o.exec /\ t.opened = o.opened /\ t.stype = o.stype

\* A statement after OCIStmtExecute.
Executed(stmt, e, w) == [stmt EXCEPT !.exec = e, !.with = w]
With(x, s) == IF x.busy = s THEN x.st[s].with ELSE x.st[s].bound

LEMMA ExecutedIs ==
  ASSUME NEW stmt \in Stmts, NEW e \in BOOLEAN, NEW w \in Args \union {NoArgs}
  PROVE  LET t == Executed(stmt, e, w)
         IN  /\ t \in Stmts /\ t.exec = e /\ t.with = w
             /\ t.used = stmt.used /\ t.opened = stmt.opened /\ t.still = stmt.still
             /\ t.ran = stmt.ran /\ t.ctype = stmt.ctype /\ t.stype = stmt.stype
             /\ t.defs = stmt.defs /\ t.hp = stmt.hp /\ t.bound = stmt.bound
             /\ t.prepared = stmt.prepared
BY DEF Executed, Stmts

LEMMA ExecCallIs ==
  ASSUME NEW x \in Sound, NEW s \in Sths, NEW r \in ExecCall(x, s)
  PROVE  LET t == r.db.st[s]
             o == x.st[s]
         IN  /\ r.ret \in Rets /\ Within(x, s, r.db) /\ r.db \in Sound
             /\ r.db.status = r.ret
             /\ r.db.busy = IF r.ret = "busy" THEN s ELSE NoSth
             /\ Kept(o, t) /\ t.stype = o.stype /\ t.opened = o.opened /\ t.defs = o.defs
             /\ t.prepared = o.prepared
             /\ t.exec <=> r.ret \in {"ok", "nodata"}
             /\ t.with = With(x, s)
             /\ r.ret = "error" => o.hp # "live" \/ "execute" \in Faults
             /\ r.ret # "error" => o.hp = "live"
             /\ r.ret = "nodata" => "nodata" \in Faults /\ o.stype # "query"
             /\ r.ret = "busy" => x.nb
<1>1. PICK a \in ExecAnswers(x, s) :
        r = Sets([x EXCEPT !.busy = IF a = "busy" THEN s ELSE NoSth,
                           !.st[s].exec = a \in {"ok", "nodata"},
                           !.st[s].with = IF x.busy = s THEN x.st[s].with ELSE x.st[s].bound], a)
  BY DEF ExecCall
<1>2. /\ a \in Rets
      /\ a = "error" => x.st[s].hp # "live" \/ "execute" \in Faults
      /\ a # "error" => x.st[s].hp = "live"
      /\ a = "nodata" => "nodata" \in Faults /\ x.st[s].stype # "query"
      /\ a = "busy" => x.nb
  BY DEF ExecAnswers, Answers, Rets
<1> DEFINE b == IF a = "busy" THEN s ELSE NoSth
           e == a \in {"ok", "nodata"}
           w == With(x, s)
           t == Executed(x.st[s], e, w)
           y == Change(x, s, a, b, t)
<1>3. x \in Dbs /\ x.st[s] \in Stmts /\ (~x.st[s].used => x.st[s].hp # "live")
  BY SoundStmt
<1>4. e \in BOOLEAN /\ w \in Args \union {NoArgs} /\ b \in {x.busy, s, NoSth}
  BY <1>3 DEF Stmts, With
<1>5. r = Sets([x EXCEPT !.busy = b, !.st[s].exec = e, !.st[s].with = w], a)
  BY <1>1 DEF With
<1> HIDE DEF b, e, w
<1>6. r.ret = a /\ r.db = y
  <2>1. r.ret = a /\ r.db = [[x EXCEPT !.busy = b, !.st[s].exec = e, !.st[s].with = w]
                               EXCEPT !.status = a]
    BY <1>5 DEF Sets, Result
  <2>2. x \in Dbs
    BY <1>3
  <2>3. [[x EXCEPT !.busy = b, !.st[s].exec = e, !.st[s].with = w] EXCEPT !.status = a] = y
    BY <2>2 DEF Dbs, Stmts, Change, Executed
  <2> QED
    BY <2>1, <2>3, Zenon
<1>7. /\ t \in Stmts /\ Kept(x.st[s], t) /\ t.stype = x.st[s].stype
      /\ t.opened = x.st[s].opened /\ t.defs = x.st[s].defs /\ t.exec = e /\ t.with = w
      /\ t.prepared = x.st[s].prepared
  BY <1>3, <1>4, ExecutedIs DEF Kept
<1> HIDE DEF t
<1>8. ~t.used => t.hp # "live"
  BY <1>3, <1>7 DEF Kept
<1>9. /\ Within(x, s, y) /\ y \in Sound
      /\ y.st[s] = t /\ y.busy = b /\ y.status = a
  BY <1>2, <1>4, <1>7, <1>8, ChangeIs DEF Kept
<1> QED
  BY <1>2, <1>6, <1>7, <1>9 DEF b, e, w

LEMMA FetchCallIs ==
  ASSUME NEW x \in Sound, NEW s \in Sths, NEW r \in FetchCall(x, s)
  PROVE  LET o == x.st[s]
         IN  /\ r.ret \in Rets /\ Within(x, s, r.db) /\ r.db \in Sound
             /\ r.db.status = r.ret
             /\ r.db.busy = IF r.ret = "busy" THEN s ELSE NoSth
             /\ r.db.st[s] = o
             /\ r.ret = "error" => o.hp # "live" \/ ~o.exec \/ "fetch" \in Faults
             /\ r.ret # "error" => o.hp = "live" /\ o.exec
             /\ r.ret = "busy" => x.nb
<1>1. PICK a \in FetchAnswers(x, s) :
        r = Sets([x EXCEPT !.busy = IF a = "busy" THEN s ELSE NoSth], a)
  BY DEF FetchCall
<1>2. /\ a \in Rets
      /\ a = "error" => x.st[s].hp # "live" \/ ~x.st[s].exec \/ "fetch" \in Faults
      /\ a # "error" => x.st[s].hp = "live" /\ x.st[s].exec
      /\ a = "busy" => x.nb
  BY DEF FetchAnswers, Answers, Rets
<1> DEFINE b == IF a = "busy" THEN s ELSE NoSth
           y == Change(x, s, a, b, x.st[s])
<1>3. b \in {x.busy, s, NoSth}
  OBVIOUS
<1>4. r.ret = a /\ r.db = y
  BY <1>1, SoundStmt DEF Sets, Result, Change, Dbs
<1> HIDE DEF b
<1>5. /\ Within(x, s, y) /\ y \in Sound
      /\ y.st[s] = x.st[s] /\ y.busy = b /\ y.status = a
  BY <1>2, <1>3, SoundStmt, ChangeIs
<1> QED
  BY <1>2, <1>4, <1>5 DEF b

-----------------------------------------------------------------------------
(* sqlo_close, once and for a statement that is closed twice.              *)
LEMMA ReleasedIs ==
  ASSUME NEW stmt \in Stmts
  PROVE  LET t == Released(stmt)
         IN  /\ t \in Stmts /\ ~t.used /\ ~t.opened /\ ~t.prepared /\ ~t.still /\ ~t.ran
             /\ t.defs = stmt.defs /\ t.hp = stmt.hp /\ t.exec = stmt.exec
             /\ t.ctype = stmt.ctype
BY DEF Released, Stmts

\* A statement whose OCI handle sqlo_close could not free.
Unfreed(stmt) == [stmt EXCEPT !.defs = FALSE, !.hp = "null"]

LEMMA UnfreedIs ==
  ASSUME NEW stmt \in Stmts
  PROVE  LET t == Unfreed(stmt)
         IN  /\ t \in Stmts /\ ~t.defs /\ t.hp = "null"
             /\ t.used = stmt.used /\ t.still = stmt.still /\ t.opened = stmt.opened
             /\ t.stype = stmt.stype /\ t.exec = stmt.exec /\ t.ctype = stmt.ctype
BY DEF Unfreed, Stmts

\* The slots S after sqlo_close, when it could not free the OCI handle of
\* those in E.
LEMMA CloseSlotsIs ==
  ASSUME NEW x \in Sound, NEW S \in SUBSET Sths, NEW E \in SUBSET S
  PROVE  LET y == CloseSlots(x, S, E)
         IN  /\ y \in Sound /\ SameConn(x, y) /\ y.status = x.status
             /\ y.busy = IF x.busy \in S THEN NoSth ELSE x.busy
             /\ \A s \in Sths \ S : y.st[s] = x.st[s]
             /\ \A s \in S \ E : ~y.st[s].used /\ ~y.st[s].still /\ y.st[s].hp = "null"
             /\ \A s \in E : y.st[s] = Unfreed(x.st[s])
             /\ \A s \in S : ~y.st[s].defs
             /\ \A s \in Sths : y.st[s].ctype = x.st[s].ctype
<1> DEFINE y == CloseSlots(x, S, E)
           Closed(s) == Unfreed(x.st[s])
           F == [s \in Sths |-> IF s \notin S THEN x.st[s]
                                ELSE IF s \in E THEN Closed(s) ELSE Released(Closed(s))]
           b == IF x.busy \in S THEN NoSth ELSE x.busy
<1>1. x \in Dbs /\ x.st \in [Sths -> Stmts]
      /\ \A s \in Sths : ~x.st[s].used => x.st[s].hp # "live"
  BY DEF Sound, FreeClean, Dbs
<1>2. y = [x EXCEPT !.st = F, !.busy = b]
  BY Zenon DEF CloseSlots, Unfreed
<1>3. ASSUME NEW s \in Sths
      PROVE  /\ Closed(s) \in Stmts /\ Closed(s).hp = "null" /\ ~Closed(s).defs
             /\ Closed(s).ctype = x.st[s].ctype
  <2>1. x.st[s] \in Stmts
    BY <1>1
  <2> QED
    BY <2>1, UnfreedIs
<1>4. \A s \in Sths : LET t == Released(Closed(s))
                      IN  /\ t \in Stmts /\ ~t.used /\ ~t.still /\ t.hp = "null"
                          /\ t.ctype = x.st[s].ctype /\ ~t.defs
  BY <1>3, ReleasedIs
<1> HIDE DEF Closed
<1>5. F \in [Sths -> Stmts]
  BY <1>1, <1>3, <1>4
<1>6. b \in Sths \union {NoSth, ExecHandle}
  BY <1>1 DEF Dbs
<1>7. /\ \A s \in Sths \ S : F[s] = x.st[s]
      /\ \A s \in S \ E : F[s] = Released(Closed(s))
      /\ \A s \in E : F[s] = Closed(s)
  OBVIOUS
<1> HIDE DEF F, b, y
<1>8. /\ y \in Dbs /\ y.st = F /\ y.busy = b /\ y.status = x.status /\ SameConn(x, y)
  BY <1>1, <1>2, <1>5, <1>6 DEF Dbs, SameConn
<1>9. FreeClean(y)
  <2> SUFFICES ASSUME NEW s \in Sths
               PROVE  ~F[s].used => F[s].hp # "live"
    BY <1>8 DEF FreeClean
  <2> QED
    BY <1>1, <1>3, <1>4, <1>7
<1>10. y \in Sound
  BY <1>8, <1>9 DEF Sound
<1>11. /\ \A s \in Sths \ S : y.st[s] = x.st[s]
       /\ \A s \in S \ E : ~y.st[s].used /\ ~y.st[s].still /\ y.st[s].hp = "null"
       /\ \A s \in E : y.st[s] = Closed(s)
       /\ \A s \in S : ~y.st[s].defs
       /\ \A s \in Sths : y.st[s].ctype = x.st[s].ctype
  BY <1>3, <1>4, <1>7, <1>8
<1> QED
  BY <1>8, <1>10, <1>11 DEF Closed, b, y

LEMMA CloseIs ==
  ASSUME NEW x \in Sound, NEW s \in Sths, NEW r \in Close(x, s)
  PROVE  LET t == r.db.st[s]
             o == x.st[s]
         IN  /\ r.ret \in {"ok", "error"} /\ Within(x, s, r.db) /\ r.db \in Sound
             /\ ~o.used => r.ret = "error" /\ r.db = x
             /\ o.used => /\ r.db.status = r.ret
                          /\ r.db.busy = IF x.busy = s THEN NoSth ELSE x.busy
             /\ r.ret = "ok" => ~t.used /\ ~t.still /\ t.hp = "null"
             /\ o.used => ~t.defs
             /\ o.used /\ r.ret = "error" =>
                  /\ "free" \in Faults /\ o.hp # "null"
                  /\ t = Unfreed(o)
<1>1. CASE ~x.st[s].used
  <2>1. r = Result(x, "error")
    BY <1>1 DEF Close
  <2>2. r.ret = "error" /\ r.db = x
    BY <2>1 DEF Result
  <2>3. Within(x, s, x)
    BY SoundStmt DEF Within, SameConn
  <2> QED
    BY <1>1, <2>2, <2>3
<1>2. CASE x.st[s].used
  <2> DEFINE E(a) == IF a = "ok" THEN {} ELSE {s}
             y(a) == CloseSlots(x, {s}, E(a))
  <2>1. PICK a \in IF x.st[s].hp = "null" THEN {"ok"} ELSE Answers("free") :
          r = Sets(y(a), a)
    BY <1>2 DEF Close
  <2>2. /\ a \in {"ok", "error"} /\ a \in Rets
        /\ a = "error" => "free" \in Faults /\ x.st[s].hp # "null"
    BY <2>1 DEF Answers, Rets
  <2> DEFINE e == E(a)
  <2>3. /\ {s} \in SUBSET Sths /\ e \in SUBSET {s}
        /\ a = "ok" => s \in {s} \ e
        /\ a = "error" => s \in e
    OBVIOUS
  <2>4. /\ y(a) \in Sound /\ SameConn(x, y(a))
        /\ y(a).busy = IF x.busy = s THEN NoSth ELSE x.busy
        /\ \A u \in Sths \ {s} : y(a).st[u] = x.st[u]
        /\ a = "ok" => ~y(a).st[s].used /\ ~y(a).st[s].still /\ y(a).st[s].hp = "null"
        /\ a = "error" => y(a).st[s] = Unfreed(x.st[s])
        /\ y(a).st[s].ctype = x.st[s].ctype /\ ~y(a).st[s].defs
    <3> HIDE DEF e
    <3> DEFINE S == {s}
               z == CloseSlots(x, S, e)
    <3>0. S \in SUBSET Sths /\ e \in SUBSET S
      BY <2>3
    <3> HIDE DEF S
    <3>1. /\ z \in Sound /\ SameConn(x, z)
          /\ z.busy = IF x.busy \in S THEN NoSth ELSE x.busy
          /\ \A u \in Sths \ S : z.st[u] = x.st[u]
          /\ \A u \in S \ e : ~z.st[u].used /\ ~z.st[u].still /\ z.st[u].hp = "null"
          /\ \A u \in e : z.st[u] = Unfreed(x.st[u])
          /\ \A u \in S : ~z.st[u].defs
          /\ \A u \in Sths : z.st[u].ctype = x.st[u].ctype
      BY <3>0, CloseSlotsIs
    <3> HIDE DEF z
    <3>2. /\ z.busy = IF x.busy = s THEN NoSth ELSE x.busy
          /\ a = "ok" => ~z.st[s].used /\ ~z.st[s].still /\ z.st[s].hp = "null"
          /\ a = "error" => z.st[s] = Unfreed(x.st[s])
          /\ z.st[s].ctype = x.st[s].ctype /\ ~z.st[s].defs
      BY <2>3, <3>1 DEF S
    <3> QED
      BY <3>1, <3>2 DEF e, z, S
  <2>5. Within(x, s, y(a))
    BY <2>4 DEF Within
  <2> HIDE DEF y
  <2>6. /\ r.ret = a /\ Within(y(a), s, r.db) /\ r.db \in Sound
        /\ r.db.st = y(a).st /\ r.db.busy = y(a).busy /\ r.db.status = a
    BY <2>1, <2>2, <2>4, SetsIs
  <2>7. Within(x, s, r.db)
    BY <2>5, <2>6, WithinWithin
  <2> QED
    BY <1>2, <2>2, <2>4, <2>6, <2>7
<1> QED
  BY <1>1, <1>2

\* The second call frees the slot if the first could not.
LEMMA CloseTwiceIs ==
  ASSUME NEW x \in Sound, NEW s \in Sths, x.st[s].used, NEW r \in CloseTwice(x, s)
  PROVE  LET t == r.db.st[s]
         IN  /\ r.ret \in {"ok", "error"} /\ Within(x, s, r.db) /\ r.db \in Sound
             /\ r.db.status = r.ret
             /\ r.db.busy = IF x.busy = s THEN NoSth ELSE x.busy
             /\ ~t.used /\ ~t.still /\ ~t.defs
<1>0. PICK q \in Close(x, s) : \E p \in Close(q.db, s) : r = Sets(p.db, p.ret)
  BY DEF CloseTwice
<1>1. PICK p \in Close(q.db, s) : r = Sets(p.db, p.ret)
  BY <1>0
<1>2. /\ q.ret \in {"ok", "error"} /\ Within(x, s, q.db) /\ q.db \in Sound
      /\ q.db.busy = IF x.busy = s THEN NoSth ELSE x.busy
      /\ q.ret = "ok" => ~q.db.st[s].used /\ ~q.db.st[s].still
      /\ q.ret = "error" => q.db.st[s] = Unfreed(x.st[s])
      /\ ~q.db.st[s].defs
  BY CloseIs
<1>3. /\ p.ret \in {"ok", "error"} /\ Within(q.db, s, p.db) /\ p.db \in Sound
      /\ ~q.db.st[s].used => p.db = q.db
      /\ q.db.st[s].used => p.db.busy = IF q.db.busy = s THEN NoSth ELSE q.db.busy
      /\ p.ret = "ok" => ~p.db.st[s].used /\ ~p.db.st[s].still
      /\ q.db.st[s].used /\ p.ret = "error" => q.db.st[s].hp # "null"
      /\ q.db.st[s].used => ~p.db.st[s].defs
  BY <1>2, CloseIs
<1>4. p.ret \in Rets
  BY <1>3 DEF Rets
<1>5. /\ r.ret = p.ret /\ Within(p.db, s, r.db) /\ r.db \in Sound
      /\ r.db.st = p.db.st /\ r.db.busy = p.db.busy /\ r.db.status = p.ret
  BY <1>1, <1>3, <1>4, SetsIs
<1>6. Within(x, s, r.db)
  BY <1>2, <1>3, <1>5, WithinWithin
<1>7. s # NoSth
  BY CursorAssumption DEF Sths, NoSth
<1>8. ~p.db.st[s].used /\ ~p.db.st[s].still /\ ~p.db.st[s].defs
  BY <1>2, <1>3, UnfreedIs, SoundStmt
<1>9. p.db.busy = IF x.busy = s THEN NoSth ELSE x.busy
  BY <1>2, <1>3, <1>7
<1> QED
  BY <1>3, <1>5, <1>6, <1>8, <1>9

-----------------------------------------------------------------------------
(* The first free slot, and the statement made of it.                      *)

LEMMA FirstFreeIn ==
  ASSUME NEW x, FreeSths(x) # {}
  PROVE  FirstFree(x) \in Sths /\ ~x.st[FirstFree(x)].used
<1> DEFINE S == FreeSths(x)
<1>1. S \subseteq Nat /\ S \subseteq Sths /\ \A s \in S : ~x.st[s].used
  BY CursorAssumption DEF FreeSths, Sths
<1> HIDE DEF S
<1>2. S # {}
  BY DEF S
<1>3. PICK m \in S : \A u \in S : ~(<<u, m>> \in OpToRel(<, Nat))
  BY <1>1, <1>2, NatLessThanWellFounded, WFMin
<1>4. \A u \in S : m <= u
  <2> SUFFICES ASSUME NEW u \in S, u < m
               PROVE  FALSE
    BY <1>1
  <2>1. <<u, m>> \in {ss \in Nat \X Nat : ss[1] < ss[2]}
    BY <1>1
  <2> QED
    BY <2>1, <1>3, Zenon DEF OpToRel
<1>5. FirstFree(x) \in S
  BY <1>4 DEF FirstFree, S
<1> QED
  BY <1>1, <1>5

NewStmt(live, d) ==
  [EmptyStmt EXCEPT !.used = live, !.hp = IF live THEN "live" ELSE "null", !.defs = d]

LEMMA NewStmtIs ==
  ASSUME NEW live \in BOOLEAN, NEW d \in BOOLEAN
  PROVE  LET t == NewStmt(live, d)
         IN  /\ t \in Stmts /\ t.used = live /\ t.hp = (IF live THEN "live" ELSE "null")
             /\ ~t.opened /\ ~t.prepared /\ ~t.still /\ ~t.ran /\ ~t.exec
             /\ t.ctype = "default" /\ t.stype = NoKind /\ t.defs = d
BY DEF NewStmt, EmptyStmt, Stmts

LEMMA StmtNewIs ==
  ASSUME NEW x \in Sound, NEW r \in StmtNew(x)
  PROVE  LET s == FirstFree(x)
         IN  /\ r.ret \in {"ok", "error"} /\ r.db.status = r.ret /\ r.db \in Sound
             /\ r.ret = "error" => FreeSths(x) = {} \/ "alloc" \in Faults
             /\ FreeSths(x) = {} => r = Sets(x, "error")
             /\ FreeSths(x) # {} =>
                  /\ Within(x, s, r.db) /\ r.db.busy = x.busy
                  /\ r.db.st[s] = NewStmt(r.ret = "ok", x.st[s].defs)
<1> DEFINE s == FirstFree(x)
<1>1. CASE FreeSths(x) = {}
  <2>1. r = Sets(x, "error")
    BY <1>1 DEF StmtNew
  <2>2. 0 \in Sths /\ "error" \in Rets
    BY CursorAssumption DEF Sths, Rets
  <2> QED
    BY <1>1, <2>1, <2>2, SetsIs
<1>2. CASE FreeSths(x) # {}
  <2>1. s \in Sths
    BY <1>2, FirstFreeIn
  <2>2. PICK a \in Answers("alloc") :
          r = Sets([x EXCEPT !.st[s] = [EmptyStmt EXCEPT
                      !.used = a = "ok", !.hp = IF a = "ok" THEN "live" ELSE "null",
                      !.defs = x.st[s].defs]], a)
    BY <1>2 DEF StmtNew
  <2> HIDE DEF s
  <2>3. a \in {"ok", "error"} /\ a \in Rets /\ (a = "error" => "alloc" \in Faults)
    BY DEF Answers, Rets
  <2> DEFINE live == a = "ok"
             t == NewStmt(live, x.st[s].defs)
  <2>4. r = Sets([x EXCEPT !.st[s] = t], a)
    BY <2>2 DEF NewStmt
  <2>5. x.st[s].defs \in BOOLEAN
    BY <2>1, SoundStmt DEF Stmts
  <2>6. t \in Stmts /\ (~t.used => t.hp # "live") /\ t.ctype = "default"
    BY <2>5, NewStmtIs
  <2> HIDE DEF t
  <2>7. x \in Dbs
    BY DEF Sound
  <2>8. r.ret = a /\ r.db = [[x EXCEPT !.st[s] = t] EXCEPT !.status = a]
    BY <2>4 DEF Sets, Result
  <2>9. [[x EXCEPT !.st[s] = t] EXCEPT !.status = a] = Change(x, s, a, x.busy, t)
    BY <2>7, <2>1 DEF Dbs, Change
  <2>10. LET y == Change(x, s, a, x.busy, t)
         IN  /\ Within(x, s, y) /\ y \in Sound
             /\ y.st[s] = t /\ y.busy = x.busy /\ y.status = a
    BY <2>1, <2>3, <2>6, ChangeIs
  <2>11. r.db = Change(x, s, a, x.busy, t)
    BY <2>8, <2>9, Zenon
  <2> QED
    BY <1>2, <2>3, <2>8, <2>10, <2>11 DEF t, s
<1> QED
  BY <1>1, <1>2

-----------------------------------------------------------------------------
(* One field of a statement is assigned.                                   *)

\* y is x with the statement t in slot s, and nothing else.
Puts(x, s, y, t) ==
  /\ y \in Sound /\ Within(x, s, y) /\ y.status = x.status /\ y.busy = x.busy
  /\ y.st[s] = t

LEMMA PutsChange ==
  ASSUME NEW x \in Sound, NEW s \in Sths, NEW t \in Stmts, ~t.used => t.hp # "live",
         t.ctype = x.st[s].ctype,
         NEW y, y = Change(x, s, x.status, x.busy, t)
  PROVE  Puts(x, s, y, t)
BY ChangeIs, SoundStmt DEF Puts

PutPrepared(x, s, v) == [x EXCEPT !.st[s].prepared = v]
PutStype(x, s, v) == [x EXCEPT !.st[s].stype = v]
PutBound(x, s, v) == [x EXCEPT !.st[s].bound = v]
PutOpened(x, s, v) == [x EXCEPT !.st[s].opened = v]
PutDefs(x, s, v) == [x EXCEPT !.st[s].defs = v]
PutRan(x, s, v) == [x EXCEPT !.st[s].ran = v]
PutStill(x, s, v) == [x EXCEPT !.st[s].still = v]

LEMMA PutPreparedIs ==
  ASSUME NEW x \in Sound, NEW s \in Sths, NEW v \in BOOLEAN
  PROVE  LET y == PutPrepared(x, s, v)
             t == y.st[s]
             o == x.st[s]
         IN  /\ Puts(x, s, y, t) /\ t.prepared = v
             /\ t.used = o.used /\ t.opened = o.opened /\ t.still = o.still /\ t.ran = o.ran
             /\ t.ctype = o.ctype /\ t.stype = o.stype /\ t.defs = o.defs /\ t.hp = o.hp
             /\ t.bound = o.bound /\ t.with = o.with /\ t.exec = o.exec
<1> DEFINE o == x.st[s]
           t == [o EXCEPT !.prepared = v]
           y == PutPrepared(x, s, v)
<1>1. x \in Dbs /\ o \in Stmts /\ (~o.used => o.hp # "live")
  BY SoundStmt
<1>2. /\ t \in Stmts /\ t.prepared = v
      /\ t.used = o.used /\ t.opened = o.opened /\ t.still = o.still /\ t.ran = o.ran
             /\ t.ctype = o.ctype /\ t.stype = o.stype /\ t.defs = o.defs /\ t.hp = o.hp
             /\ t.bound = o.bound /\ t.with = o.with /\ t.exec = o.exec
  BY <1>1 DEF Stmts
<1>3. y = Change(x, s, x.status, x.busy, t)
  BY <1>1 DEF Dbs, Stmts, Change, PutPrepared
<1> HIDE DEF t, y
<1>4. Puts(x, s, y, t)
  BY <1>1, <1>2, <1>3, PutsChange
<1> QED
  BY <1>2, <1>4 DEF Puts, y

LEMMA PutStypeIs ==
  ASSUME NEW x \in Sound, NEW s \in Sths, NEW v \in AllKinds \union {NoKind}
  PROVE  LET y == PutStype(x, s, v)
             t == y.st[s]
             o == x.st[s]
         IN  /\ Puts(x, s, y, t) /\ t.stype = v
             /\ t.used = o.used /\ t.opened = o.opened /\ t.still = o.still /\ t.ran = o.ran
             /\ t.ctype = o.ctype /\ t.defs = o.defs /\ t.hp = o.hp /\ t.bound = o.bound
             /\ t.with = o.with /\ t.exec = o.exec
<1> DEFINE o == x.st[s]
           t == [o EXCEPT !.stype = v]
           y == PutStype(x, s, v)
<1>1. x \in Dbs /\ o \in Stmts /\ (~o.used => o.hp # "live")
  BY SoundStmt
<1>2. /\ t \in Stmts /\ t.stype = v
      /\ t.used = o.used /\ t.opened = o.opened /\ t.still = o.still /\ t.ran = o.ran
             /\ t.ctype = o.ctype /\ t.defs = o.defs /\ t.hp = o.hp /\ t.bound = o.bound
             /\ t.with = o.with /\ t.exec = o.exec
  BY <1>1 DEF Stmts
<1>3. y = Change(x, s, x.status, x.busy, t)
  BY <1>1 DEF Dbs, Stmts, Change, PutStype
<1> HIDE DEF t, y
<1>4. Puts(x, s, y, t)
  BY <1>1, <1>2, <1>3, PutsChange
<1> QED
  BY <1>2, <1>4 DEF Puts, y

LEMMA PutBoundIs ==
  ASSUME NEW x \in Sound, NEW s \in Sths, NEW v \in Args \union {NoArgs}
  PROVE  LET y == PutBound(x, s, v)
             t == y.st[s]
             o == x.st[s]
         IN  /\ Puts(x, s, y, t) /\ t.bound = v
             /\ t.used = o.used /\ t.opened = o.opened /\ t.still = o.still /\ t.ran = o.ran
             /\ t.ctype = o.ctype /\ t.stype = o.stype /\ t.defs = o.defs /\ t.hp = o.hp
             /\ t.with = o.with /\ t.exec = o.exec
<1> DEFINE o == x.st[s]
           t == [o EXCEPT !.bound = v]
           y == PutBound(x, s, v)
<1>1. x \in Dbs /\ o \in Stmts /\ (~o.used => o.hp # "live")
  BY SoundStmt
<1>2. /\ t \in Stmts /\ t.bound = v
      /\ t.used = o.used /\ t.opened = o.opened /\ t.still = o.still /\ t.ran = o.ran
             /\ t.ctype = o.ctype /\ t.stype = o.stype /\ t.defs = o.defs /\ t.hp = o.hp
             /\ t.with = o.with /\ t.exec = o.exec
  BY <1>1 DEF Stmts
<1>3. y = Change(x, s, x.status, x.busy, t)
  BY <1>1 DEF Dbs, Stmts, Change, PutBound
<1> HIDE DEF t, y
<1>4. Puts(x, s, y, t)
  BY <1>1, <1>2, <1>3, PutsChange
<1> QED
  BY <1>2, <1>4 DEF Puts, y

LEMMA PutOpenedIs ==
  ASSUME NEW x \in Sound, NEW s \in Sths, NEW v \in BOOLEAN
  PROVE  LET y == PutOpened(x, s, v)
             t == y.st[s]
             o == x.st[s]
         IN  /\ Puts(x, s, y, t) /\ t.opened = v
             /\ t.used = o.used /\ t.still = o.still /\ t.ran = o.ran /\ t.ctype = o.ctype
             /\ t.stype = o.stype /\ t.defs = o.defs /\ t.hp = o.hp /\ t.bound = o.bound
             /\ t.with = o.with /\ t.exec = o.exec /\ t.prepared = o.prepared
<1> DEFINE o == x.st[s]
           t == [o EXCEPT !.opened = v]
           y == PutOpened(x, s, v)
<1>1. x \in Dbs /\ o \in Stmts /\ (~o.used => o.hp # "live")
  BY SoundStmt
<1>2. /\ t \in Stmts /\ t.opened = v
      /\ t.used = o.used /\ t.still = o.still /\ t.ran = o.ran /\ t.ctype = o.ctype
             /\ t.stype = o.stype /\ t.defs = o.defs /\ t.hp = o.hp /\ t.bound = o.bound
             /\ t.with = o.with /\ t.exec = o.exec /\ t.prepared = o.prepared
  BY <1>1 DEF Stmts
<1>3. y = Change(x, s, x.status, x.busy, t)
  BY <1>1 DEF Dbs, Stmts, Change, PutOpened
<1> HIDE DEF t, y
<1>4. Puts(x, s, y, t)
  BY <1>1, <1>2, <1>3, PutsChange
<1> QED
  BY <1>2, <1>4 DEF Puts, y

LEMMA PutDefsIs ==
  ASSUME NEW x \in Sound, NEW s \in Sths, NEW v \in BOOLEAN
  PROVE  LET y == PutDefs(x, s, v)
             t == y.st[s]
             o == x.st[s]
         IN  /\ Puts(x, s, y, t) /\ t.defs = v
             /\ t.used = o.used /\ t.opened = o.opened /\ t.still = o.still /\ t.ran = o.ran
             /\ t.ctype = o.ctype /\ t.stype = o.stype /\ t.hp = o.hp /\ t.bound = o.bound
             /\ t.with = o.with /\ t.exec = o.exec
<1> DEFINE o == x.st[s]
           t == [o EXCEPT !.defs = v]
           y == PutDefs(x, s, v)
<1>1. x \in Dbs /\ o \in Stmts /\ (~o.used => o.hp # "live")
  BY SoundStmt
<1>2. /\ t \in Stmts /\ t.defs = v
      /\ t.used = o.used /\ t.opened = o.opened /\ t.still = o.still /\ t.ran = o.ran
             /\ t.ctype = o.ctype /\ t.stype = o.stype /\ t.hp = o.hp /\ t.bound = o.bound
             /\ t.with = o.with /\ t.exec = o.exec
  BY <1>1 DEF Stmts
<1>3. y = Change(x, s, x.status, x.busy, t)
  BY <1>1 DEF Dbs, Stmts, Change, PutDefs
<1> HIDE DEF t, y
<1>4. Puts(x, s, y, t)
  BY <1>1, <1>2, <1>3, PutsChange
<1> QED
  BY <1>2, <1>4 DEF Puts, y

LEMMA PutRanIs ==
  ASSUME NEW x \in Sound, NEW s \in Sths, NEW v \in BOOLEAN
  PROVE  LET y == PutRan(x, s, v)
             t == y.st[s]
             o == x.st[s]
         IN  /\ Puts(x, s, y, t) /\ t.ran = v
             /\ t.used = o.used /\ t.opened = o.opened /\ t.still = o.still /\ t.ctype = o.ctype
             /\ t.stype = o.stype /\ t.defs = o.defs /\ t.hp = o.hp /\ t.bound = o.bound
             /\ t.with = o.with /\ t.exec = o.exec
<1> DEFINE o == x.st[s]
           t == [o EXCEPT !.ran = v]
           y == PutRan(x, s, v)
<1>1. x \in Dbs /\ o \in Stmts /\ (~o.used => o.hp # "live")
  BY SoundStmt
<1>2. /\ t \in Stmts /\ t.ran = v
      /\ t.used = o.used /\ t.opened = o.opened /\ t.still = o.still /\ t.ctype = o.ctype
             /\ t.stype = o.stype /\ t.defs = o.defs /\ t.hp = o.hp /\ t.bound = o.bound
             /\ t.with = o.with /\ t.exec = o.exec
  BY <1>1 DEF Stmts
<1>3. y = Change(x, s, x.status, x.busy, t)
  BY <1>1 DEF Dbs, Stmts, Change, PutRan
<1> HIDE DEF t, y
<1>4. Puts(x, s, y, t)
  BY <1>1, <1>2, <1>3, PutsChange
<1> QED
  BY <1>2, <1>4 DEF Puts, y

LEMMA PutStillIs ==
  ASSUME NEW x \in Sound, NEW s \in Sths, NEW v \in BOOLEAN
  PROVE  LET y == PutStill(x, s, v)
             t == y.st[s]
             o == x.st[s]
         IN  /\ Puts(x, s, y, t) /\ t.still = v
             /\ t.used = o.used /\ t.opened = o.opened /\ t.ran = o.ran /\ t.ctype = o.ctype
             /\ t.stype = o.stype /\ t.defs = o.defs /\ t.hp = o.hp /\ t.bound = o.bound
             /\ t.with = o.with /\ t.exec = o.exec /\ t.prepared = o.prepared
<1> DEFINE o == x.st[s]
           t == [o EXCEPT !.still = v]
           y == PutStill(x, s, v)
<1>1. x \in Dbs /\ o \in Stmts /\ (~o.used => o.hp # "live")
  BY SoundStmt
<1>2. /\ t \in Stmts /\ t.still = v
      /\ t.used = o.used /\ t.opened = o.opened /\ t.ran = o.ran /\ t.ctype = o.ctype
             /\ t.stype = o.stype /\ t.defs = o.defs /\ t.hp = o.hp /\ t.bound = o.bound
             /\ t.with = o.with /\ t.exec = o.exec /\ t.prepared = o.prepared
  BY <1>1 DEF Stmts
<1>3. y = Change(x, s, x.status, x.busy, t)
  BY <1>1 DEF Dbs, Stmts, Change, PutStill
<1> HIDE DEF t, y
<1>4. Puts(x, s, y, t)
  BY <1>1, <1>2, <1>3, PutsChange
<1> QED
  BY <1>2, <1>4 DEF Puts, y

-----------------------------------------------------------------------------
(* The steps from the parse to the definition of the columns.              *)

LEMMA PrepareIs ==
  ASSUME NEW x \in Sound, NEW s \in Sths, NEW kind \in AllKinds, NEW r \in Prepare(x, s, kind)
  PROVE  LET o == x.st[s]
             t == r.db.st[s]
         IN  /\ r.ret \in {"ok", "error"} /\ Within(x, s, r.db) /\ r.db \in Sound
             /\ r.db.status = r.ret /\ r.db.busy = x.busy
             /\ Kept(o, t) /\ t.exec = o.exec /\ t.opened = o.opened /\ t.defs = o.defs
             /\ r.ret = "ok" => t.stype = kind
             /\ r.ret = "error" => "prepare" \in Faults \/ "type" \in Faults
<1>1. PICK q \in Oci(x, "prepare") :
        \/ q.ret # "ok" /\ r = q
        \/ q.ret = "ok" /\ r \in Then(Oci(PutPrepared(q.db, s, TRUE), "type"), LAMBDA z :
                                        {Result([z EXCEPT !.st[s].stype = kind], "ok")})
  BY DEF Prepare, Then, PutPrepared
<1>2. /\ q.ret \in {"ok", "error"} /\ (q.ret = "error" => "prepare" \in Faults)
      /\ Within(x, s, q.db) /\ q.db \in Sound
      /\ q.db.st = x.st /\ q.db.busy = x.busy /\ q.db.status = q.ret
  BY OciIs
<1>3. CASE q.ret # "ok"
  BY <1>1, <1>2, <1>3 DEF Kept
<1>4. CASE q.ret = "ok"
  <2> DEFINE y == PutPrepared(q.db, s, TRUE)
  <2>1. /\ y \in Sound /\ Within(q.db, s, y) /\ y.busy = x.busy
        /\ Kept(x.st[s], y.st[s]) /\ y.st[s].exec = x.st[s].exec
        /\ y.st[s].opened = x.st[s].opened /\ y.st[s].defs = x.st[s].defs
    <3>1. /\ Puts(q.db, s, y, y.st[s])
          /\ Kept(q.db.st[s], y.st[s]) /\ y.st[s].exec = q.db.st[s].exec
          /\ y.st[s].opened = q.db.st[s].opened /\ y.st[s].defs = q.db.st[s].defs
      BY <1>2, PutPreparedIs DEF Kept
    <3> QED
      BY <1>2, <3>1 DEF Puts
  <2> HIDE DEF y
  <2>2. PICK p \in Oci(y, "type") :
          \/ p.ret # "ok" /\ r = p
          \/ p.ret = "ok" /\ r = Result(PutStype(p.db, s, kind), "ok")
    BY <1>1, <1>4 DEF Then, PutStype, y
  <2>3. /\ p.ret \in {"ok", "error"} /\ (p.ret = "error" => "type" \in Faults)
        /\ Within(y, s, p.db) /\ p.db \in Sound
        /\ p.db.st = y.st /\ p.db.busy = y.busy /\ p.db.status = p.ret
    BY <2>1, OciIs
  <2>4. Within(x, s, p.db)
    BY <1>2, <2>1, <2>3, WithinWithin
  <2>5. CASE p.ret # "ok"
    BY <2>1, <2>2, <2>3, <2>4, <2>5
  <2>6. CASE p.ret = "ok"
    <3> DEFINE z == PutStype(p.db, s, kind)
    <3>1. /\ z \in Sound /\ Within(p.db, s, z) /\ z.busy = x.busy /\ z.status = "ok"
          /\ Kept(p.db.st[s], z.st[s]) /\ z.st[s].exec = p.db.st[s].exec
          /\ z.st[s].opened = p.db.st[s].opened /\ z.st[s].defs = p.db.st[s].defs
          /\ z.st[s].stype = kind
      BY <2>1, <2>3, <2>6, PutStypeIs DEF Kept, Puts
    <3> HIDE DEF z
    <3>2. r.ret = "ok" /\ r.db = z
      BY <2>2, <2>6 DEF Result, z
    <3>3. Within(x, s, z)
      BY <2>4, <3>1, WithinWithin
    <3> QED
      BY <2>1, <2>3, <3>1, <3>2, <3>3 DEF Kept
  <2> QED
    BY <2>5, <2>6
<1> QED
  BY <1>3, <1>4

LEMMA BindArgvIs ==
  ASSUME NEW x \in Sound, NEW s \in Sths, NEW a \in Args, NEW r \in BindArgv(x, s, a)
  PROVE  LET o == x.st[s]
             t == r.db.st[s]
         IN  /\ r.ret \in {"ok", "error"} /\ Within(x, s, r.db) /\ r.db \in Sound
             /\ r.db.status = r.ret /\ r.db.busy = x.busy
             /\ Kept(o, t) /\ t.exec = o.exec /\ t.opened = o.opened /\ t.defs = o.defs
             /\ t.stype = o.stype /\ t.with = o.with
             /\ r.ret = "ok" => t.bound = a
             /\ r.ret = "error" => "bind" \in Faults
<1>1. PICK q \in Oci(x, "bind") :
        \/ q.ret # "ok" /\ r = q
        \/ q.ret = "ok" /\ r = Result(PutBound(q.db, s, a), "ok")
  BY DEF BindArgv, Then, PutBound
<1>2. /\ q.ret \in {"ok", "error"} /\ (q.ret = "error" => "bind" \in Faults)
      /\ Within(x, s, q.db) /\ q.db \in Sound
      /\ q.db.st = x.st /\ q.db.busy = x.busy /\ q.db.status = q.ret
  BY OciIs
<1>3. CASE q.ret # "ok"
  BY <1>1, <1>2, <1>3 DEF Kept
<1>4. CASE q.ret = "ok"
  <2> DEFINE y == PutBound(q.db, s, a)
  <2>1. /\ y \in Sound /\ Within(q.db, s, y) /\ y.busy = x.busy /\ y.status = "ok"
        /\ Kept(x.st[s], y.st[s]) /\ y.st[s].exec = x.st[s].exec
        /\ y.st[s].opened = x.st[s].opened /\ y.st[s].defs = x.st[s].defs
        /\ y.st[s].stype = x.st[s].stype /\ y.st[s].with = x.st[s].with
        /\ y.st[s].bound = a
    BY <1>2, <1>4, PutBoundIs DEF Kept, Puts
  <2> HIDE DEF y
  <2>2. r.ret = "ok" /\ r.db = y
    BY <1>1, <1>4 DEF Result, y
  <2>3. Within(x, s, y)
    BY <1>2, <2>1, WithinWithin
  <2> QED
    BY <2>1, <2>2, <2>3
<1> QED
  BY <1>3, <1>4

LEMMA DefineColumnsIs ==
  ASSUME NEW x \in Sound, NEW s \in Sths, NEW r \in DefineColumns(x, s)
  PROVE  LET o == x.st[s]
             t == r.db.st[s]
         IN  /\ r.ret \in {"ok", "error"} /\ Within(x, s, r.db) /\ r.db \in Sound
             /\ r.db.status = r.ret /\ r.db.busy = x.busy
             /\ Kept(o, t) /\ t.exec = o.exec /\ t.stype = o.stype /\ t.with = o.with
             /\ t.opened <=> o.opened \/ o.ctype = "ref"
             /\ r.ret = "ok" => t.defs
             /\ r.ret = "error" => "define" \in Faults
<1> DEFINE y == IF x.st[s].ctype = "ref" THEN PutOpened(x, s, TRUE) ELSE x
<1>1. /\ y \in Sound /\ Within(x, s, y) /\ y.busy = x.busy
      /\ Kept(x.st[s], y.st[s]) /\ y.st[s].exec = x.st[s].exec
      /\ y.st[s].stype = x.st[s].stype /\ y.st[s].with = x.st[s].with
      /\ y.st[s].opened <=> x.st[s].opened \/ x.st[s].ctype = "ref"
  <2>1. CASE x.st[s].ctype = "ref"
    BY <2>1, PutOpenedIs DEF Kept, Puts
  <2>2. CASE x.st[s].ctype # "ref"
    BY <2>2 DEF Kept, Within, SameConn
  <2> QED
    BY <2>1, <2>2
<1>2. \E d \in BOOLEAN, a \in {"ok", "error"} :
        /\ r = Sets(PutDefs(y, s, d), a)
        /\ a = "ok" => d
        /\ a = "error" => "define" \in Faults
  BY DEF DefineColumns, PutDefs, PutOpened
<1> HIDE DEF y
<1>3. PICK d \in BOOLEAN, a \in {"ok", "error"} :
        /\ r = Sets(PutDefs(y, s, d), a)
        /\ a = "ok" => d
        /\ a = "error" => "define" \in Faults
  BY <1>2
<1> DEFINE z == PutDefs(y, s, d)
<1>4. /\ z \in Sound /\ Within(y, s, z) /\ z.busy = y.busy
      /\ Kept(y.st[s], z.st[s]) /\ z.st[s].exec = y.st[s].exec
      /\ z.st[s].stype = y.st[s].stype /\ z.st[s].defs = d
      /\ z.st[s].with = y.st[s].with /\ z.st[s].opened = y.st[s].opened
  BY <1>1, PutDefsIs DEF Kept, Puts
<1> HIDE DEF z
<1>5. a \in Rets
  BY DEF Rets
<1>6. /\ r.ret = a /\ Within(z, s, r.db) /\ r.db \in Sound
      /\ r.db.st = z.st /\ r.db.busy = z.busy /\ r.db.status = a
  BY <1>3, <1>4, <1>5, SetsIs DEF z
<1>7. Within(x, s, r.db)
  BY <1>1, <1>4, <1>6, WithinWithin
<1> QED
  BY <1>1, <1>3, <1>4, <1>6, <1>7 DEF Kept

\* What the definition of the columns leaves of the statement o that is then t:
\* one that was not described has run, with the values w.
Described(o, t, ret, w) ==
  /\ o.defs \/ o.ran \/ o.ctype = "ref" => t.exec = o.exec /\ t.with = o.with /\ t.ran = o.ran
  /\ ~(o.defs \/ o.ran \/ o.ctype = "ref") =>
       t.with = w /\ (ret = "ok" => t.exec /\ t.ran)
  /\ t.opened => o.opened \/ o.ctype = "ref"

\* Without the first execution the call that goes on is the one that went on.
LEMMA DefineOutputIs ==
  ASSUME NEW x \in Sound, NEW s \in Sths, NEW r \in DefineOutput(x, s)
  PROVE  LET o == x.st[s]
             t == r.db.st[s]
         IN  /\ r.ret \in Rets /\ Within(x, s, r.db) /\ r.db \in Sound
             /\ r.db.status = r.ret
             /\ t.used = o.used /\ t.still = o.still /\ t.hp = o.hp
             /\ t.ctype = o.ctype /\ t.stype = o.stype
             /\ r.ret = "ok" => t.defs
             /\ r.ret = "error" => o.hp # "live" \/ "execute" \in Faults \/ "define" \in Faults
             /\ r.ret = "nodata" => "nodata" \in Faults /\ o.stype # "query"
             /\ r.ret = "busy" => /\ x.nb /\ r.db.busy = s /\ o.hp = "live" /\ o.ctype # "ref"
                                  /\ ~o.defs /\ ~o.ran /\ ~t.defs /\ ~t.ran
             /\ r.ret # "busy" => \/ r.db.busy = NoSth
                                  \/ r.db.busy = x.busy /\ (o.defs \/ o.ran \/ o.ctype = "ref")
             /\ o.defs => r.ret = "ok" /\ r.db.st = x.st /\ r.db.busy = x.busy
             /\ Described(o, t, r.ret, With(x, s))
<1>1. CASE x.st[s].defs
  <2>1. r = Sets(x, "ok") /\ "ok" \in Rets
    BY <1>1 DEF DefineOutput, Rets
  <2>2. /\ r.ret = "ok" /\ Within(x, s, r.db) /\ r.db \in Sound
        /\ r.db.st = x.st /\ r.db.busy = x.busy /\ r.db.status = "ok"
    BY <2>1, SetsIs
  <2> QED
    BY <1>1, <2>1, <2>2 DEF Described
<1>2. CASE ~x.st[s].defs /\ (x.st[s].ran \/ x.st[s].ctype = "ref")
  <2>1. r \in DefineColumns(x, s)
    BY <1>2 DEF DefineOutput
  <2>2. /\ r.ret \in {"ok", "error"} /\ Within(x, s, r.db) /\ r.db \in Sound
        /\ r.db.status = r.ret /\ r.db.busy = x.busy
        /\ Kept(x.st[s], r.db.st[s]) /\ r.db.st[s].stype = x.st[s].stype
        /\ r.ret = "ok" => r.db.st[s].defs
        /\ r.ret = "error" => "define" \in Faults
    BY <2>1, DefineColumnsIs
  <2>3. Described(x.st[s], r.db.st[s], r.ret, With(x, s))
    BY <1>2, <2>1, DefineColumnsIs DEF Described, Kept
  <2> QED
    BY <1>2, <2>2, <2>3 DEF Kept, Rets
<1>3. CASE ~x.st[s].defs /\ ~(x.st[s].ran \/ x.st[s].ctype = "ref")
  <2>1. PICK q \in ExecCall(x, s) :
          \/ q.ret # "ok" /\ r = q
          \/ q.ret = "ok" /\ r \in DefineColumns(PutRan(q.db, s, TRUE), s)
    BY <1>3 DEF DefineOutput, Then, PutRan
  <2>2. /\ q.ret \in Rets /\ Within(x, s, q.db) /\ q.db \in Sound
        /\ q.db.status = q.ret
        /\ q.db.busy = IF q.ret = "busy" THEN s ELSE NoSth
        /\ q.ret = "error" => x.st[s].hp # "live" \/ "execute" \in Faults
        /\ q.ret # "error" => x.st[s].hp = "live"
        /\ q.ret = "nodata" => "nodata" \in Faults /\ x.st[s].stype # "query"
        /\ q.ret = "busy" => x.nb
    BY ExecCallIs
  <2>3. LET t == q.db.st[s]
            o == x.st[s]
        IN  /\ Kept(o, t) /\ t.stype = o.stype /\ t.defs = o.defs /\ t.opened = o.opened
            /\ t.with = With(x, s) /\ (q.ret = "ok" => t.exec)
    BY ExecCallIs
  <2>4. CASE q.ret # "ok"
    <3>1. Described(x.st[s], r.db.st[s], r.ret, With(x, s))
      BY <1>3, <2>1, <2>3, <2>4 DEF Described
    <3> QED
      BY <1>3, <2>1, <2>2, <2>3, <2>4, <3>1 DEF Kept
  <2>5. CASE q.ret = "ok"
    <3> DEFINE y == PutRan(q.db, s, TRUE)
    <3>1. LET t == y.st[s]
              o == q.db.st[s]
          IN  /\ Puts(q.db, s, y, t)
              /\ t.used = o.used /\ t.still = o.still /\ t.hp = o.hp
              /\ t.ctype = o.ctype /\ t.stype = o.stype
              /\ t.exec = o.exec /\ t.with = o.with /\ t.ran /\ t.opened = o.opened
      BY <2>2, PutRanIs
    <3> HIDE DEF y
    <3>2. y \in Sound /\ Within(q.db, s, y) /\ y.busy = NoSth
      BY <2>2, <2>5, <3>1 DEF Puts
    <3>3. r \in DefineColumns(y, s)
      BY <2>1, <2>5 DEF y
    <3>4. /\ r.ret \in {"ok", "error"} /\ Within(y, s, r.db) /\ r.db \in Sound
          /\ r.db.status = r.ret /\ r.db.busy = y.busy
          /\ Kept(y.st[s], r.db.st[s]) /\ r.db.st[s].stype = y.st[s].stype
          /\ r.ret = "ok" => r.db.st[s].defs
          /\ r.ret = "error" => "define" \in Faults
      BY <3>2, <3>3, DefineColumnsIs
    <3>5. Within(x, s, r.db)
      BY <2>2, <3>2, <3>4, WithinWithin
    <3>6. LET t == r.db.st[s]
              o == y.st[s]
          IN  /\ t.exec = o.exec /\ t.with = o.with /\ t.ran = o.ran
              /\ t.opened => o.opened \/ o.ctype = "ref"
      BY <3>2, <3>3, DefineColumnsIs DEF Kept
    <3>7. Described(x.st[s], r.db.st[s], r.ret, With(x, s))
      BY <1>3, <2>3, <2>5, <3>1, <3>6 DEF Described, Kept
    <3> QED
      BY <1>3, <2>3, <3>1, <3>2, <3>4, <3>5, <3>7 DEF Kept, Rets
  <2> QED
    BY <2>4, <2>5
<1> QED
  BY <1>1, <1>2, <1>3

-----------------------------------------------------------------------------
(* _sqlo_reopen.                                                           *)

LEMMA RebindIs ==
  ASSUME NEW x \in Sound, NEW s \in Sths, NEW a \in Args \union {NoArgs},
         NEW r \in Rebind(x, s, a)
  PROVE  LET o == x.st[s]
             t == r.db.st[s]
         IN  /\ r.ret \in {"ok", "error"} /\ Within(x, s, r.db) /\ r.db \in Sound
             /\ r.db.busy = x.busy
             /\ Kept(o, t) /\ t.exec = o.exec /\ t.opened = o.opened /\ t.defs = o.defs
             /\ t.stype = o.stype /\ t.with = o.with
             /\ r.ret = "ok" => t.bound = IF a = NoArgs \/ o.still THEN o.bound ELSE a
             /\ r.ret = "error" => "bind" \in Faults
             /\ r.db.status = IF a = NoArgs \/ o.still THEN x.status ELSE r.ret
<1>1. CASE a = NoArgs \/ x.st[s].still
  <2>1. r.ret = "ok" /\ r.db = x
    BY <1>1 DEF Rebind, Result
  <2>2. Within(x, s, x)
    BY DEF Within, SameConn
  <2> QED
    BY <1>1, <2>1, <2>2 DEF Kept
<1>2. CASE ~(a = NoArgs \/ x.st[s].still)
  <2>1. a \in Args /\ r \in BindArgv(x, s, a)
    BY <1>2 DEF Rebind
  <2> QED
    BY <1>2, <2>1, BindArgvIs
<1> QED
  BY <1>1, <1>2

LEMMA OpensIs ==
  ASSUME NEW q, q.db \in Sound, NEW s \in Sths
  PROVE  LET r == Opens(q, s)
             o == q.db.st[s]
             t == r.db.st[s]
         IN  /\ r.ret = q.ret /\ Within(q.db, s, r.db) /\ r.db \in Sound
             /\ r.db.status = q.db.status /\ r.db.busy = q.db.busy
             /\ Kept(o, t) /\ t.exec = o.exec /\ t.defs = o.defs
             /\ t.stype = o.stype /\ t.with = o.with
             /\ t.opened <=> q.ret = "ok"
<1> DEFINE v == q.ret = "ok"
           y == PutOpened(q.db, s, v)
<1>1. Opens(q, s).ret = q.ret /\ Opens(q, s).db = y
  BY DEF Opens, Result, PutOpened
<1>2. v \in BOOLEAN
  OBVIOUS
<1> HIDE DEF v
<1>3. LET t == y.st[s]
          o == q.db.st[s]
      IN  /\ Puts(q.db, s, y, t) /\ t.opened = v
          /\ Kept(o, t) /\ t.exec = o.exec /\ t.defs = o.defs /\ t.stype = o.stype
          /\ t.with = o.with
  BY <1>2, PutOpenedIs DEF Kept
<1> HIDE DEF y
<1> QED
  BY <1>1, <1>3 DEF Puts, v

\* What is left of the statement in slot s when sqlo_reopen has returned ret.
\* A statement that failed is closed; its slot is free if OCI could free the
\* handle, or if it was closed twice.
Reopened(x, s, y, ret) ==
  LET o == x.st[s]
      t == y.st[s]
  IN  /\ ret = "ok" => t.used /\ ~t.still /\ t.stype = "query"
                       /\ (y.busy = NoSth \/ (y.busy = x.busy /\ ~o.ran /\ (o.defs \/ o.ctype = "ref")))
      /\ ret = "busy" => t.used /\ t.still /\ ~t.opened /\ t.stype = "query"
                         /\ y.busy = s /\ x.nb /\ t.hp = "live" /\ t.ctype = o.ctype
                         /\ (t.ran \/ ~t.defs)
      /\ ret = "error" => /\ y.busy = NoSth \/ (y.busy = x.busy /\ y.busy # s)
                          /\ "free" \notin Faults \/ o.ran => ~t.used
                          /\ ~t.used => ~t.still
                          /\ o.hp # "live" \/ "execute" \in Faults \/ "define" \in Faults

\* And what of the statement o, then t, it has executed: one that was executed
\* before, or that has no columns defined, has run with the values w.
RanWith(o, t, ret, w) ==
  /\ ret = "ok" => /\ t.opened /\ t.ran
                   /\ o.ran \/ (~o.defs /\ o.ctype # "ref") => t.exec /\ t.with = w
  /\ ret = "busy" => t.with = w
  /\ ret = "error" => ~t.defs /\ (t.still => o.still)
  /\ ret # "error" => t.hp = o.hp /\ t.ctype = o.ctype

LEMMA OpenQueryIs ==
  ASSUME NEW x \in Sound, NEW s \in Sths, NEW r \in OpenQuery(x, s),
         x.st[s].stype = "query"
  PROVE  /\ r.ret \in {"ok", "error", "busy"} /\ Within(x, s, r.db) /\ r.db \in Sound
         /\ r.db.status = r.ret
         /\ x.st[s].used => /\ Reopened(x, s, r.db, r.ret)
                            /\ RanWith(x.st[s], r.db.st[s], r.ret, With(x, s))
<1> DEFINE o == x.st[s]
           v == With(x, s)
<1>0. PICK q \in IF x.st[s].ran THEN ExecCall(x, s) ELSE DefineOutput(x, s) :
        r \in OpenQueryEnd(x, s, q)
  BY DEF OpenQuery
<1>1. /\ q.ret = "busy" => r = Opens(Result(PutStill(q.db, s, TRUE), "busy"), s)
      /\ q.ret = "error" /\ ~x.st[s].ran =>
           \E c \in Close(q.db, s) : r = Sets(c.db, "error")
      /\ q.ret = "error" /\ x.st[s].ran =>
           \E p \in Close(q.db, s) : \E c \in Close(p.db, s) : r = Opens(Sets(c.db, "error"), s)
      /\ q.ret = "ok" =>
           LET y == PutStill(q.db, s, FALSE)
           IN  \/ y.st[s].ran /\ r = Opens(Result(y, "ok"), s)
               \/ ~y.st[s].ran /\ \E p \in DefineOutput(PutRan(y, s, TRUE), s) : r = Opens(p, s)
  <2>1. CASE q.ret = "busy"
    BY <2>1, <1>0 DEF OpenQueryEnd, PutStill
  <2>2. CASE q.ret = "error" /\ ~x.st[s].ran
    BY <2>2, <1>0 DEF OpenQueryEnd
  <2>3. CASE q.ret = "error" /\ x.st[s].ran
    BY <2>3, <1>0 DEF OpenQueryEnd
  <2>4. CASE q.ret = "ok"
    BY <2>4, <1>0 DEF OpenQueryEnd, PutStill, PutRan
  <2> QED
    BY <2>1, <2>2, <2>3, <2>4
<1>2. /\ q.ret \in {"ok", "error", "busy"} /\ Within(x, s, q.db) /\ q.db \in Sound
      /\ q.db.status = q.ret
      /\ q.db.st[s].used = o.used /\ q.db.st[s].still = o.still /\ q.db.st[s].hp = o.hp
      /\ q.db.st[s].ctype = o.ctype /\ q.db.st[s].stype = "query"
      /\ o.ran => q.db.st[s].ran
      /\ q.ret = "ok" => q.db.st[s].ran \/ q.db.st[s].defs
      /\ q.ret = "error" => o.hp # "live" \/ "execute" \in Faults \/ "define" \in Faults
      /\ q.ret = "busy" => /\ x.nb /\ q.db.busy = s /\ o.hp = "live"
                           /\ q.db.st[s].ran \/ ~q.db.st[s].defs
      /\ q.ret # "busy" => \/ q.db.busy = NoSth
                           \/ q.db.busy = x.busy /\ ~o.ran /\ (o.defs \/ o.ctype = "ref")
  <2>1. CASE x.st[s].ran
    <3>1. q \in ExecCall(x, s)
      BY <2>1, <1>0
    <3> QED
      BY <2>1, <3>1, ExecCallIs DEF Kept, Rets
  <2>2. CASE ~x.st[s].ran
    <3>1. q \in DefineOutput(x, s)
      BY <2>2, <1>0
    <3> QED
      BY <2>2, <3>1, DefineOutputIs DEF Rets
  <2> QED
    BY <2>1, <2>2
<1>8. LET t == q.db.st[s]
      IN  /\ o.ran \/ (~o.defs /\ o.ctype # "ref") =>
               t.with = v /\ (q.ret = "ok" => t.exec /\ t.ran)
          /\ q.ret = "busy" => t.with = v
  <2>1. CASE x.st[s].ran
    <3>1. q \in ExecCall(x, s)
      BY <2>1, <1>0
    <3> QED
      BY <2>1, <3>1, ExecCallIs DEF Kept
  <2>2. CASE ~x.st[s].ran
    <3>1. q \in DefineOutput(x, s)
      BY <2>2, <1>0
    <3> QED
      BY <2>2, <3>1, DefineOutputIs DEF Described
  <2> QED
    BY <2>1, <2>2
<1> HIDE DEF v
<1>3. s # NoSth
  BY CursorAssumption DEF Sths, NoSth
<1>4. CASE q.ret = "busy"
  <2> DEFINE y == PutStill(q.db, s, TRUE)
             p == Result(y, "busy")
  <2>1. LET t == y.st[s]
            u == q.db.st[s]
        IN  /\ Puts(q.db, s, y, t) /\ t.still /\ t.ctype = u.ctype
            /\ t.used = u.used /\ t.hp = u.hp /\ t.ran = u.ran
            /\ t.defs = u.defs /\ t.stype = u.stype /\ t.with = u.with
    BY <1>2, PutStillIs
  <2>2. y \in Sound /\ Within(q.db, s, y) /\ y.busy = s /\ y.status = "busy"
    BY <1>2, <1>4, <2>1 DEF Puts
  <2> HIDE DEF y
  <2>3. p.db = y /\ p.ret = "busy"
    BY DEF Result
  <2>4. r = Opens(p, s)
    BY <1>1, <1>4 DEF y
  <2> HIDE DEF p
  <2>5. LET u == y.st[s]
            t == r.db.st[s]
        IN  /\ r.ret = "busy" /\ Within(y, s, r.db) /\ r.db \in Sound
            /\ r.db.status = "busy" /\ r.db.busy = s
            /\ Kept(u, t) /\ t.defs = u.defs /\ t.stype = u.stype /\ ~t.opened
            /\ t.with = u.with
    BY <2>2, <2>3, <2>4, OpensIs
  <2>6. Within(x, s, r.db)
    BY <1>2, <2>2, <2>5, WithinWithin
  <2>7. RanWith(o, r.db.st[s], r.ret, v)
    BY <1>2, <1>4, <1>8, <2>1, <2>5 DEF Kept, RanWith
  <2> QED
    BY <1>2, <1>4, <2>1, <2>5, <2>6, <2>7 DEF Kept, Reopened, v
<1>5. CASE q.ret = "error" /\ ~x.st[s].ran
  <2>1. PICK c \in Close(q.db, s) : r = Sets(c.db, "error")
    BY <1>1, <1>5
  <2>2. /\ Within(q.db, s, c.db) /\ c.db \in Sound
        /\ o.used => c.db.busy = IF q.db.busy = s THEN NoSth ELSE q.db.busy
        /\ c.ret \in {"ok", "error"}
        /\ c.ret = "ok" => ~c.db.st[s].used /\ ~c.db.st[s].still
        /\ o.used /\ c.ret = "error" => "free" \in Faults /\ c.db.st[s] = Unfreed(q.db.st[s])
        /\ o.used => ~c.db.st[s].defs
    BY <1>2, CloseIs
  <2>3. o.used /\ c.ret = "error" => c.db.st[s].used
    <3> SUFFICES ASSUME o.used, c.ret = "error"
                 PROVE  c.db.st[s].used
      OBVIOUS
    <3>1. q.db.st[s].used /\ q.db.st[s] \in Stmts
      BY <1>2, SoundStmt
    <3> QED
      BY <2>2, <3>1, UnfreedIs
  <2>4. /\ r.ret = "error" /\ Within(c.db, s, r.db) /\ r.db \in Sound
        /\ r.db.st = c.db.st /\ r.db.busy = c.db.busy /\ r.db.status = "error"
    BY <2>1, <2>2, SetsIs DEF Rets
  <2>5. Within(x, s, r.db)
    BY <1>2, <2>2, <2>4, WithinWithin
  <2>6. o.used => r.db.busy = NoSth \/ (r.db.busy = x.busy /\ r.db.busy # s)
    BY <1>2, <1>3, <1>5, <2>2, <2>4
  <2>7. o.used => RanWith(o, r.db.st[s], r.ret, v)
    <3>1. q.db.st[s] \in Stmts
      BY <1>2, SoundStmt
    <3>2. o.used /\ c.db.st[s].still => o.still
      BY <1>2, <2>2, <3>1, UnfreedIs
    <3> QED
      BY <2>2, <2>4, <3>2 DEF RanWith
  <2> QED
    BY <1>2, <1>5, <2>2, <2>3, <2>4, <2>5, <2>6, <2>7 DEF Reopened, v
<1>6. CASE q.ret = "error" /\ x.st[s].ran
  <2>1. PICK p \in Close(q.db, s) :
          \E c \in Close(p.db, s) : r = Opens(Sets(c.db, "error"), s)
    BY <1>1, <1>6
  <2>2. PICK c \in Close(p.db, s) : r = Opens(Sets(c.db, "error"), s)
    BY <2>1
  <2> DEFINE z == Sets(c.db, c.ret)
             e == Sets(c.db, "error")
  <2>3. z \in CloseTwice(q.db, s)
    BY DEF CloseTwice
  <2>4. /\ c.ret \in {"ok", "error"} /\ c.db \in Sound /\ Within(q.db, s, c.db)
    <3>1. p.db \in Sound /\ Within(q.db, s, p.db)
      BY <1>2, CloseIs
    <3>2. c.ret \in {"ok", "error"} /\ c.db \in Sound /\ Within(p.db, s, c.db)
      BY <3>1, CloseIs
    <3> QED
      BY <3>1, <3>2, WithinWithin
  <2>5. o.used => /\ z.db.busy = IF q.db.busy = s THEN NoSth ELSE q.db.busy
                  /\ ~z.db.st[s].used /\ ~z.db.st[s].still /\ ~z.db.st[s].defs
    <3> SUFFICES ASSUME o.used
                 PROVE  /\ z.db.busy = IF q.db.busy = s THEN NoSth ELSE q.db.busy
                        /\ ~z.db.st[s].used /\ ~z.db.st[s].still /\ ~z.db.st[s].defs
      OBVIOUS
    <3> HIDE DEF z
    <3>1. q.db.st[s].used /\ q.db \in Sound
      BY <1>2
    <3> QED
      BY <2>3, <3>1, CloseTwiceIs
  <2>6. z.db.st = c.db.st /\ z.db.busy = c.db.busy
    BY <2>4, SetsIs DEF Rets
  <2>7. e.ret = "error" /\ e.db \in Sound /\ Within(c.db, s, e.db)
        /\ e.db.st = c.db.st /\ e.db.busy = c.db.busy /\ e.db.status = "error"
    BY <2>4, SetsIs DEF Rets
  <2> HIDE DEF e, z
  <2>9. /\ r.ret = "error" /\ Within(e.db, s, r.db) /\ r.db \in Sound
        /\ r.db.status = "error" /\ r.db.busy = e.db.busy
        /\ Kept(e.db.st[s], r.db.st[s]) /\ r.db.st[s].defs = e.db.st[s].defs
    BY <2>2, <2>7, OpensIs DEF e
  <2>10. Within(x, s, r.db)
    BY <1>2, <2>4, <2>7, <2>9, WithinWithin
  <2>11. o.used => RanWith(o, r.db.st[s], r.ret, v)
    BY <2>5, <2>6, <2>7, <2>9 DEF RanWith, Kept
  <2> QED
    BY <1>2, <1>3, <1>6, <2>5, <2>6, <2>7, <2>9, <2>10, <2>11 DEF Kept, Reopened, v
<1>7. CASE q.ret = "ok"
  <2> DEFINE y == PutStill(q.db, s, FALSE)
  <2>1. LET t == y.st[s]
            u == q.db.st[s]
        IN  /\ Puts(q.db, s, y, t) /\ ~t.still
            /\ t.used = u.used /\ t.hp = u.hp /\ t.ran = u.ran
            /\ t.defs = u.defs /\ t.stype = u.stype /\ t.ctype = u.ctype
            /\ t.exec = u.exec /\ t.with = u.with
    BY <1>2, PutStillIs, ZenonT(30)
  <2>2. y \in Sound /\ Within(q.db, s, y) /\ y.busy = q.db.busy /\ y.status = "ok"
    BY <1>2, <1>7, <2>1 DEF Puts
  <2>3. Within(x, s, y)
    BY <1>2, <2>2, WithinWithin
  <2>4. PICK p : /\ r = Opens(p, s) /\ p.ret = "ok" /\ p.db \in Sound /\ Within(y, s, p.db)
                 /\ p.db.busy = y.busy /\ p.db.status = "ok"
                 /\ p.db.st[s].used = y.st[s].used /\ p.db.st[s].still = y.st[s].still
                 /\ p.db.st[s].stype = y.st[s].stype
                 /\ p.db.st[s].exec = y.st[s].exec /\ p.db.st[s].with = y.st[s].with
                 /\ p.db.st[s].hp = y.st[s].hp /\ p.db.st[s].ran
                 /\ p.db.st[s].ctype = y.st[s].ctype
    <3>1. CASE y.st[s].ran
      <4> DEFINE p == Result(y, "ok")
      <4>1. p.ret = "ok" /\ p.db = y
        BY DEF Result
      <4>2. r = Opens(p, s)
        BY <1>1, <1>7, <3>1
      <4> HIDE DEF p, y
      <4>3. Within(y, s, y)
        BY <2>2 DEF Within, SameConn
      <4> QED
        BY <2>2, <3>1, <4>1, <4>2, <4>3
    <3>2. CASE ~y.st[s].ran
      <4> DEFINE w == PutRan(y, s, TRUE)
      <4>1. PICK p \in DefineOutput(w, s) : r = Opens(p, s)
        BY <1>1, <1>7, <3>2
      <4> HIDE DEF y
      <4>2. LET t == w.st[s]
                u == y.st[s]
            IN  /\ Puts(y, s, w, t) /\ t.ran /\ t.defs = u.defs
                /\ t.used = u.used /\ t.still = u.still /\ t.stype = u.stype
                /\ t.exec = u.exec /\ t.with = u.with /\ t.hp = u.hp
                /\ t.ctype = u.ctype
        BY <2>2, PutRanIs
      <4>3. w \in Sound /\ Within(y, s, w) /\ w.busy = y.busy
        BY <4>2 DEF Puts
      <4>4. w.st[s].defs
        BY <1>2, <1>7, <2>1, <3>2, <4>2
      <4> HIDE DEF w
      <4>5. /\ p.ret = "ok" /\ p.db.st = w.st /\ p.db.busy = w.busy /\ p.db.status = "ok"
            /\ Within(w, s, p.db) /\ p.db \in Sound
        BY <4>1, <4>3, <4>4, DefineOutputIs
      <4>6. Within(y, s, p.db)
        BY <4>3, <4>5, WithinWithin
      <4> QED
        BY <4>1, <4>2, <4>3, <4>5, <4>6
    <3> QED
      BY <3>1, <3>2
  <2> HIDE DEF y
  <2>5. LET u == p.db.st[s]
            t == r.db.st[s]
        IN  /\ r.ret = "ok" /\ Within(p.db, s, r.db) /\ r.db \in Sound
            /\ r.db.status = "ok" /\ r.db.busy = p.db.busy
            /\ Kept(u, t) /\ t.stype = u.stype
            /\ t.exec = u.exec /\ t.with = u.with /\ t.opened
    BY <2>4, OpensIs
  <2>6. Within(x, s, r.db)
    BY <2>3, <2>4, <2>5, WithinWithin
  <2> QED
    <3>1. y.st[s].used = o.used /\ ~y.st[s].still /\ y.st[s].stype = "query"
      BY <1>2, <2>1
    <3>2. r.db.st[s].used = o.used /\ ~r.db.st[s].still /\ r.db.st[s].stype = "query"
      BY <2>4, <2>5, <3>1 DEF Kept
    <3>3. \/ r.db.busy = NoSth
          \/ r.db.busy = x.busy /\ ~x.st[s].ran /\ (x.st[s].defs \/ x.st[s].ctype = "ref")
      BY <1>2, <1>7, <2>2, <2>4, <2>5
    <3>4. r.ret = "ok" /\ r.db.status = "ok" /\ r.db \in Sound
      BY <2>5
    <3>5. o.used => Reopened(x, s, r.db, r.ret)
      BY <3>2, <3>3, <3>4 DEF Reopened
    <3>6. RanWith(o, r.db.st[s], r.ret, v)
      BY <1>2, <1>7, <1>8, <2>1, <2>4, <2>5 DEF RanWith, Kept
    <3> QED
      BY <2>6, <3>4, <3>5, <3>6 DEF v
<1> QED
  BY <1>2, <1>4, <1>5, <1>6, <1>7

\* The values with which the statement in slot s runs when it is reopened.
Given(x, s, a) ==
  IF x.busy = s THEN x.st[s].with
  ELSE IF a = NoArgs \/ x.st[s].still THEN x.st[s].bound ELSE a

\* If no bind fails, a query is opened, and of another statement only the flag
\* opened changes.
ReopenedAs(x, s, a, y, ret) ==
  LET o == x.st[s]
      t == y.st[s]
  IN  /\ o.stype = "query" => /\ ret # "nodata" /\ Reopened(x, s, y, ret)
                              /\ RanWith(o, t, ret, Given(x, s, a))
      /\ o.stype # "query" => /\ t.used = o.used /\ t.still = o.still /\ t.hp = o.hp
                              /\ t.ran = o.ran /\ t.defs = o.defs /\ t.exec = o.exec
                              /\ t.stype = o.stype /\ t.ctype = o.ctype
                              /\ y.busy = x.busy
                              /\ ret = IF a = NoArgs \/ o.still THEN x.status ELSE "ok"

LEMMA ReopenIs ==
  ASSUME NEW x \in Sound, NEW s \in Sths, NEW a \in Args \union {NoArgs},
         NEW r \in Reopen(x, s, a)
  PROVE  /\ r.ret \in Rets /\ Within(x, s, r.db) /\ r.db \in Sound /\ r.db.status = r.ret
         /\ "bind" \notin Faults /\ x.st[s].used => ReopenedAs(x, s, a, r.db, r.ret)
<1> DEFINE o == x.st[s]
<1>1. PICK b \in Rebind(x, s, a) :
        r \in IF b.ret # "ok" THEN {Result(c.db, c.db.status) : c \in Close(b.db, s)}
              ELSE IF b.db.st[s].stype = "query" THEN OpenQuery(b.db, s)
              ELSE {Opens(Result(b.db, b.db.status), s)}
  BY DEF Reopen
<1>2. LET t == b.db.st[s]
      IN  /\ b.ret \in {"ok", "error"} /\ Within(x, s, b.db) /\ b.db \in Sound
          /\ b.db.busy = x.busy
          /\ Kept(o, t) /\ t.defs = o.defs /\ t.stype = o.stype /\ t.exec = o.exec
          /\ b.ret = "error" => "bind" \in Faults
          /\ b.ret = "ok" => With(b.db, s) = Given(x, s, a)
          /\ b.db.status = IF a = NoArgs \/ o.still THEN x.status ELSE b.ret
  BY RebindIs DEF With, Given
<1>3. CASE b.ret # "ok"
  <2>1. PICK c \in Close(b.db, s) : r = Result(c.db, c.db.status)
    BY <1>1, <1>3
  <2>2. /\ Within(b.db, s, c.db) /\ c.db \in Sound
    BY <1>2, CloseIs
  <2>3. r.db = c.db /\ r.ret = c.db.status
    BY <2>1 DEF Result
  <2>4. c.db.status \in Rets
    BY <2>2 DEF Sound, Dbs
  <2> QED
    BY <1>2, <1>3, <2>2, <2>3, <2>4, WithinWithin
<1>4. CASE b.ret = "ok" /\ o.stype = "query"
  <2>1. b.db.st[s].used = o.used /\ b.db.st[s].stype = "query" /\ b.db.nb = x.nb
    BY <1>2, <1>4 DEF Kept, Within, SameConn
  <2>2. r \in OpenQuery(b.db, s)
    BY <1>1, <1>4, <2>1
  <2>3. /\ r.ret \in {"ok", "error", "busy"} /\ Within(b.db, s, r.db) /\ r.db \in Sound
        /\ r.db.status = r.ret
        /\ o.used => /\ Reopened(b.db, s, r.db, r.ret)
                     /\ RanWith(b.db.st[s], r.db.st[s], r.ret, With(b.db, s))
    BY <1>2, <2>1, <2>2, OpenQueryIs
  <2>4. Within(x, s, r.db)
    BY <1>2, <2>3, WithinWithin
  <2>5. o.used => Reopened(x, s, r.db, r.ret)
    BY <1>2, <2>1, <2>3 DEF Reopened, Kept
  <2>6. o.used => RanWith(o, r.db.st[s], r.ret, Given(x, s, a))
    BY <1>2, <1>4, <2>3 DEF RanWith, Kept
  <2> QED
    BY <1>4, <2>3, <2>4, <2>5, <2>6 DEF ReopenedAs, Rets
<1>5. CASE b.ret = "ok" /\ o.stype # "query"
  <2> DEFINE p == Result(b.db, b.db.status)
  <2>1. r = Opens(p, s)
    BY <1>1, <1>2, <1>5
  <2>2. p.db = b.db /\ p.ret = b.db.status
    BY DEF Result
  <2> HIDE DEF p
  <2>3. LET t == r.db.st[s]
            u == b.db.st[s]
        IN  /\ r.ret = b.db.status /\ Within(b.db, s, r.db) /\ r.db \in Sound
            /\ r.db.status = b.db.status /\ r.db.busy = b.db.busy
            /\ Kept(u, t) /\ t.stype = u.stype /\ t.exec = u.exec /\ t.defs = u.defs
    BY <1>2, <2>1, <2>2, OpensIs
  <2>4. Within(x, s, r.db)
    BY <1>2, <2>3, WithinWithin
  <2>5. r.ret \in Rets
    BY <1>2, <2>3 DEF Sound, Dbs
  <2>6. ReopenedAs(x, s, a, r.db, r.ret)
    BY <1>2, <1>5, <2>3 DEF ReopenedAs, Kept
  <2> QED
    BY <2>3, <2>4, <2>5, <2>6
<1> QED
  BY <1>2, <1>3, <1>4, <1>5

-----------------------------------------------------------------------------
(* The modes of the connection.                                            *)

\* y is x in perhaps another mode and with perhaps another status.
Switched(x, y) ==
  /\ y \in Sound /\ y.st = x.st /\ y.busy = x.busy
  /\ y.up = x.up /\ y.auto = x.auto
  /\ y.xhp = x.xhp /\ y.xstmt = x.xstmt /\ y.xran = x.xran

LEMMA GetBlockingIs ==
  ASSUME NEW x \in Sound, NEW r \in GetBlocking(x)
  PROVE  /\ r.ret \in {"ok", "error"} /\ (r.ret = "error" => "attr" \in Faults)
         /\ Switched(x, r.db) /\ r.db.nb = x.nb /\ r.db.status = r.ret
         /\ \A s \in Sths : Within(x, s, r.db)
<1>1. r \in Oci(x, "attr")
  BY DEF GetBlocking
<1>2. 0 \in Sths
  BY CursorAssumption DEF Sths
<1>3. \A s \in Sths :
        /\ r.ret \in {"ok", "error"} /\ (r.ret = "error" => "attr" \in Faults)
        /\ Within(x, s, r.db) /\ r.db \in Sound
        /\ r.db.st = x.st /\ r.db.busy = x.busy /\ r.db.status = r.ret
  BY <1>1, OciIs
<1> QED
  BY <1>2, <1>3 DEF Switched, Within, SameConn

LEMMA SetBlockingIs ==
  ASSUME NEW x \in Sound, NEW on \in BOOLEAN, NEW r \in SetBlocking(x, on)
  PROVE  /\ r.ret \in {"ok", "error"}
         /\ r.ret = "error" => "attr" \in Faults \/ "toggle" \in Faults
         /\ Switched(x, r.db) /\ r.db.status = r.ret
         /\ r.ret = "ok" => r.db.nb = ~on
<1>1. PICK q \in GetBlocking(x) :
        \/ q.ret # "ok" /\ r = q
        \/ q.ret = "ok" /\ q.db.nb # on /\ r \in GetBlocking(q.db)
        \/ /\ q.ret = "ok" /\ q.db.nb = on
           /\ r \in Then(Oci(q.db, "toggle"), LAMBDA z : GetBlocking([z EXCEPT !.nb = ~@]))
  BY DEF SetBlocking, Then
<1>2. /\ q.ret \in {"ok", "error"} /\ (q.ret = "error" => "attr" \in Faults)
      /\ Switched(x, q.db) /\ q.db.nb = x.nb /\ q.db.status = q.ret /\ q.db \in Sound
  BY GetBlockingIs DEF Switched
<1>3. CASE q.ret # "ok"
  BY <1>1, <1>2, <1>3
<1>4. CASE q.ret = "ok" /\ q.db.nb # on
  <2>1. r \in GetBlocking(q.db)
    BY <1>1, <1>4
  <2>2. /\ r.ret \in {"ok", "error"} /\ (r.ret = "error" => "attr" \in Faults)
        /\ Switched(q.db, r.db) /\ r.db.nb = q.db.nb /\ r.db.status = r.ret
    BY <1>2, <2>1, GetBlockingIs
  <2>3. q.db.nb \in BOOLEAN
    BY <1>2, SoundStmt DEF Sound, Dbs
  <2> QED
    BY <1>2, <1>4, <2>2, <2>3 DEF Switched
<1>5. CASE q.ret = "ok" /\ q.db.nb = on
  <2>1. PICK p \in Oci(q.db, "toggle") :
          \/ p.ret # "ok" /\ r = p
          \/ p.ret = "ok" /\ r \in GetBlocking([p.db EXCEPT !.nb = ~p.db.nb])
    BY <1>1, <1>5 DEF Then
  <2>2. 0 \in Sths
    BY CursorAssumption DEF Sths
  <2>3. /\ p.ret \in {"ok", "error"} /\ (p.ret = "error" => "toggle" \in Faults)
        /\ Within(q.db, 0, p.db) /\ p.db \in Sound
        /\ p.db.st = q.db.st /\ p.db.busy = q.db.busy /\ p.db.status = p.ret
    BY <1>2, <2>2, OciIs
  <2>4. CASE p.ret # "ok"
    BY <1>2, <2>1, <2>3, <2>4 DEF Switched, Within, SameConn
  <2>5. CASE p.ret = "ok"
    <3> DEFINE y == [p.db EXCEPT !.nb = ~p.db.nb]
    <3>1. p.db \in Dbs /\ p.db.nb = on /\ FreeClean(p.db)
      BY <1>5, <2>3 DEF Sound, Within, SameConn
    <3>2. /\ y \in Dbs /\ y.nb = ~on /\ y.st = p.db.st /\ y.busy = p.db.busy
          /\ y.up = p.db.up /\ y.auto = p.db.auto
          /\ y.xhp = p.db.xhp /\ y.xstmt = p.db.xstmt /\ y.xran = p.db.xran
      BY <3>1 DEF Dbs
    <3>3. r \in GetBlocking(y)
      BY <2>1, <2>5
    <3> HIDE DEF y
    <3>4. y \in Sound
      BY <3>1, <3>2 DEF Sound, FreeClean
    <3>5. /\ r.ret \in {"ok", "error"} /\ (r.ret = "error" => "attr" \in Faults)
          /\ Switched(y, r.db) /\ r.db.nb = y.nb /\ r.db.status = r.ret
      BY <3>3, <3>4, GetBlockingIs
    <3> QED
      BY <1>2, <2>3, <3>2, <3>5 DEF Switched, Within, SameConn
  <2> QED
    BY <2>4, <2>5
<1> QED
  BY <1>2, <1>3, <1>4, <1>5

-----------------------------------------------------------------------------
(* sqlo_open, sqlo_open2, sqlo_prepare.                                    *)

LEMMA CloseFailedIs ==
  ASSUME NEW x \in Sound, NEW s \in Sths, x.st[s].used, NEW r \in CloseFailed(x, s)
  PROVE  LET t == r.db.st[s]
         IN  /\ r.ret = "error" /\ Within(x, s, r.db) /\ r.db \in Sound
             /\ r.db.busy \in {x.busy, NoSth}
             /\ ~t.used /\ ~t.still /\ ~t.defs
<1>1. PICK q \in CloseTwice(x, s) : r = Result(q.db, "error")
  BY DEF CloseFailed
<1>2. r.db = q.db /\ r.ret = "error"
  BY <1>1 DEF Result
<1> QED
  BY <1>2, CloseTwiceIs

\* A statement as it was, but for its kind.
ParsedAs(x, s, kind, y) ==
  LET o == x.st[s]
      t == y.st[s]
  IN  /\ Kept(o, t) /\ t.exec = o.exec /\ t.opened = o.opened /\ t.defs = o.defs
      /\ t.stype = kind /\ y.busy = x.busy /\ y.status = "ok"

LEMMA ParsedIs ==
  ASSUME NEW x \in Sound, NEW s \in Sths, NEW kind \in AllKinds, x.st[s].used,
         NEW r \in Parsed(x, s, kind)
  PROVE  LET t == r.db.st[s]
         IN  /\ r.ret \in {"ok", "error"} /\ Within(x, s, r.db) /\ r.db \in Sound
             /\ r.ret = "ok" => ParsedAs(x, s, kind, r.db)
             /\ r.ret = "error" => /\ ~t.used /\ ~t.still /\ ~t.defs
                                   /\ r.db.busy \in {x.busy, NoSth}
<1>1. PICK q \in Prepare(x, s, kind) :
        r \in IF q.ret # "ok" \/ q.db.st[s].stype = "plsql" THEN CloseFailed(q.db, s)
              ELSE IF q.db.st[s].stype # "query" THEN {q}
              ELSE UNION {IF p.ret = "ok" THEN {p} ELSE CloseFailed(p.db, s) :
                            p \in SetPrefetch(q.db)}
  BY DEF Parsed
<1>2. LET t == q.db.st[s]
          o == x.st[s]
      IN  /\ q.ret \in {"ok", "error"} /\ Within(x, s, q.db) /\ q.db \in Sound
          /\ q.db.status = q.ret /\ q.db.busy = x.busy
          /\ Kept(o, t) /\ t.exec = o.exec /\ t.opened = o.opened /\ t.defs = o.defs
          /\ q.ret = "ok" => t.stype = kind
  BY PrepareIs
<1>3. q.db.st[s].used
  BY <1>2 DEF Kept
<1>4. CASE q.ret # "ok" \/ q.db.st[s].stype = "plsql"
  <2>1. r \in CloseFailed(q.db, s)
    BY <1>1, <1>4
  <2>2. /\ r.ret = "error" /\ Within(q.db, s, r.db) /\ r.db \in Sound
        /\ r.db.busy \in {q.db.busy, NoSth}
        /\ ~r.db.st[s].used /\ ~r.db.st[s].still /\ ~r.db.st[s].defs
    BY <1>2, <1>3, <2>1, CloseFailedIs
  <2> QED
    BY <1>2, <2>2, WithinWithin
<1>5. CASE q.ret = "ok" /\ q.db.st[s].stype # "plsql" /\ q.db.st[s].stype # "query"
  <2>1. r = q
    BY <1>1, <1>5
  <2> QED
    BY <1>2, <1>5, <2>1 DEF ParsedAs
<1>6. CASE q.ret = "ok" /\ q.db.st[s].stype = "query"
  <2>1. PICK p \in Oci(q.db, "prefetch") :
          r \in IF p.ret = "ok" THEN {p} ELSE CloseFailed(p.db, s)
    BY <1>1, <1>6 DEF SetPrefetch
  <2>2. /\ p.ret \in {"ok", "error"}
        /\ Within(q.db, s, p.db) /\ p.db \in Sound
        /\ p.db.st = q.db.st /\ p.db.busy = q.db.busy /\ p.db.status = p.ret
    BY <1>2, OciIs
  <2>3. Within(x, s, p.db)
    BY <1>2, <2>2, WithinWithin
  <2>4. CASE p.ret = "ok"
    BY <1>2, <1>6, <2>1, <2>2, <2>3, <2>4 DEF ParsedAs
  <2>5. CASE p.ret # "ok"
    <3>1. r \in CloseFailed(p.db, s)
      BY <2>1, <2>5
    <3>2. /\ r.ret = "error" /\ Within(p.db, s, r.db) /\ r.db \in Sound
          /\ r.db.busy \in {p.db.busy, NoSth}
          /\ ~r.db.st[s].used /\ ~r.db.st[s].still /\ ~r.db.st[s].defs
      BY <1>3, <2>2, <3>1, CloseFailedIs
    <3> QED
      BY <1>2, <2>2, <2>3, <3>2, WithinWithin
  <2> QED
    BY <2>4, <2>5
<1> QED
  BY <1>2, <1>4, <1>5, <1>6

\* Nothing of the statements has changed.
Untouched(x, y) == y \in Sound /\ SameConn(x, y) /\ y.st = x.st /\ y.busy = x.busy

LEMMA NewParsedIs ==
  ASSUME NEW x \in Sound, NEW kind \in AllKinds, NEW r \in NewParsed(x, kind)
  PROVE  LET s == FirstFree(x)
             t == r.db.st[s]
         IN  /\ r.ret \in {"ok", "error"} /\ r.db \in Sound
             /\ r.ret = "ok" => /\ FreeSths(x) # {} /\ Within(x, s, r.db)
                                /\ t.used /\ ~t.still /\ ~t.opened /\ ~t.ran
                                /\ t.ctype = "default" /\ t.stype = kind
                                /\ t.hp = "live" /\ t.defs = x.st[s].defs
                                /\ r.db.busy = x.busy /\ r.db.status = "ok"
             /\ r.ret = "error" =>
                  IF FreeSths(x) = {} THEN Untouched(x, r.db)
                  ELSE /\ Within(x, s, r.db) /\ ~t.used /\ ~t.still
                       /\ t.defs => x.st[s].defs
                       /\ r.db.busy \in {x.busy, NoSth}
<1> DEFINE s == FirstFree(x)
<1>1. PICK q \in StmtNew(x) :
        \/ q.ret # "ok" /\ r = q
        \/ q.ret = "ok" /\ r \in Parsed(q.db, s, kind)
  BY DEF NewParsed, Then
<1>2. /\ q.ret \in {"ok", "error"} /\ q.db.status = q.ret /\ q.db \in Sound
      /\ FreeSths(x) = {} => q = Sets(x, "error")
      /\ FreeSths(x) # {} =>
           /\ Within(x, s, q.db) /\ q.db.busy = x.busy
           /\ q.db.st[s] = NewStmt(q.ret = "ok", x.st[s].defs)
  BY StmtNewIs
<1>3. CASE FreeSths(x) = {}
  <2>1. 0 \in Sths /\ "error" \in Rets
    BY CursorAssumption DEF Sths, Rets
  <2>2. /\ q.ret = "error" /\ Within(x, 0, q.db) /\ q.db \in Sound
        /\ q.db.st = x.st /\ q.db.busy = x.busy
    BY <1>2, <1>3, <2>1, SetsIs
  <2> QED
    BY <1>1, <1>3, <2>2 DEF Untouched, Within
<1>4. CASE FreeSths(x) # {}
  <2>1. s \in Sths
    BY <1>4, FirstFreeIn
  <2> HIDE DEF s
  <2>2. x.st[s].defs \in BOOLEAN
    BY <2>1, SoundStmt DEF Stmts
  <2>3. CASE q.ret # "ok"
    <3>1. q.db.st[s] = NewStmt(FALSE, x.st[s].defs)
      BY <1>2, <1>4, <2>3
    <3>2. ~q.db.st[s].used /\ ~q.db.st[s].still /\ q.db.st[s].defs = x.st[s].defs
      BY <2>2, <3>1, NewStmtIs
    <3> QED
      BY <1>1, <1>2, <1>4, <2>3, <3>2 DEF s
  <2>4. CASE q.ret = "ok"
    <3>1. q.db.st[s] = NewStmt(TRUE, x.st[s].defs)
      BY <1>2, <1>4, <2>4
    <3>2. LET t == q.db.st[s]
          IN  /\ t.used /\ ~t.opened /\ ~t.still /\ ~t.ran /\ t.ctype = "default"
              /\ t.hp = "live" /\ t.defs = x.st[s].defs
      BY <2>2, <3>1, NewStmtIs
    <3>3. r \in Parsed(q.db, s, kind)
      BY <1>1, <2>4
    <3>4. LET t == r.db.st[s]
          IN  /\ r.ret \in {"ok", "error"} /\ Within(q.db, s, r.db) /\ r.db \in Sound
              /\ r.ret = "ok" => ParsedAs(q.db, s, kind, r.db)
              /\ r.ret = "error" => /\ ~t.used /\ ~t.still /\ ~t.defs
                                    /\ r.db.busy \in {q.db.busy, NoSth}
      BY <1>2, <2>1, <3>2, <3>3, ParsedIs
    <3>5. Within(x, s, r.db)
      BY <1>2, <1>4, <3>4, WithinWithin
    <3> QED
      BY <1>2, <1>4, <3>2, <3>4, <3>5 DEF s, ParsedAs, Kept
  <2> QED
    BY <2>3, <2>4
<1> QED
  BY <1>3, <1>4

LEMMA FreeSame ==
  ASSUME NEW x, NEW y, y.st = x.st
  PROVE  FreeSths(y) = FreeSths(x) /\ FirstFree(y) = FirstFree(x)
BY DEF FreeSths, FirstFree

\* The statement in slot s after it was made and opened, or that failed.
NewOpened(x, s, y, ret) ==
  LET t == y.st[s]
  IN  /\ ret \in {"ok", "error", "busy"}
      /\ ret = "ok" => t.used /\ ~t.still /\ y.busy \in {x.busy, NoSth}
      /\ ret = "busy" => t.used /\ t.still /\ ~t.opened /\ t.stype = "query"
                         /\ t.ctype = "default" /\ y.busy = s /\ x.nb /\ t.hp = "live"
                         /\ (t.ran \/ ~t.defs)
      /\ ret = "error" => y.busy = NoSth \/ (y.busy = x.busy /\ y.busy # s)

\* And what it has executed: t is made of the kind given, in the place of o; if
\* no columns were defined there it has run with the values a.
NewRun(o, kind, a, t, ret) ==
  /\ ret # "error" => t.hp = "live" /\ t.ctype = "default" /\ t.stype = kind
  /\ ret = "ok" /\ kind = "query" =>
       t.ran /\ (~o.defs => t.exec /\ (a # NoArgs => t.with = a))
  /\ ret = "ok" /\ kind # "query" => t.defs = o.defs
  /\ ret = "busy" => (a # NoArgs => t.with = a)
  /\ ret = "error" => /\ t.defs => o.defs
                      /\ t.still => o.still
                      /\ "free" \notin Faults => ~t.used

LEMMA NewOpenedIs ==
  ASSUME NEW x \in Sound, NEW kind \in AllKinds, NEW a \in Args \union {NoArgs},
         NEW s, s = FirstFree(x),
         NEW p \in NewParsed(x, kind), p.ret = "ok", NEW r \in Reopen(p.db, s, a)
  PROVE  /\ FreeSths(x) # {} /\ s \in Sths
         /\ r.ret \in Rets /\ Within(x, s, r.db) /\ r.db \in Sound /\ r.db.status = r.ret
         /\ "bind" \notin Faults => NewOpened(x, s, r.db, r.ret)
         /\ "bind" \notin Faults /\ x.busy # s =>
              NewRun(x.st[s], kind, a, r.db.st[s], r.ret)
<1>1. LET t == p.db.st[s]
      IN  /\ p.db \in Sound /\ FreeSths(x) # {} /\ Within(x, s, p.db)
          /\ t.used /\ ~t.still /\ ~t.opened /\ ~t.ran
          /\ t.ctype = "default" /\ t.stype = kind
          /\ t.hp = "live" /\ t.defs = x.st[s].defs
          /\ p.db.busy = x.busy /\ p.db.status = "ok"
  BY NewParsedIs
<1>2. s \in Sths
  BY <1>1, FirstFreeIn
<1>3. /\ r.ret \in Rets /\ Within(p.db, s, r.db) /\ r.db \in Sound /\ r.db.status = r.ret
      /\ "bind" \notin Faults => ReopenedAs(p.db, s, a, r.db, r.ret)
  BY <1>1, <1>2, ReopenIs
<1>4. Within(x, s, r.db)
  BY <1>1, <1>3, WithinWithin
<1>5. ASSUME "bind" \notin Faults
      PROVE  NewOpened(x, s, r.db, r.ret)
  <2>0. ReopenedAs(p.db, s, a, r.db, r.ret)
    BY <1>3, <1>5
  <2>1. CASE kind = "query"
    <3>1. r.ret \in {"ok", "error", "busy"} /\ Reopened(p.db, s, r.db, r.ret)
      BY <1>1, <1>3, <2>0, <2>1 DEF ReopenedAs, Rets
    <3>2. p.db.nb = x.nb
      BY <1>1 DEF Within, SameConn
    <3> QED
      BY <1>1, <3>1, <3>2 DEF Reopened, NewOpened
  <2>2. CASE kind # "query"
    BY <1>1, <2>0, <2>2 DEF ReopenedAs, NewOpened
  <2> QED
    BY <2>1, <2>2
<1>6. ASSUME "bind" \notin Faults, x.busy # s
      PROVE  NewRun(x.st[s], kind, a, r.db.st[s], r.ret)
  <2>0. ReopenedAs(p.db, s, a, r.db, r.ret)
    BY <1>1, <1>3, <1>6
  <2>1. CASE kind = "query"
    <3>1. /\ r.ret \in {"ok", "error", "busy"} /\ Reopened(p.db, s, r.db, r.ret)
          /\ RanWith(p.db.st[s], r.db.st[s], r.ret, Given(p.db, s, a))
      BY <1>1, <1>3, <2>0, <2>1 DEF ReopenedAs, Rets
    <3>2. a # NoArgs => Given(p.db, s, a) = a
      BY <1>1, <1>6 DEF Given
    <3> QED
      BY <1>1, <2>1, <3>1, <3>2 DEF Reopened, RanWith, NewRun
  <2>2. CASE kind # "query"
    BY <1>1, <2>0, <2>2 DEF ReopenedAs, NewRun
  <2> QED
    BY <2>1, <2>2
<1> QED
  BY <1>1, <1>2, <1>3, <1>4, <1>5, <1>6

\* y is x but for the statement in slot s, the status and the blocking mode.
WithinMode(x, s, y) ==
  /\ y \in Sound
  /\ \A u \in Sths \ {s} : y.st[u] = x.st[u]
  /\ y.st[s].ctype \in {x.st[s].ctype, "default"}
  /\ y.busy \in {x.busy, s, NoSth}
  /\ y.up = x.up /\ y.auto = x.auto
  /\ y.xhp = x.xhp /\ y.xstmt = x.xstmt /\ y.xran = x.xran

LEMMA WithinModeIs ==
  ASSUME NEW x, NEW s
  PROVE  /\ \A y : Within(x, s, y) => WithinMode(x, s, y)
         /\ \A y : Switched(x, y) => WithinMode(x, s, y)
         /\ \A y, z : WithinMode(x, s, y) /\ WithinMode(y, s, z) => WithinMode(x, s, z)
BY DEF Within, WithinMode, SameConn, Switched

\* What is left of the slot s when sqlo_open has returned: nothing goes on.
Opening(x, s, y, ret) ==
  /\ ret \in {"ok", "error"}
  /\ y.busy = NoSth \/ (y.busy = x.busy /\ y.busy # s)
  /\ ret = "ok" => y.st[s].used /\ ~y.st[s].still

\* No value fails to bind, and the call that goes on is not on a free slot.
Steady(x) == "bind" \notin Faults /\ x.busy \notin FreeSths(x)

\* No call fails that sets or gets the mode of a connection in non-blocking mode.
ModesHold(x) == ~x.nb \/ ("attr" \notin Faults /\ "toggle" \notin Faults)

LEMMA OpenIs ==
  ASSUME NEW x \in Sound, NEW kind \in AllKinds, NEW a \in Args \union {NoArgs},
         NEW r \in Open(x, kind, a)
  PROVE  LET s == FirstFree(x)
         IN  /\ r.ret \in Rets /\ r.db \in Sound
             /\ r.db.up = x.up /\ r.db.auto = x.auto
             /\ r.ret = "ok" => r.db.nb = x.nb
             /\ FreeSths(x) = {} => r.ret = "error" /\ Switched(x, r.db)
             /\ FreeSths(x) # {} =>
                  /\ WithinMode(x, s, r.db)
                  /\ Steady(x) => Opening(x, s, r.db, r.ret)
                  /\ Steady(x) /\ ModesHold(x) =>
                       NewRun(x.st[s], kind, a, r.db.st[s], r.ret)
<1> DEFINE s == FirstFree(x)
<1>1. PICK y \in GetBlocking(x) :
        \/ y.ret # "ok" /\ r = y
        \/ /\ y.ret = "ok"
           /\ r \in Then(IF y.db.nb THEN SetBlocking(y.db, TRUE) ELSE {Result(y.db, "ok")},
                LAMBDA z : Then(NewParsed(z, kind), LAMBDA p :
                  IF ~y.db.nb THEN Reopen(p, FirstFree(z), a)
                  ELSE UNION {Then(SetBlocking(q.db, FALSE), LAMBDA m : {Result(m, q.ret)}) :
                                q \in Reopen(p, FirstFree(z), a)}))
  BY DEF Open, Then
<1>2. /\ y.ret \in {"ok", "error"} /\ Switched(x, y.db) /\ y.db.nb = x.nb /\ y.db \in Sound
  BY GetBlockingIs DEF Switched
<1> USE DEF Rets
<1>3. ASSUME Switched(x, r.db), r.ret = "error"
      PROVE  /\ r.db \in Sound /\ r.db.up = x.up /\ r.db.auto = x.auto
             /\ FreeSths(x) # {} =>
                  /\ WithinMode(x, s, r.db)
                  /\ Steady(x) => Opening(x, s, r.db, r.ret)
                  /\ NewRun(x.st[s], kind, a, r.db.st[s], r.ret)
  <2>1. FreeSths(x) # {} => s \in FreeSths(x)
    BY FirstFreeIn DEF FreeSths
  <2>2. FreeSths(x) # {} => ~x.st[s].used /\ r.db.st[s] = x.st[s]
    BY <1>3, <2>1 DEF FreeSths, Switched
  <2> QED
    BY <1>3, <2>1, <2>2, WithinModeIs DEF Opening, Switched, Steady, NewRun
<1>4. CASE y.ret # "ok"
  BY <1>1, <1>2, <1>3, <1>4
<1>5. CASE y.ret = "ok"
  <2>1. PICK z \in IF y.db.nb THEN SetBlocking(y.db, TRUE) ELSE {Result(y.db, "ok")} :
          \/ z.ret # "ok" /\ r = z
          \/ /\ z.ret = "ok"
             /\ r \in Then(NewParsed(z.db, kind), LAMBDA p :
                  IF ~y.db.nb THEN Reopen(p, FirstFree(z.db), a)
                  ELSE UNION {Then(SetBlocking(q.db, FALSE), LAMBDA m : {Result(m, q.ret)}) :
                                q \in Reopen(p, FirstFree(z.db), a)})
    BY <1>1, <1>5 DEF Then
  <2>2. /\ z.ret \in {"ok", "error"} /\ Switched(x, z.db)
        /\ z.ret = "ok" => z.db.nb = FALSE
    <3>1. CASE y.db.nb
      BY <1>2, <2>1, <3>1, SetBlockingIs, ZenonT(30) DEF Switched
    <3>2. CASE ~y.db.nb
      <4>1. z.db = y.db /\ z.ret = "ok"
        <5>1. z \in {Result(y.db, "ok")}
          BY <2>1, <3>2
        <5> QED
          BY <5>1 DEF Result
      <4>2. y.db.nb \in BOOLEAN
        BY <1>2, SoundStmt DEF Sound, Dbs
      <4> QED
        BY <1>2, <3>2, <4>1, <4>2
    <3> QED
      BY <3>1, <3>2
  <2>3. z.db \in Sound /\ z.db.st = x.st /\ z.db.busy = x.busy
    BY <2>2 DEF Switched
  <2>4. FreeSths(z.db) = FreeSths(x) /\ FirstFree(z.db) = s
    BY <2>3, FreeSame
  <2>5. CASE z.ret # "ok"
    BY <1>3, <2>1, <2>2, <2>5
  <2>6. CASE z.ret = "ok"
    <3>1. PICK p \in NewParsed(z.db, kind) :
            \/ p.ret # "ok" /\ r = p
            \/ /\ p.ret = "ok"
               /\ r \in IF ~y.db.nb THEN Reopen(p.db, s, a)
                        ELSE UNION {Then(SetBlocking(q.db, FALSE),
                                         LAMBDA m : {Result(m, q.ret)}) :
                                      q \in Reopen(p.db, s, a)}
      BY <2>1, <2>4, <2>6 DEF Then
    <3>2. CASE p.ret # "ok"
      <4>1. /\ r.ret = "error" /\ r.db \in Sound
            /\ IF FreeSths(x) = {} THEN Untouched(z.db, r.db)
               ELSE /\ Within(z.db, s, r.db) /\ r.db.busy \in {z.db.busy, NoSth}
                    /\ ~r.db.st[s].used /\ ~r.db.st[s].still
                    /\ r.db.st[s].defs => z.db.st[s].defs
        <5> DEFINE w == z.db
        <5>1. r \in NewParsed(w, kind) /\ w \in Sound /\ r.ret # "ok"
              /\ FreeSths(w) = FreeSths(x) /\ FirstFree(w) = s
          BY <2>3, <2>4, <3>1, <3>2
        <5> HIDE DEF w, s
        <5>2. LET t == r.db.st[s]
              IN  /\ r.ret \in {"ok", "error"} /\ r.db \in Sound
                  /\ r.ret = "error" =>
                       IF FreeSths(w) = {} THEN Untouched(w, r.db)
                       ELSE /\ Within(w, s, r.db)
                            /\ r.db.busy \in {w.busy, NoSth}
                            /\ ~t.used /\ ~t.still
                            /\ t.defs => w.st[s].defs
          BY <5>1, NewParsedIs
        <5> QED
          BY <5>1, <5>2 DEF w
      <4>2. CASE FreeSths(x) = {}
        <5>1. Switched(x, r.db)
          BY <2>2, <4>1, <4>2 DEF Untouched, Switched, SameConn
        <5> QED
          BY <1>3, <4>1, <4>2, <5>1
      <4>3. CASE FreeSths(x) # {}
        <5>1. s \in FreeSths(x)
          BY <4>3, FirstFreeIn DEF FreeSths
        <5>2. WithinMode(x, s, r.db)
          BY <2>2, <4>1, <4>3, WithinModeIs
        <5>3. Steady(x) => Opening(x, s, r.db, r.ret)
          BY <2>3, <4>1, <4>3, <5>1 DEF Opening, Steady
        <5>4. NewRun(x.st[s], kind, a, r.db.st[s], r.ret)
          BY <2>3, <4>1, <4>3 DEF NewRun
        <5> QED
          BY <4>1, <4>3, <5>2, <5>3, <5>4 DEF WithinMode
      <4> QED
        BY <4>2, <4>3
    <3>3. CASE p.ret = "ok"
      <4>1. PICK q \in Reopen(p.db, s, a) :
              \/ ~y.db.nb /\ r = q
              \/ y.db.nb /\ r \in Then(SetBlocking(q.db, FALSE), LAMBDA m : {Result(m, q.ret)})
        BY <3>1, <3>3
      <4>2. /\ FreeSths(x) # {} /\ s \in Sths
            /\ q.ret \in Rets /\ Within(z.db, s, q.db) /\ q.db \in Sound
            /\ "bind" \notin Faults => NewOpened(z.db, s, q.db, q.ret)
            /\ "bind" \notin Faults /\ z.db.busy # s =>
                 NewRun(z.db.st[s], kind, a, q.db.st[s], q.ret)
        BY <2>3, <2>4, <3>3, NewOpenedIs
      <4>3. s \in FreeSths(x)
        BY <4>2, FirstFreeIn DEF FreeSths
      <4>4. WithinMode(x, s, q.db)
        BY <2>2, <4>2, WithinModeIs
      <4>5. Steady(x) => Opening(x, s, q.db, q.ret)
        <5>1. Steady(x) => x.busy # s /\ "bind" \notin Faults
          BY <4>3 DEF Steady
        <5> QED
          BY <2>2, <2>3, <2>6, <4>2, <5>1 DEF NewOpened, Opening
      <4>8. Steady(x) => NewRun(x.st[s], kind, a, q.db.st[s], q.ret)
        BY <2>3, <4>2, <4>3 DEF Steady
      <4>6. CASE ~y.db.nb
        <5>1. r = q
          BY <4>1, <4>6
        <5>2. q.db.nb = z.db.nb /\ z.db.nb = FALSE /\ x.nb = FALSE
          <6>1. x.nb \in BOOLEAN
            BY DEF Sound, Dbs
          <6> QED
            BY <1>2, <2>2, <2>6, <4>2, <4>6, <6>1 DEF Within, SameConn
        <5> QED
          BY <4>2, <4>4, <4>5, <4>8, <5>1, <5>2 DEF WithinMode
      <4>7. CASE y.db.nb
        <5>1. PICK m \in SetBlocking(q.db, FALSE) :
                \/ m.ret # "ok" /\ r = m
                \/ m.ret = "ok" /\ r = Result(m.db, q.ret)
          BY <4>1, <4>7 DEF Then
        <5>2. /\ m.ret \in {"ok", "error"} /\ Switched(q.db, m.db)
              /\ m.ret = "ok" => m.db.nb = TRUE
              /\ m.ret = "error" => "attr" \in Faults \/ "toggle" \in Faults
          BY <4>2, SetBlockingIs
        <5>3. r.db = m.db /\ r.ret \in {"error", q.ret} /\ (r.ret = "ok" => m.ret = "ok")
          BY <5>1, <5>2 DEF Result
        <5>4. WithinMode(x, s, r.db)
          BY <4>4, <5>2, <5>3, WithinModeIs
        <5>5. Steady(x) => Opening(x, s, r.db, r.ret)
          BY <4>5, <5>2, <5>3 DEF Opening, Switched
        <5>6. x.nb = TRUE
          BY <1>2, <4>7, SoundStmt
        <5>7. ModesHold(x) => r.ret = q.ret /\ r.db.st = q.db.st
          BY <5>1, <5>2, <5>3, <5>6 DEF ModesHold, Switched, Result
        <5>8. Steady(x) /\ ModesHold(x) => NewRun(x.st[s], kind, a, r.db.st[s], r.ret)
          BY <4>8, <5>7
        <5> QED
          BY <4>2, <5>2, <5>3, <5>4, <5>5, <5>6, <5>8 DEF WithinMode
      <4> QED
        BY <4>6, <4>7
    <3> QED
      BY <3>2, <3>3
  <2> QED
    BY <2>5, <2>6
<1> QED
  BY <1>4, <1>5

\* An sqlo_open in blocking mode never ends in the other one, whatever fails.
LEMMA OpenStaysBlocking ==
  ASSUME NEW x \in Sound, ~x.nb, NEW kind \in AllKinds, NEW a \in Args \union {NoArgs},
         NEW r \in Open(x, kind, a)
  PROVE  ~r.db.nb
<1>1. PICK y \in GetBlocking(x) :
        \/ y.ret # "ok" /\ r = y
        \/ /\ y.ret = "ok"
           /\ r \in Then(IF y.db.nb THEN SetBlocking(y.db, TRUE) ELSE {Result(y.db, "ok")},
                LAMBDA z : Then(NewParsed(z, kind), LAMBDA p :
                  IF ~y.db.nb THEN Reopen(p, FirstFree(z), a)
                  ELSE UNION {Then(SetBlocking(q.db, FALSE), LAMBDA m : {Result(m, q.ret)}) :
                                q \in Reopen(p, FirstFree(z), a)}))
  BY DEF Open, Then
<1>2. y.ret \in {"ok", "error"} /\ ~y.db.nb /\ y.db \in Sound
  BY GetBlockingIs DEF Switched
<1>3. CASE y.ret # "ok"
  BY <1>1, <1>2, <1>3
<1>4. CASE y.ret = "ok"
  <2>1. PICK z \in IF y.db.nb THEN SetBlocking(y.db, TRUE) ELSE {Result(y.db, "ok")} :
          \/ z.ret # "ok" /\ r = z
          \/ /\ z.ret = "ok"
             /\ r \in Then(NewParsed(z.db, kind), LAMBDA p :
                  IF ~y.db.nb THEN Reopen(p, FirstFree(z.db), a)
                  ELSE UNION {Then(SetBlocking(q.db, FALSE), LAMBDA m : {Result(m, q.ret)}) :
                                q \in Reopen(p, FirstFree(z.db), a)})
    BY <1>1, <1>4 DEF Then
  <2>2. z.db = y.db /\ z.ret = "ok"
    <3>1. z \in {Result(y.db, "ok")}
      BY <1>2, <2>1
    <3> QED
      BY <3>1 DEF Result
  <2>3. PICK p \in NewParsed(y.db, kind) :
          \/ p.ret # "ok" /\ r = p
          \/ p.ret = "ok" /\ r \in Reopen(p.db, FirstFree(y.db), a)
    BY <1>2, <2>1, <2>2 DEF Then
  <2>4. CASE p.ret # "ok"
    BY <1>2, <2>3, <2>4, NewParsedIs DEF Untouched, Within, SameConn
  <2>5. CASE p.ret = "ok"
    BY <1>2, <2>3, <2>5, NewOpenedIs DEF Within, SameConn
  <2> QED
    BY <2>4, <2>5
<1> QED
  BY <1>2, <1>3, <1>4

LEMMA NotFree ==
  ASSUME NEW x, FreeSths(x) # {}, x.busy \notin FreeSths(x)
  PROVE  x.busy # FirstFree(x)
BY FirstFreeIn DEF FreeSths

\* What fails before sqlo_open2 has a statement to open.
LEMMA Open2Is ==
  ASSUME NEW x \in Sound, NEW h, NEW kind \in AllKinds, NEW a \in Args \union {NoArgs},
         NEW r \in Open2(x, h, kind, a)
  PROVE  LET s == FirstFree(x)
         IN  /\ r.ret \in Rets /\ r.db \in Sound /\ SameConn(x, r.db)
             /\ GoesOn(x, h) =>
                  /\ Within(x, h, r.db)
                  /\ "bind" \notin Faults =>
                       \/ r.ret = "error" /\ Untouched(x, r.db) /\ "attr" \in Faults
                       \/ /\ r.ret # "nodata" /\ Reopened(x, h, r.db, r.ret)
                          /\ RanWith(x.st[h], r.db.st[h], r.ret, Given(x, h, a))
             /\ ~GoesOn(x, h) =>
                  /\ FreeSths(x) = {} => r.ret = "error" /\ Untouched(x, r.db)
                  /\ FreeSths(x) # {} =>
                       /\ Within(x, s, r.db)
                       /\ Steady(x) => /\ NewOpened(x, s, r.db, r.ret)
                                       /\ NewRun(x.st[s], kind, a, r.db.st[s], r.ret)
<1> DEFINE s == FirstFree(x)
<1>0. s = FirstFree(x)
  OBVIOUS
<1> HIDE DEF s
<1>1. PICK y \in GetBlocking(x) :
        \/ y.ret # "ok" /\ r = y
        \/ /\ y.ret = "ok"
           /\ r \in IF GoesOn(y.db, h) THEN Reopen(y.db, h, a)
                    ELSE Then(NewParsed(y.db, kind), LAMBDA p : Reopen(p, FirstFree(y.db), a))
  BY DEF Open2, Then
<1>2. /\ y.ret \in {"ok", "error"} /\ Switched(x, y.db) /\ y.db.nb = x.nb /\ y.db \in Sound
      /\ y.ret = "error" => "attr" \in Faults
      /\ \A u \in Sths : Within(x, u, y.db)
  BY GetBlockingIs DEF Switched
<1>3. /\ y.db.st = x.st /\ y.db.busy = x.busy /\ Untouched(x, y.db)
      /\ FreeSths(y.db) = FreeSths(x) /\ FirstFree(y.db) = s
      /\ GoesOn(y.db, h) <=> GoesOn(x, h)
  BY <1>0, <1>2, FreeSame DEF Switched, GoesOn, Untouched, SameConn
<1>4. FreeSths(x) # {} => s \in Sths /\ ~x.st[s].used /\ (Steady(x) => x.busy # s)
  BY <1>0, FirstFreeIn, NotFree DEF Steady
<1>5. ASSUME NEW z, z.db \in Sound, z.ret = "error", Untouched(x, z.db), r = z
      PROVE  /\ r.ret \in Rets /\ SameConn(x, r.db)
             /\ \A u \in Sths : Within(x, u, r.db)
             /\ FreeSths(x) # {} /\ Steady(x) => NewOpened(x, s, r.db, r.ret)
             /\ FreeSths(x) # {} => NewRun(x.st[s], kind, a, r.db.st[s], r.ret)
  BY <1>4, <1>5 DEF Untouched, NewOpened, NewRun, Rets, Within
<1>6. CASE y.ret # "ok"
  <2>1. r = y /\ y.ret = "error"
    BY <1>1, <1>2, <1>6
  <2>2. /\ r.ret \in Rets /\ SameConn(x, r.db) /\ \A u \in Sths : Within(x, u, r.db)
        /\ FreeSths(x) # {} /\ Steady(x) => NewOpened(x, s, r.db, r.ret)
        /\ FreeSths(x) # {} => NewRun(x.st[s], kind, a, r.db.st[s], r.ret)
    BY <1>2, <1>3, <1>5, <2>1
  <2>3. GoesOn(x, h) => h \in Sths
    BY DEF GoesOn
  <2> QED
    BY <1>0, <1>2, <1>3, <1>4, <2>1, <2>2, <2>3
<1>7. CASE y.ret = "ok" /\ GoesOn(x, h)
  <2>1. r \in Reopen(y.db, h, a)
    BY <1>1, <1>3, <1>7
  <2>2. h \in Sths /\ y.db.st[h].used /\ y.db.st[h].stype = "query"
    BY <1>3, <1>7 DEF GoesOn
  <2>3. /\ r.ret \in Rets /\ Within(y.db, h, r.db) /\ r.db \in Sound
        /\ "bind" \notin Faults => ReopenedAs(y.db, h, a, r.db, r.ret)
    BY <1>2, <2>1, <2>2, ReopenIs
  <2>4. Within(x, h, r.db)
    BY <1>2, <2>2, <2>3, WithinWithin
  <2>5. "bind" \notin Faults => /\ r.ret # "nodata" /\ Reopened(x, h, r.db, r.ret)
                                /\ RanWith(x.st[h], r.db.st[h], r.ret, Given(x, h, a))
    BY <1>2, <1>3, <2>2, <2>3 DEF ReopenedAs, Reopened, Given
  <2> QED
    BY <1>7, <2>3, <2>4, <2>5 DEF Within
<1>8. CASE y.ret = "ok" /\ ~GoesOn(x, h)
  <2>1. PICK p \in NewParsed(y.db, kind) :
          \/ p.ret # "ok" /\ r = p
          \/ p.ret = "ok" /\ r \in Reopen(p.db, s, a)
    BY <1>1, <1>3, <1>8 DEF Then
  <2> DEFINE w == y.db
  <2>2. /\ w \in Sound /\ FreeSths(w) = FreeSths(x) /\ FirstFree(w) = s
        /\ p \in NewParsed(w, kind) /\ w.busy = x.busy /\ w.nb = x.nb /\ Untouched(x, w)
        /\ \A u \in Sths : Within(x, u, w)
    BY <1>2, <1>3, <2>1
  <2> HIDE DEF w
  <2>3. CASE p.ret # "ok"
    <3>1. /\ p.ret = "error" /\ p.db \in Sound
          /\ IF FreeSths(w) = {} THEN Untouched(w, p.db)
             ELSE /\ Within(w, s, p.db) /\ p.db.busy \in {w.busy, NoSth}
                  /\ ~p.db.st[s].used /\ ~p.db.st[s].still
                  /\ p.db.st[s].defs => w.st[s].defs
      BY <2>2, <2>3, NewParsedIs
    <3>2. CASE FreeSths(x) = {}
      <4>1. Untouched(x, r.db) /\ r.ret = "error"
        BY <2>1, <2>2, <2>3, <3>1, <3>2 DEF Untouched, SameConn
      <4> QED
        BY <1>8, <3>2, <4>1 DEF Untouched, Rets
    <3>3. CASE FreeSths(x) # {}
      <4>1. r = p /\ s \in Sths
        BY <1>4, <2>1, <2>3, <3>3
      <4>2. Within(x, s, r.db)
        BY <2>2, <3>1, <3>3, <4>1, WithinWithin
      <4>3. Steady(x) => NewOpened(x, s, r.db, r.ret)
        BY <1>4, <2>2, <3>1, <3>3, <4>1 DEF NewOpened
      <4>4. NewRun(x.st[s], kind, a, r.db.st[s], r.ret)
        BY <2>2, <3>1, <3>3, <4>1 DEF NewRun, Untouched
      <4> QED
        BY <1>0, <1>8, <3>1, <3>3, <4>1, <4>2, <4>3, <4>4 DEF Within, Rets
    <3> QED
      BY <3>2, <3>3
  <2>4. CASE p.ret = "ok"
    <3>1. r \in Reopen(p.db, s, a)
      BY <2>1, <2>4
    <3>2. /\ FreeSths(w) # {} /\ s \in Sths
          /\ r.ret \in Rets /\ Within(w, s, r.db) /\ r.db \in Sound
          /\ "bind" \notin Faults => NewOpened(w, s, r.db, r.ret)
          /\ "bind" \notin Faults /\ w.busy # s =>
               NewRun(w.st[s], kind, a, r.db.st[s], r.ret)
      BY <2>2, <2>4, <3>1, NewOpenedIs
    <3>3. Within(x, s, r.db)
      BY <2>2, <3>2, WithinWithin
    <3>4. Steady(x) => NewOpened(x, s, r.db, r.ret)
      BY <2>2, <3>2 DEF NewOpened, Steady
    <3>5. Steady(x) => NewRun(x.st[s], kind, a, r.db.st[s], r.ret)
      BY <1>4, <2>2, <3>2 DEF Steady, Untouched
    <3> QED
      BY <1>0, <1>8, <2>2, <3>2, <3>3, <3>4, <3>5 DEF Within
  <2> QED
    BY <2>3, <2>4
<1> QED
  BY <1>2, <1>6, <1>7, <1>8

\* A statement made in the place of o that was not opened.
NewMade(o, t) ==
  /\ ~t.opened /\ ~t.still /\ t.defs = o.defs /\ t.ctype = "default"
  /\ t.used => t.hp = "live"

LEMMA PrepareStmtIs ==
  ASSUME NEW x \in Sound, NEW kind \in AllKinds, NEW r \in PrepareStmt(x, kind)
  PROVE  LET s == FirstFree(x)
             t == r.db.st[s]
         IN  /\ r.ret \in {"ok", "error"} /\ r.db \in Sound /\ SameConn(x, r.db)
             /\ r.db.busy = x.busy
             /\ FreeSths(x) = {} => r.ret = "error" /\ Untouched(x, r.db)
             /\ FreeSths(x) # {} => /\ Within(x, s, r.db)
                                    /\ r.ret = "ok" => t.used /\ ~t.still
                                    /\ NewMade(x.st[s], t)
                                    /\ r.ret = "error" /\ t.used =>
                                         {"prepare", "type", "prefetch"} \cap Faults # {}
<1> DEFINE s == FirstFree(x)
<1>0. s = FirstFree(x)
  OBVIOUS
<1>1. PICK q \in StmtNew(x) :
        \/ q.ret # "ok" /\ r = q
        \/ /\ q.ret = "ok"
           /\ r \in Then(Prepare(q.db, s, kind), LAMBDA p :
                           IF kind = "query" THEN SetPrefetch(p) ELSE {Result(p, "ok")})
  BY DEF PrepareStmt, Then
<1> HIDE DEF s
<1>2. /\ q.ret \in {"ok", "error"} /\ q.db.status = q.ret /\ q.db \in Sound
      /\ FreeSths(x) = {} => q = Sets(x, "error")
      /\ FreeSths(x) # {} =>
           /\ Within(x, s, q.db) /\ q.db.busy = x.busy
           /\ q.db.st[s] = NewStmt(q.ret = "ok", x.st[s].defs)
  BY <1>0, StmtNewIs
<1>3. CASE FreeSths(x) = {}
  <2>1. 0 \in Sths /\ "error" \in Rets
    BY CursorAssumption DEF Sths, Rets
  <2>2. /\ q.ret = "error" /\ Within(x, 0, q.db) /\ q.db \in Sound
        /\ q.db.st = x.st /\ q.db.busy = x.busy
    BY <1>2, <1>3, <2>1, SetsIs
  <2> QED
    BY <1>1, <1>3, <2>2 DEF Untouched, Within
<1>4. CASE FreeSths(x) # {}
  <2>1. s \in Sths
    BY <1>0, <1>4, FirstFreeIn
  <2>2. x.st[s].defs \in BOOLEAN
    BY <2>1, SoundStmt DEF Stmts
  <2>3. CASE q.ret # "ok"
    <3>1. NewMade(x.st[s], q.db.st[s]) /\ ~q.db.st[s].used
      BY <1>2, <1>4, <2>2, <2>3, NewStmtIs DEF NewMade
    <3> QED
      BY <1>0, <1>1, <1>2, <1>4, <2>3, <3>1 DEF Within
  <2>4. CASE q.ret = "ok"
    <3>1. q.db.st[s] = NewStmt(TRUE, x.st[s].defs)
      BY <1>2, <1>4, <2>4
    <3>2. q.db.st[s].used /\ ~q.db.st[s].still /\ NewMade(x.st[s], q.db.st[s])
      BY <2>2, <3>1, NewStmtIs DEF NewMade
    <3>3. PICK p \in Prepare(q.db, s, kind) :
            \/ p.ret # "ok" /\ r = p
            \/ p.ret = "ok" /\ r \in IF kind = "query" THEN SetPrefetch(p.db)
                                     ELSE {Result(p.db, "ok")}
      BY <1>1, <2>4 DEF Then
    <3>4. /\ p.ret \in {"ok", "error"} /\ Within(q.db, s, p.db) /\ p.db \in Sound
          /\ p.db.busy = q.db.busy
          /\ Kept(q.db.st[s], p.db.st[s])
          /\ p.db.st[s].opened = q.db.st[s].opened /\ p.db.st[s].defs = q.db.st[s].defs
          /\ p.ret = "error" => {"prepare", "type", "prefetch"} \cap Faults # {}
      BY <1>2, <2>1, <3>3, PrepareIs
    <3>5. Within(x, s, p.db) /\ p.db.busy = x.busy
          /\ p.db.st[s].used /\ ~p.db.st[s].still
      BY <1>2, <1>4, <3>2, <3>4, WithinWithin DEF Kept
    <3>9. NewMade(x.st[s], p.db.st[s])
      BY <3>2, <3>4 DEF NewMade, Kept
    <3>6. \/ r \in Oci(p.db, "prefetch")
          \/ r.db = p.db /\ (r.ret = "ok" \/ r.ret = p.ret)
      BY <3>3, <3>4 DEF SetPrefetch, Result
    <3>7. CASE r.db = p.db /\ (r.ret = "ok" \/ r.ret = p.ret)
      BY <1>0, <1>4, <3>4, <3>5, <3>7, <3>9 DEF Within
    <3>8. CASE r \in Oci(p.db, "prefetch")
      <4>1. /\ r.ret \in {"ok", "error"}
            /\ Within(p.db, s, r.db) /\ r.db \in Sound
            /\ r.db.st = p.db.st /\ r.db.busy = p.db.busy
            /\ r.ret = "error" => {"prepare", "type", "prefetch"} \cap Faults # {}
        BY <2>1, <3>4, <3>8, OciIs
      <4>2. Within(x, s, r.db)
        BY <3>5, <4>1, WithinWithin
      <4> QED
        BY <1>0, <1>4, <3>5, <3>9, <4>1, <4>2 DEF Within
    <3> QED
      BY <3>6, <3>7, <3>8
  <2> QED
    BY <1>2, <2>3, <2>4
<1> QED
  BY <1>3, <1>4

-----------------------------------------------------------------------------
(* The calls on one statement.                                             *)

LEMMA BindByNameIs ==
  ASSUME NEW x \in Sound, NEW s \in Sths, NEW a \in Args, NEW r \in BindByName(x, s, a)
  PROVE  LET o == x.st[s]
             t == r.db.st[s]
         IN  /\ r.ret \in {"ok", "error"} /\ Within(x, s, r.db) /\ r.db \in Sound
             /\ r.db.busy = x.busy
             /\ t.used = o.used /\ t.still = o.still
             /\ Kept(o, t) /\ RunKept(o, t) /\ t.defs = o.defs
<1>1. CASE ~x.st[s].prepared
  <2>1. r = Sets(x, "error") /\ "error" \in Rets
    BY <1>1 DEF BindByName, Rets
  <2> QED
    BY <2>1, SetsIs DEF Kept, RunKept
<1>2. CASE x.st[s].prepared
  BY <1>2, BindArgvIs DEF BindByName, Kept, RunKept
<1> QED
  BY <1>1, <1>2

LEMMA DefineByPosIs ==
  ASSUME NEW x \in Sound, NEW s \in Sths, NEW r \in DefineByPos(x, s)
  PROVE  LET o == x.st[s]
             t == r.db.st[s]
         IN  /\ r.ret \in {"ok", "error"} /\ Within(x, s, r.db) /\ r.db \in Sound
             /\ r.db.busy = x.busy
             /\ t.used = o.used /\ t.still = o.still
             /\ Kept(o, t) /\ RunKept(o, t)
<1>1. CASE ~x.st[s].prepared
  <2>1. r = Sets(x, "error") /\ "error" \in Rets
    BY <1>1 DEF DefineByPos, Rets
  <2> QED
    BY <2>1, SetsIs DEF Kept, RunKept
<1>2. CASE x.st[s].prepared
  <2>1. PICK q \in Oci(x, "define") :
          \/ q.ret # "ok" /\ r = q
          \/ q.ret = "ok" /\ r = Result(PutDefs(q.db, s, TRUE), "ok")
    BY <1>2 DEF DefineByPos, Then, PutDefs
  <2>2. /\ q.ret \in {"ok", "error"} /\ Within(x, s, q.db) /\ q.db \in Sound
        /\ q.db.st = x.st /\ q.db.busy = x.busy
    BY OciIs
  <2>3. CASE q.ret # "ok"
    BY <2>1, <2>2, <2>3 DEF Kept, RunKept
  <2>4. CASE q.ret = "ok"
    <3> DEFINE y == PutDefs(q.db, s, TRUE)
    <3>0. r = Result(y, "ok")
      BY <2>1, <2>4
    <3>1. LET t == y.st[s]
              u == q.db.st[s]
          IN  Puts(q.db, s, y, t) /\ Kept(u, t) /\ RunKept(u, t)
      BY <2>2, PutDefsIs DEF Kept, RunKept
    <3> HIDE DEF y
    <3>2. /\ y \in Sound /\ Within(q.db, s, y) /\ y.busy = x.busy
          /\ y.st[s].used = x.st[s].used /\ y.st[s].still = x.st[s].still
          /\ Kept(x.st[s], y.st[s]) /\ RunKept(x.st[s], y.st[s])
          /\ r.ret = "ok" /\ r.db = y
      BY <2>2, <3>0, <3>1 DEF Puts, Result, Kept
    <3>3. Within(x, s, y)
      BY <2>2, <3>2, WithinWithin
    <3> QED
      BY <3>2, <3>3
  <2> QED
    BY <2>3, <2>4
<1> QED
  BY <1>1, <1>2

\* What sqlo_execute leaves of a prepared statement.
Run1(x, s, y, ret) ==
  LET o == x.st[s]
      t == y.st[s]
  IN  /\ y.busy = IF ret = "busy" THEN s ELSE NoSth
      /\ ret \in {"ok", "nodata"} => ~t.still
      /\ ret = "busy" => t.still /\ t.hp = "live" /\ x.nb
      /\ ret = "error" => /\ t.still = o.still /\ (o.hp # "live" \/ "execute" \in Faults)
                          /\ t.opened = o.opened
      /\ t.prepared = o.prepared /\ t.ctype = o.ctype /\ t.ran = o.ran
      /\ t.stype = o.stype /\ t.defs = o.defs /\ t.hp = o.hp
      /\ t.exec <=> ret \in {"ok", "nodata"}

PutRun(x, s, v) == PutStill(PutOpened(x, s, TRUE), s, v)

LEMMA PutRunIs ==
  ASSUME NEW x \in Sound, NEW s \in Sths, NEW v \in BOOLEAN
  PROVE  LET y == PutRun(x, s, v)
             t == y.st[s]
             o == x.st[s]
         IN  /\ Within(x, s, y) /\ y \in Sound /\ y.busy = x.busy
             /\ t.still = v /\ t.used = o.used /\ t.hp = o.hp /\ t.prepared = o.prepared
             /\ t.ctype = o.ctype /\ t.ran = o.ran
             /\ t.stype = o.stype /\ t.defs = o.defs /\ t.exec = o.exec
<1> DEFINE z == PutOpened(x, s, TRUE)
           y == PutRun(x, s, v)
<1>1. LET t == z.st[s]
          o == x.st[s]
      IN  /\ Puts(x, s, z, t)
          /\ t.used = o.used /\ t.hp = o.hp /\ t.prepared = o.prepared
          /\ t.ctype = o.ctype /\ t.ran = o.ran
          /\ t.stype = o.stype /\ t.defs = o.defs /\ t.exec = o.exec
  BY PutOpenedIs
<1>2. z \in Sound /\ Within(x, s, z) /\ z.busy = x.busy
  BY <1>1 DEF Puts
<1>3. y = PutStill(z, s, v)
  BY DEF PutRun
<1> HIDE DEF z, y
<1>5. LET t == y.st[s]
          o == z.st[s]
      IN  /\ Puts(z, s, y, t) /\ t.still = v
          /\ t.used = o.used /\ t.hp = o.hp /\ t.prepared = o.prepared
          /\ t.ctype = o.ctype /\ t.ran = o.ran
          /\ t.stype = o.stype /\ t.defs = o.defs /\ t.exec = o.exec
  BY <1>2, <1>3, PutStillIs
<1>6. y \in Sound /\ Within(z, s, y) /\ y.busy = x.busy
  BY <1>2, <1>5 DEF Puts
<1>7. Within(x, s, y)
  BY <1>2, <1>6, WithinWithin
<1> QED
  BY <1>1, <1>5, <1>6, <1>7 DEF y

\* Is the statement in slot s a cursor that was not described yet?
ToDescribe(x, s) == x.st[s].ctype # "default" /\ ~x.st[s].ran

LEMMA ExecuteIs ==
  ASSUME NEW x \in Sound, NEW s \in Sths, NEW r \in Execute(x, s)
  PROVE  LET o == x.st[s]
             t == r.db.st[s]
         IN  /\ r.ret \in Rets /\ Within(x, s, r.db) /\ r.db \in Sound
             /\ t.used = o.used
             /\ ToDescribe(x, s) =>
                  /\ t.still = o.still /\ t.hp = o.hp /\ t.ctype = o.ctype
                  /\ t.opened => o.opened \/ o.ctype = "ref"
                  /\ r.ret = "busy" => x.nb
                  /\ r.ret # "busy" => r.db.busy \in {x.busy, NoSth}
                  /\ o.ctype = "ref" => /\ r.ret # "busy" /\ r.db.busy \in {x.busy, NoSth}
                                        /\ t.exec = o.exec
             /\ ~ToDescribe(x, s) /\ ~o.prepared =>
                  r.ret = "error" /\ t = o /\ r.db.busy = x.busy
             /\ ~ToDescribe(x, s) /\ o.prepared => Run1(x, s, r.db, r.ret)
<1> DEFINE o == x.st[s]
<1>1. CASE ToDescribe(x, s)
  <2>1. PICK q \in Oci(x, "type") :
          \/ q.ret # "ok" /\ r = q
          \/ q.ret = "ok" /\ r \in DefineOutput(PutStype(q.db, s, "query"), s)
    BY <1>1 DEF Execute, Then, PutStype, ToDescribe
  <2>2. /\ q.ret \in {"ok", "error"} /\ Within(x, s, q.db) /\ q.db \in Sound
        /\ q.db.st = x.st /\ q.db.busy = x.busy
    BY OciIs
  <2>3. CASE q.ret # "ok"
    BY <1>1, <2>1, <2>2, <2>3 DEF Rets
  <2>4. CASE q.ret = "ok"
    <3> DEFINE y == PutStype(q.db, s, "query")
    <3>0. LET t == y.st[s]
              u == q.db.st[s]
          IN  /\ Puts(q.db, s, y, t) /\ t.used = u.used /\ t.still = u.still
              /\ t.ctype = u.ctype /\ t.hp = u.hp /\ t.exec = u.exec /\ t.opened = u.opened
      <4>1. "query" \in AllKinds
        BY DEF AllKinds
      <4> QED
        BY <2>2, <4>1, PutStypeIs
    <3>2. r \in DefineOutput(y, s)
      BY <2>1, <2>4
    <3> HIDE DEF y
    <3>1. /\ y \in Sound /\ Within(q.db, s, y) /\ y.busy = x.busy
          /\ y.st[s].used = o.used /\ y.st[s].still = o.still /\ y.st[s].ctype = o.ctype
          /\ y.st[s].hp = o.hp /\ y.st[s].exec = o.exec /\ y.st[s].opened = o.opened
          /\ y.nb = x.nb
      BY <2>2, <3>0 DEF Puts, Within, SameConn
    <3>3. LET t == r.db.st[s]
          IN  /\ r.ret \in Rets /\ Within(y, s, r.db) /\ r.db \in Sound
              /\ t.used = y.st[s].used /\ t.still = y.st[s].still
              /\ t.hp = y.st[s].hp /\ t.ctype = y.st[s].ctype
              /\ r.ret = "busy" => y.st[s].ctype # "ref" /\ y.nb
              /\ r.ret # "busy" => r.db.busy = NoSth \/ r.db.busy = y.busy
              /\ t.opened => y.st[s].opened \/ y.st[s].ctype = "ref"
              /\ y.st[s].ctype = "ref" => t.exec = y.st[s].exec
      BY <3>1, <3>2, DefineOutputIs DEF Described
    <3>4. Within(x, s, r.db)
      BY <2>2, <3>1, <3>3, WithinWithin
    <3> QED
      BY <1>1, <3>1, <3>3, <3>4
  <2> QED
    BY <2>3, <2>4
<1>2. CASE ~ToDescribe(x, s) /\ ~x.st[s].prepared
  BY <1>2, SetsIs DEF Execute, ToDescribe, Rets
<1>3. CASE ~ToDescribe(x, s) /\ x.st[s].prepared
  <2>1. PICK q \in ExecCall(x, s) :
          r = CASE q.ret \in {"ok", "nodata"} ->
                     Result([q.db EXCEPT !.st[s].opened = TRUE, !.st[s].still = FALSE], q.ret)
                [] q.ret = "busy" ->
                     Result([q.db EXCEPT !.st[s].opened = TRUE, !.st[s].still = TRUE], "busy")
                [] q.ret = "error" -> q
    BY <1>3 DEF Execute, ToDescribe
  <2>2. LET t == q.db.st[s]
        IN  /\ q.ret \in Rets /\ Within(x, s, q.db) /\ q.db \in Sound
            /\ q.db.busy = IF q.ret = "busy" THEN s ELSE NoSth
            /\ Kept(o, t) /\ t.prepared = o.prepared
            /\ t.stype = o.stype /\ t.defs = o.defs /\ t.opened = o.opened
            /\ t.exec <=> q.ret \in {"ok", "nodata"}
            /\ q.ret = "error" => o.hp # "live" \/ "execute" \in Faults
            /\ q.ret # "error" => o.hp = "live"
            /\ q.ret = "busy" => x.nb
    BY ExecCallIs
  <2>3. CASE q.ret = "error"
    BY <1>3, <2>1, <2>2, <2>3 DEF Run1, Kept
  <2>4. CASE q.ret # "error"
    <3> DEFINE v == q.ret = "busy"
               y == PutRun(q.db, s, v)
    <3>1. v \in BOOLEAN
      OBVIOUS
    <3>2. [q.db EXCEPT !.st[s].opened = TRUE, !.st[s].still = v] = y
      BY DEF PutRun, PutStill, PutOpened
    <3>3. r = Result([q.db EXCEPT !.st[s].opened = TRUE, !.st[s].still = v], q.ret)
      BY <2>1, <2>2, <2>4 DEF Rets
    <3>4. r.ret = q.ret /\ r.db = y
      BY <3>2, <3>3 DEF Result
    <3> HIDE DEF v
    <3>5. LET t == y.st[s]
              u == q.db.st[s]
          IN  /\ Within(q.db, s, y) /\ y \in Sound /\ y.busy = q.db.busy
              /\ t.still = v /\ t.used = u.used /\ t.hp = u.hp /\ t.prepared = u.prepared
              /\ t.ctype = u.ctype /\ t.ran = u.ran
              /\ t.stype = u.stype /\ t.defs = u.defs /\ t.exec = u.exec
      BY <2>2, <3>1, PutRunIs
    <3> HIDE DEF y
    <3>6. Within(x, s, y)
      BY <2>2, <3>5, WithinWithin
    <3> QED
      BY <1>3, <2>2, <2>4, <3>4, <3>5, <3>6 DEF Run1, Kept, v, Rets
  <2> QED
    BY <2>3, <2>4
<1> QED
  BY <1>1, <1>2, <1>3

LEMMA MarkStillIs ==
  ASSUME NEW R, NEW s \in Sths, NEW Ended, NEW r \in MarkStill(R, s, Ended),
         \A q \in R : q.db \in Sound
  PROVE  \E q \in R :
           LET o == q.db.st[s]
               t == r.db.st[s]
           IN  /\ r.ret = q.ret /\ Within(q.db, s, r.db) /\ r.db \in Sound
               /\ r.db.busy = q.db.busy
               /\ t.still <=> q.ret = "busy" \/ (o.still /\ q.ret \notin Ended)
               /\ t.used = o.used /\ t.hp = o.hp /\ t.exec = o.exec /\ t.stype = o.stype
               /\ t.opened = o.opened /\ t.defs = o.defs /\ t.ran = o.ran /\ t.ctype = o.ctype
<1>1. PICK q \in R :
        r = Result([q.db EXCEPT !.st[s].still =
                      q.ret = "busy" \/ (q.db.st[s].still /\ q.ret \notin Ended)], q.ret)
  BY DEF MarkStill
<1> DEFINE v == q.ret = "busy" \/ (q.db.st[s].still /\ q.ret \notin Ended)
           y == PutStill(q.db, s, v)
<1>2. r = Result(y, q.ret)
  BY <1>1 DEF PutStill
<1>3. r.db = y /\ r.ret = q.ret
  BY <1>2 DEF Result
<1>4. v \in BOOLEAN
  OBVIOUS
<1> HIDE DEF v
<1>5. LET t == y.st[s]
          o == q.db.st[s]
      IN  /\ Puts(q.db, s, y, t) /\ t.still = v
          /\ t.used = o.used /\ t.hp = o.hp /\ t.exec = o.exec /\ t.stype = o.stype
          /\ t.opened = o.opened /\ t.defs = o.defs /\ t.ran = o.ran /\ t.ctype = o.ctype
  BY <1>4, PutStillIs
<1> HIDE DEF y
<1> QED
  BY <1>3, <1>5 DEF v, Puts

\* What a call leaves that repeats or ends the fetch of a query.
Fetched(x, s, y, ret) ==
  LET o == x.st[s]
      t == y.st[s]
  IN  /\ y.busy = IF ret = "busy" THEN s ELSE NoSth
      /\ ret = "ok" => ~t.still
      /\ ret = "busy" => t.still /\ x.nb /\ t.hp = "live"
      /\ t.exec = o.exec /\ t.stype = o.stype
      /\ ret = "error" => o.hp # "live" \/ ~o.exec \/ "fetch" \in Faults
      /\ ret # "error" => o.exec

LEMMA FetchIs ==
  ASSUME NEW x \in Sound, NEW s \in Sths, NEW r \in Fetch(x, s)
  PROVE  LET o == x.st[s]
             t == r.db.st[s]
         IN  /\ r.ret \in Rets /\ Within(x, s, r.db) /\ r.db \in Sound /\ t.used = o.used
             /\ r.db.busy = IF r.ret = "busy" THEN s ELSE NoSth
             /\ r.ret = "ok" => ~t.still
             /\ r.ret = "busy" => t.still /\ t.hp = "live"
             /\ t.stype = o.stype
             /\ o.stype = "query" => /\ Fetched(x, s, r.db, r.ret)
                                     /\ r.ret = "nodata" => ~t.still
             /\ o.stype # "query" /\ r.ret = "error" => o.hp # "live" \/ "execute" \in Faults
             /\ o.stype # "query" /\ r.ret = "nodata" => "nodata" \in Faults
             /\ o.stype # "query" => (t.exec <=> r.ret \in {"ok", "nodata"})
             /\ r.ret = "busy" => x.nb
             /\ r.ret \in {"error", "nodata"} /\ ~o.still => ~t.still
             /\ t.opened = o.opened /\ t.defs = o.defs /\ t.ran = o.ran
             /\ t.ctype = o.ctype /\ t.hp = o.hp
<1> DEFINE o == x.st[s]
<1>1. CASE x.st[s].stype = "query"
  <2> DEFINE R == FetchCall(x, s)
             E == {"ok", "nodata"}
  <2>1. r \in MarkStill(R, s, E)
    BY <1>1 DEF Fetch
  <2>2. \A q \in R : q.db \in Sound
    BY FetchCallIs
  <2> HIDE DEF R, E
  <2>3. PICK q \in R :
          LET u == q.db.st[s]
              t == r.db.st[s]
          IN  /\ r.ret = q.ret /\ Within(q.db, s, r.db) /\ r.db \in Sound
              /\ r.db.busy = q.db.busy
              /\ t.still <=> q.ret = "busy" \/ (u.still /\ q.ret \notin E)
              /\ t.used = u.used /\ t.hp = u.hp /\ t.exec = u.exec /\ t.stype = u.stype
              /\ t.opened = u.opened /\ t.defs = u.defs /\ t.ran = u.ran /\ t.ctype = u.ctype
    BY <2>1, <2>2, MarkStillIs
  <2>4. /\ q.ret \in Rets /\ Within(x, s, q.db) /\ q.db \in Sound
        /\ q.db.busy = IF q.ret = "busy" THEN s ELSE NoSth
        /\ q.db.st[s] = o
        /\ q.ret = "error" => o.hp # "live" \/ ~o.exec \/ "fetch" \in Faults
        /\ q.ret # "error" => o.hp = "live" /\ o.exec
        /\ q.ret = "busy" => x.nb
    BY FetchCallIs DEF R
  <2>5. Within(x, s, r.db)
    BY <2>3, <2>4, WithinWithin
  <2> QED
    BY <1>1, <2>3, <2>4, <2>5 DEF Fetched, E
<1>2. CASE x.st[s].stype # "query"
  <2> DEFINE R == ExecCall(x, s)
             E == {"ok"}
  <2>1. r \in MarkStill(R, s, E)
    BY <1>2 DEF Fetch
  <2>2. \A q \in R : q.db \in Sound
    BY ExecCallIs
  <2> HIDE DEF R, E
  <2>3. PICK q \in R :
          LET u == q.db.st[s]
              t == r.db.st[s]
          IN  /\ r.ret = q.ret /\ Within(q.db, s, r.db) /\ r.db \in Sound
              /\ r.db.busy = q.db.busy
              /\ t.still <=> q.ret = "busy" \/ (u.still /\ q.ret \notin E)
              /\ t.used = u.used /\ t.hp = u.hp /\ t.exec = u.exec /\ t.stype = u.stype
              /\ t.opened = u.opened /\ t.defs = u.defs /\ t.ran = u.ran /\ t.ctype = u.ctype
    BY <2>1, <2>2, MarkStillIs
  <2>4. LET u == q.db.st[s]
        IN  /\ q.ret \in Rets /\ Within(x, s, q.db) /\ q.db \in Sound
            /\ q.db.busy = IF q.ret = "busy" THEN s ELSE NoSth
            /\ Kept(o, u) /\ u.stype = o.stype /\ u.opened = o.opened /\ u.defs = o.defs
            /\ u.exec <=> q.ret \in {"ok", "nodata"}
            /\ q.ret = "busy" => x.nb
            /\ q.ret = "error" => o.hp # "live" \/ "execute" \in Faults
            /\ q.ret # "error" => o.hp = "live"
            /\ q.ret = "nodata" => "nodata" \in Faults
    BY ExecCallIs DEF R
  <2>5. Within(x, s, r.db)
    BY <2>3, <2>4, WithinWithin
  <2> QED
    BY <1>2, <2>3, <2>4, <2>5 DEF Kept, E
<1> QED
  BY <1>1, <1>2

LEMMA QueryResultIs ==
  ASSUME NEW x \in Sound, NEW s \in Sths, NEW r \in QueryResult(x, s)
  PROVE  LET o == x.st[s]
             t == r.db.st[s]
         IN  /\ r.ret \in Rets /\ Within(x, s, r.db) /\ r.db \in Sound /\ t.used = o.used
             /\ o.stype = "query" => /\ Fetched(x, s, r.db, r.ret)
                                     /\ r.ret # "busy" /\ ~o.still => ~t.still
             /\ o.stype # "query" => r.ret = "error" /\ t.still = o.still /\ r.db.busy = x.busy
             /\ t.exec = o.exec /\ t.stype = o.stype
             /\ t.opened = o.opened /\ t.defs = o.defs /\ t.ran = o.ran
             /\ t.ctype = o.ctype /\ t.hp = o.hp
<1> DEFINE o == x.st[s]
<1>1. CASE x.st[s].stype = "query"
  <2> DEFINE R == FetchCall(x, s)
             E == {"ok"}
  <2>1. r \in MarkStill(R, s, E)
    BY <1>1 DEF QueryResult
  <2>2. \A q \in R : q.db \in Sound
    BY FetchCallIs
  <2> HIDE DEF R, E
  <2>3. PICK q \in R :
          LET u == q.db.st[s]
              t == r.db.st[s]
          IN  /\ r.ret = q.ret /\ Within(q.db, s, r.db) /\ r.db \in Sound
              /\ r.db.busy = q.db.busy
              /\ t.still <=> q.ret = "busy" \/ (u.still /\ q.ret \notin E)
              /\ t.used = u.used /\ t.hp = u.hp /\ t.exec = u.exec /\ t.stype = u.stype
              /\ t.opened = u.opened /\ t.defs = u.defs /\ t.ran = u.ran /\ t.ctype = u.ctype
    BY <2>1, <2>2, MarkStillIs
  <2>4. /\ q.ret \in Rets /\ Within(x, s, q.db) /\ q.db \in Sound
        /\ q.db.busy = IF q.ret = "busy" THEN s ELSE NoSth
        /\ q.db.st[s] = o
        /\ q.ret = "error" => o.hp # "live" \/ ~o.exec \/ "fetch" \in Faults
        /\ q.ret # "error" => o.hp = "live" /\ o.exec
        /\ q.ret = "busy" => x.nb
    BY FetchCallIs DEF R
  <2>5. Within(x, s, r.db)
    BY <2>3, <2>4, WithinWithin
  <2> QED
    BY <1>1, <2>3, <2>4, <2>5 DEF Fetched, E
<1>2. CASE x.st[s].stype # "query"
  <2>1. r = Sets(x, "error") /\ "error" \in Rets
    BY <1>2 DEF QueryResult, Rets
  <2> QED
    BY <1>2, <2>1, SetsIs
<1> QED
  BY <1>1, <1>2

\* The cursor in slot n of the statement in slot s.
PutCursor(y, n, s, ctype) ==
  [y EXCEPT !.st[n].ctype = ctype, !.st[n].prepared = TRUE, !.st[n].exec = ctype = "ref",
            !.st[s].defs = @ \/ ctype = "ntable"]

\* From x to y no statement has changed but those in the slots n and s.
Others(x, y, n, s) == \A u \in Sths : u \notin {n, s} => y.st[u] = x.st[u]

LEMMA PutCursorIs ==
  ASSUME NEW y \in Sound, NEW n \in Sths, NEW s \in Sths, n # s,
         NEW ctype \in {"ref", "ntable"}
  PROVE  LET z == PutCursor(y, n, s, ctype)
         IN  /\ z \in Sound /\ SameConn(y, z) /\ z.busy = y.busy
             /\ Others(y, z, n, s)
             /\ z.st[n].used = y.st[n].used /\ z.st[n].still = y.st[n].still
             /\ z.st[n].ctype = ctype
             /\ z.st[n].opened = y.st[n].opened /\ z.st[n].defs = y.st[n].defs
             /\ z.st[n].hp = y.st[n].hp /\ (ctype = "ref" => z.st[n].exec)
             /\ z.st[s].used = y.st[s].used /\ z.st[s].still = y.st[s].still
             /\ z.st[s].ctype = y.st[s].ctype
             /\ Kept(y.st[s], z.st[s]) /\ RunKept(y.st[s], z.st[s])
             /\ ctype # "ntable" => z.st[s].defs = y.st[s].defs
<1> DEFINE e == ctype = "ref"
           d == y.st[s].defs \/ ctype = "ntable"
           t == [y.st[n] EXCEPT !.ctype = ctype, !.prepared = TRUE, !.exec = e]
           v == [y.st[s] EXCEPT !.defs = d]
           F == [y.st EXCEPT ![n] = t, ![s] = v]
           z == PutCursor(y, n, s, ctype)
<1>1. /\ y \in Dbs /\ y.st \in [Sths -> Stmts] /\ y.st[n] \in Stmts /\ y.st[s] \in Stmts
      /\ ~y.st[n].used => y.st[n].hp # "live"
      /\ ~y.st[s].used => y.st[s].hp # "live"
      /\ e \in BOOLEAN /\ d \in BOOLEAN
  BY SoundStmt
<1>2. z = [y EXCEPT !.st[n].ctype = ctype, !.st[n].prepared = TRUE, !.st[n].exec = e,
                    !.st[s].defs = d]
  BY DEF PutCursor
<1> HIDE DEF e, d
<1>3. z = [y EXCEPT !.st = F]
  <2>1. y \in Dbs /\ n # s
    BY <1>1
  <2> DEFINE w == [y EXCEPT !.st[n] = t]
             w1 == [y EXCEPT !.st[n].ctype = ctype, !.st[n].prepared = TRUE, !.st[n].exec = e]
  <2>11. w1 = w
    BY <2>1 DEF Dbs, Stmts
  <2>12. z = [w1 EXCEPT !.st[s].defs = d]
    BY <1>2
  <2>2. z = [w EXCEPT !.st[s].defs = d]
    BY <2>11, <2>12
  <2>3. w.st[s] = y.st[s]
    BY <2>1 DEF Dbs
  <2>4. [w EXCEPT !.st[s].defs = d] = [w EXCEPT !.st[s] = [w.st[s] EXCEPT !.defs = d]]
    BY <2>1 DEF Dbs, Stmts
  <2>5. z = [w EXCEPT !.st[s] = v]
    BY <2>2, <2>3, <2>4
  <2> HIDE DEF t, v
  <2>6. [w EXCEPT !.st[s] = v] = [y EXCEPT !.st = F]
    BY <2>1 DEF Dbs
  <2> QED
    BY <2>5, <2>6
<1>4. /\ t \in Stmts /\ t.used = y.st[n].used /\ t.still = y.st[n].still /\ t.hp = y.st[n].hp
      /\ t.ctype = ctype
      /\ v \in Stmts /\ v.used = y.st[s].used /\ v.still = y.st[s].still /\ v.hp = y.st[s].hp
      /\ v.ctype = y.st[s].ctype
  <2>1. t \in Stmts
    BY <1>1 DEF Stmts
  <2>2. t.used = y.st[n].used /\ t.still = y.st[n].still /\ t.hp = y.st[n].hp /\ t.ctype = ctype
    BY <1>1 DEF Stmts
  <2>3. v \in Stmts
    BY <1>1 DEF Stmts
  <2>4. /\ v.used = y.st[s].used /\ v.still = y.st[s].still /\ v.hp = y.st[s].hp
        /\ v.ctype = y.st[s].ctype
    BY <1>1 DEF Stmts
  <2> QED
    BY <2>1, <2>2, <2>3, <2>4
<1>40. t.opened = y.st[n].opened /\ t.defs = y.st[n].defs /\ t.exec = e
  BY <1>1 DEF Stmts
<1>41. Kept(y.st[s], v) /\ RunKept(y.st[s], v) /\ v.defs = d
  BY <1>1 DEF Stmts, Kept, RunKept
<1>42. (ctype = "ref" => e) /\ (ctype # "ntable" => d = y.st[s].defs)
  BY <1>1 DEF e, d, Stmts
<1> HIDE DEF t, v, z
<1>5. /\ F \in [Sths -> Stmts] /\ F[n] = t /\ F[s] = v
      /\ \A u \in Sths : u \notin {n, s} => F[u] = y.st[u]
  BY <1>1, <1>4
<1> HIDE DEF F
<1>6. z \in Dbs /\ z.st = F /\ z.busy = y.busy /\ SameConn(y, z)
  BY <1>1, <1>3, <1>5 DEF Dbs, SameConn
<1>7. FreeClean(z)
  BY <1>1, <1>4, <1>5, <1>6 DEF FreeClean, Sound
<1>8. z \in Sound
  BY <1>6, <1>7 DEF Sound
<1> QED
  <2>1. z.st[n] = t /\ z.st[s] = v /\ Others(y, z, n, s)
    BY <1>5, <1>6 DEF Others
  <2>2. /\ Kept(y.st[s], z.st[s]) /\ RunKept(y.st[s], z.st[s])
        /\ ctype # "ntable" => z.st[s].defs = y.st[s].defs
        /\ ctype = "ref" => z.st[n].exec
    BY <1>40, <1>41, <1>42, <2>1
  <2> QED
    BY <1>4, <1>40, <1>6, <1>8, <2>1, <2>2 DEF z

\* A slot that is free but prepared would become the cursor of itself.
LEMMA PutSelfIs ==
  ASSUME NEW y \in Sound, NEW s \in Sths, NEW ctype \in {"ref", "ntable"}
  PROVE  LET z == PutCursor(y, s, s, ctype)
         IN  z \in Sound /\ SameConn(y, z) /\ z.busy = y.busy
<1> DEFINE e == ctype = "ref"
           d == y.st[s].defs \/ ctype = "ntable"
           t == [y.st[s] EXCEPT !.ctype = ctype, !.prepared = TRUE, !.exec = e, !.defs = d]
           F == [y.st EXCEPT ![s] = t]
           z == PutCursor(y, s, s, ctype)
<1>1. /\ y \in Dbs /\ y.st \in [Sths -> Stmts] /\ y.st[s] \in Stmts
      /\ ~y.st[s].used => y.st[s].hp # "live"
      /\ e \in BOOLEAN /\ d \in BOOLEAN
  BY SoundStmt
<1>2. z = [y EXCEPT !.st[s].ctype = ctype, !.st[s].prepared = TRUE, !.st[s].exec = e,
                    !.st[s].defs = d]
  BY <1>1 DEF PutCursor, Dbs, Stmts
<1> HIDE DEF e, d
<1>3. z = [y EXCEPT !.st = F]
  <2> DEFINE o1 == [y.st[s] EXCEPT !.ctype = ctype]
             o2 == [o1 EXCEPT !.prepared = TRUE]
             o3 == [o2 EXCEPT !.exec = e]
             o4 == [o3 EXCEPT !.defs = d]
             w1 == [y EXCEPT !.st = [y.st EXCEPT ![s] = o1]]
             w2 == [y EXCEPT !.st = [y.st EXCEPT ![s] = o2]]
             w3 == [y EXCEPT !.st = [y.st EXCEPT ![s] = o3]]
             w4 == [y EXCEPT !.st = [y.st EXCEPT ![s] = o4]]
  <2>1. [y EXCEPT !.st[s].ctype = ctype] = w1
    BY <1>1 DEF Dbs
  <2>2. F = [y.st EXCEPT ![s] = o4]
    OBVIOUS
  <2> HIDE DEF o1
  <2>3. w1.st[s] = o1 /\ [w1 EXCEPT !.st[s] = o2] = w2
    BY <1>1 DEF Dbs
  <2>4. [w1 EXCEPT !.st[s].prepared = TRUE] = w2
    <3> HIDE DEF w1, w2
    <3> QED
      BY <2>3
  <2> HIDE DEF o2
  <2>5. w2.st[s] = o2 /\ [w2 EXCEPT !.st[s] = o3] = w3
    BY <1>1 DEF Dbs
  <2>6. [w2 EXCEPT !.st[s].exec = e] = w3
    <3> HIDE DEF w2, w3
    <3> QED
      BY <2>5
  <2> HIDE DEF o3
  <2>7. w3.st[s] = o3 /\ [w3 EXCEPT !.st[s] = o4] = w4
    BY <1>1 DEF Dbs
  <2>8. [w3 EXCEPT !.st[s].defs = d] = w4
    <3> HIDE DEF w3, w4
    <3> QED
      BY <2>7
  <2>9. z = w4
    <3> HIDE DEF w1, w2, w3, w4, z
    <3> QED
      BY <1>2, <2>1, <2>4, <2>6, <2>8
  <2> QED
    BY <2>2, <2>9
<1>4. t \in Stmts /\ t.used = y.st[s].used /\ t.hp = y.st[s].hp
  BY <1>1 DEF Stmts
<1> HIDE DEF t, z
<1>5. F \in [Sths -> Stmts] /\ F[s] = t /\ \A u \in Sths : u # s => F[u] = y.st[u]
  BY <1>1, <1>4
<1> HIDE DEF F
<1>6. z \in Dbs /\ z.st = F /\ z.busy = y.busy /\ SameConn(y, z)
  BY <1>1, <1>3, <1>5 DEF Dbs, SameConn
<1>7. FreeClean(z)
  BY <1>1, <1>4, <1>5, <1>6 DEF FreeClean, Sound
<1> QED
  BY <1>6, <1>7 DEF Sound, z

\* A cursor made in the place of o, and the statement that gives it.
CursorMade(o, t) ==
  /\ ~t.opened /\ ~t.still /\ t.defs = o.defs
  /\ t.used => t.hp = "live"
  /\ t.ctype = "ref" => t.exec
GaveCursor(o, t, ctype) ==
  Kept(o, t) /\ RunKept(o, t) /\ (ctype # "ntable" => t.defs = o.defs)

LEMMA NewCursorIs ==
  ASSUME NEW x \in Sound, NEW s \in Sths, NEW ctype \in {"ref", "ntable"},
         NEW r \in NewCursor(x, s, ctype)
  PROVE  LET n == FirstFree(x)
             y == r.db
         IN  /\ r.ret \in {"ok", "error"} /\ y \in Sound /\ SameConn(x, y) /\ y.busy = x.busy
             /\ \/ ~x.st[s].used
                \/ r.ret = "error" /\ y.st = x.st
                \/ /\ FreeSths(x) # {} /\ n \in Sths /\ n # s
                   /\ Others(x, y, n, s)
                   /\ r.ret = "ok" => y.st[n].used /\ ~y.st[n].still
                   /\ y.st[n].ctype \in {"default", ctype}
                   /\ y.st[s].used /\ y.st[s].still = x.st[s].still
                   /\ y.st[s].ctype = x.st[s].ctype
                   /\ CursorMade(x.st[n], y.st[n]) /\ GaveCursor(x.st[s], y.st[s], ctype)
                   /\ y.st[n].used /\ r.ret # "ok" =>
                        (IF ctype = "ref" THEN "bind" ELSE "define") \in Faults
<1> DEFINE n == FirstFree(x)
<1>0. n = FirstFree(x)
  OBVIOUS
<1>1. CASE ~x.st[s].prepared
  <2>1. r = Sets(x, "error") /\ "error" \in Rets
    BY <1>1 DEF NewCursor, Rets
  <2> QED
    BY <2>1, SetsIs DEF Within
<1>2. CASE x.st[s].prepared
  <2>1. PICK q \in StmtNew(x) :
          \/ q.ret # "ok" /\ r = q
          \/ /\ q.ret = "ok"
             /\ r \in Then(Oci(q.db, IF ctype = "ref" THEN "bind" ELSE "define"),
                           LAMBDA y : {Result(PutCursor(y, n, s, ctype), "ok")})
    BY <1>2 DEF NewCursor, Then, PutCursor
  <2> DEFINE l == IF ctype = "ref" THEN "bind" ELSE "define"
  <2> HIDE DEF l
  <2> HIDE DEF n
  <2>2. /\ q.ret \in {"ok", "error"} /\ q.db.status = q.ret /\ q.db \in Sound
        /\ FreeSths(x) = {} => q = Sets(x, "error")
        /\ FreeSths(x) # {} =>
             /\ Within(x, n, q.db) /\ q.db.busy = x.busy
             /\ q.db.st[n] = NewStmt(q.ret = "ok", x.st[n].defs)
    BY <1>0, StmtNewIs
  <2>3. CASE FreeSths(x) = {}
    <3>1. q = Sets(x, "error") /\ "error" \in Rets
      BY <2>2, <2>3 DEF Rets
    <3>2. /\ q.ret = "error" /\ Within(x, s, q.db) /\ q.db \in Sound
          /\ q.db.st = x.st /\ q.db.busy = x.busy
      BY <3>1, SetsIs
    <3> QED
      BY <2>1, <3>2 DEF Within
  <2>4. CASE FreeSths(x) # {} /\ ~x.st[s].used
    <3>1. n \in Sths
      BY <1>0, <2>4, FirstFreeIn
    <3>2. Within(x, n, q.db) /\ q.db.busy = x.busy
      BY <2>2, <2>4
    <3>3. CASE q.ret # "ok"
      BY <2>1, <2>2, <2>4, <3>2, <3>3 DEF Within
    <3>4. CASE q.ret = "ok"
      <4>1. PICK p \in Oci(q.db, l) :
              \/ p.ret # "ok" /\ r = p
              \/ p.ret = "ok" /\ r = Result(PutCursor(p.db, n, s, ctype), "ok")
        BY <2>1, <3>4 DEF l, Then
      <4>2. /\ p.ret \in {"ok", "error"}
            /\ Within(q.db, n, p.db) /\ p.db \in Sound /\ p.db.busy = q.db.busy
        BY <2>2, <3>1, OciIs
      <4>3. SameConn(x, p.db)
        BY <3>2, <4>2 DEF Within, SameConn
      <4>4. CASE p.ret # "ok"
        BY <2>4, <3>2, <4>1, <4>2, <4>3, <4>4
      <4>5. CASE p.ret = "ok"
        <5> DEFINE w == p.db
                   z == PutCursor(w, n, s, ctype)
        <5>1. r.ret = "ok" /\ r.db = z /\ w \in Sound
          BY <4>1, <4>2, <4>5 DEF Result
        <5> HIDE DEF w
        <5>4. z \in Sound /\ SameConn(w, z) /\ z.busy = w.busy
          <6>1. n = s => z \in Sound /\ SameConn(w, z) /\ z.busy = w.busy
            <7> SUFFICES ASSUME n = s
                         PROVE  z \in Sound /\ SameConn(w, z) /\ z.busy = w.busy
              OBVIOUS
            <7>1. z = PutCursor(w, s, s, ctype)
              OBVIOUS
            <7> HIDE DEF z
            <7> QED
              BY <5>1, <7>1, PutSelfIs
          <6>2. n # s => z \in Sound /\ SameConn(w, z) /\ z.busy = w.busy
            BY <3>1, <5>1, PutCursorIs
          <6> QED
            BY <6>1, <6>2
        <5> HIDE DEF z
        <5>5. SameConn(x, z) /\ z.busy = x.busy
          BY <3>2, <4>2, <4>3, <5>4 DEF SameConn, w
        <5> QED
          BY <2>4, <5>1, <5>4, <5>5
      <4> QED
        BY <4>2, <4>4, <4>5
    <3> QED
      BY <2>2, <3>3, <3>4
  <2>5. CASE FreeSths(x) # {} /\ x.st[s].used
    <3>1. n \in Sths /\ n # s
      BY <1>0, <2>5, FirstFreeIn
    <3>2. x.st[n].defs \in BOOLEAN
      BY <3>1, SoundStmt DEF Stmts
    <3>3. LET t == NewStmt(q.ret = "ok", x.st[n].defs)
          IN  t.used = (q.ret = "ok") /\ ~t.still /\ t.ctype = "default"
              /\ CursorMade(x.st[n], t)
      BY <3>2, NewStmtIs DEF CursorMade
    <3>4. /\ q.db.st[n].used = (q.ret = "ok") /\ ~q.db.st[n].still
          /\ q.db.st[n].ctype = "default" /\ CursorMade(x.st[n], q.db.st[n])
          /\ q.db.st[s] = x.st[s] /\ GaveCursor(x.st[s], q.db.st[s], ctype)
      BY <2>2, <2>5, <3>1, <3>3 DEF Within, GaveCursor, Kept, RunKept
    <3>5. CASE q.ret # "ok"
      BY <1>0, <2>1, <2>2, <2>5, <3>1, <3>4, <3>5 DEF Within, Others
    <3>6. CASE q.ret = "ok"
      <4>1. PICK p \in Oci(q.db, l) :
              \/ p.ret # "ok" /\ r = p
              \/ p.ret = "ok" /\ r = Result(PutCursor(p.db, n, s, ctype), "ok")
        BY <2>1, <3>6 DEF l, Then
      <4>2. /\ p.ret \in {"ok", "error"}
            /\ Within(q.db, n, p.db) /\ p.db \in Sound
            /\ p.db.st = q.db.st /\ p.db.busy = q.db.busy
            /\ p.ret = "error" => l \in Faults
        BY <2>2, <3>1, OciIs
      <4>3. Within(x, n, p.db)
        BY <2>2, <2>5, <4>2, WithinWithin
      <4>4. CASE p.ret # "ok"
        BY <1>0, <2>2, <2>5, <3>1, <3>4, <4>1, <4>2, <4>3, <4>4 DEF Within, Others, l
      <4>5. CASE p.ret = "ok"
        <5> DEFINE w == p.db
                   z == PutCursor(w, n, s, ctype)
        <5>1. r = Result(z, "ok") /\ w \in Sound /\ n \in Sths /\ n # s
          BY <3>1, <4>1, <4>2, <4>5
        <5>2. r.ret = "ok" /\ r.db = z
          BY <5>1 DEF Result
        <5> HIDE DEF w
        <5>3. /\ z \in Sound /\ SameConn(w, z) /\ z.busy = w.busy
              /\ Others(w, z, n, s)
              /\ z.st[n].used = w.st[n].used /\ z.st[n].still = w.st[n].still
              /\ z.st[n].ctype = ctype
              /\ z.st[n].opened = w.st[n].opened /\ z.st[n].defs = w.st[n].defs
              /\ z.st[n].hp = w.st[n].hp /\ (ctype = "ref" => z.st[n].exec)
              /\ z.st[s].used = w.st[s].used /\ z.st[s].still = w.st[s].still
              /\ z.st[s].ctype = w.st[s].ctype
              /\ Kept(w.st[s], z.st[s]) /\ RunKept(w.st[s], z.st[s])
              /\ ctype # "ntable" => z.st[s].defs = w.st[s].defs
          BY <5>1, PutCursorIs, SMTT(20)
        <5> HIDE DEF z
        <5>4. /\ w.st[n].used /\ ~w.st[n].still /\ w.st[s] = x.st[s] /\ w.busy = x.busy
              /\ CursorMade(x.st[n], w.st[n])
              /\ \A u \in Sths : u # n => w.st[u] = x.st[u]
              /\ SameConn(x, w)
          BY <2>2, <2>5, <3>1, <3>4, <3>6, <4>2, <4>3 DEF w, Within
        <5>5. SameConn(x, z) /\ z.busy = x.busy
          BY <5>3, <5>4 DEF SameConn
        <5>6. /\ Others(x, z, n, s)
              /\ z.st[n].used /\ ~z.st[n].still /\ z.st[n].ctype \in {"default", ctype}
              /\ z.st[s].used /\ z.st[s].still = x.st[s].still
              /\ z.st[s].ctype = x.st[s].ctype
          BY <2>5, <5>3, <5>4 DEF Others
        <5>7. CursorMade(x.st[n], z.st[n])
          <6>1. z.st[n].ctype = "ref" => z.st[n].exec
            BY <5>3
          <6> QED
            BY <5>3, <5>4, <6>1 DEF CursorMade
        <5>8. GaveCursor(x.st[s], z.st[s], ctype)
          BY <5>3, <5>4 DEF GaveCursor
        <5> QED
          BY <1>0, <2>5, <3>1, <5>2, <5>3, <5>5, <5>6, <5>7, <5>8
      <4> QED
        BY <4>2, <4>4, <4>5
    <3> QED
      BY <2>2, <3>5, <3>6
  <2> QED
    BY <2>3, <2>4, <2>5
<1> QED
  BY <1>1, <1>2

-----------------------------------------------------------------------------
(* sqlo_exec: no statement structure is touched.                           *)

\* From x to y no statement has changed, and no handle on which a call goes on
\* but that of sqlo_exec.
Apart(x, y) ==
  /\ y \in Sound /\ y.st = x.st
  /\ y.up = x.up /\ y.nb = x.nb /\ y.auto = x.auto
  /\ y.busy \in {x.busy, ExecHandle, NoSth}

LEMMA ApartTwice ==
  ASSUME NEW x, NEW y, NEW z, Apart(x, y), Apart(y, z)
  PROVE  Apart(x, z)
BY DEF Apart

PutExec(x, v, b, h, t, n) ==
  [x EXCEPT !.status = v, !.busy = b, !.xhp = h, !.xstmt = t, !.xran = n]

LEMMA PutExecIs ==
  ASSUME NEW x \in Sound, NEW v \in Rets, NEW b \in {x.busy, ExecHandle, NoSth},
         NEW h \in {"null", "live", "dead"}, NEW t \in Statements \union {NoStmt},
         NEW n \in Statements \union {NoStmt, "dead", "unparsed"}
  PROVE  Apart(x, PutExec(x, v, b, h, t, n))
<1> DEFINE y == PutExec(x, v, b, h, t, n)
<1>1. x \in Dbs /\ FreeClean(x)
  BY DEF Sound
<1>2. /\ y \in Dbs /\ y.st = x.st /\ y.up = x.up /\ y.nb = x.nb /\ y.auto = x.auto /\ y.busy = b
  BY <1>1, ZenonT(30) DEF Dbs, PutExec
<1> HIDE DEF y
<1>3. y \in Sound
  BY <1>1, <1>2 DEF Sound, FreeClean
<1> QED
  BY <1>2, <1>3 DEF Apart, y

LEMMA ExecParts ==
  ASSUME NEW x \in Sound
  PROVE  /\ \A n \in Statements \union {NoStmt, "dead", "unparsed"} :
              Apart(x, [x EXCEPT !.xran = n])
         /\ \A t \in Statements \union {NoStmt} : Apart(x, [x EXCEPT !.xstmt = t])
         /\ Apart(x, [x EXCEPT !.xhp = "live"])
         /\ Apart(x, ExecFree(x))
         /\ \A v \in Rets, b \in {ExecHandle, NoSth} :
              Apart(x, [x EXCEPT !.status = v, !.busy = b])
<1>1. /\ x \in Dbs /\ x.status \in Rets /\ x.xhp \in {"null", "live", "dead"}
      /\ x.xstmt \in Statements \union {NoStmt}
      /\ x.xran \in Statements \union {NoStmt, "dead", "unparsed"}
      /\ x.busy \in {x.busy, ExecHandle, NoSth}
  BY DEF Sound, Dbs
<1>2. ASSUME NEW n \in Statements \union {NoStmt, "dead", "unparsed"}
      PROVE  Apart(x, [x EXCEPT !.xran = n])
  <2>1. [x EXCEPT !.xran = n] = PutExec(x, x.status, x.busy, x.xhp, x.xstmt, n)
    BY <1>1 DEF Dbs, PutExec
  <2>2. Apart(x, PutExec(x, x.status, x.busy, x.xhp, x.xstmt, n))
    BY <1>1, PutExecIs
  <2> QED
    BY <2>1, <2>2, Zenon
<1>3. ASSUME NEW t \in Statements \union {NoStmt}
      PROVE  Apart(x, [x EXCEPT !.xstmt = t])
  <2>1. [x EXCEPT !.xstmt = t] = PutExec(x, x.status, x.busy, x.xhp, t, x.xran)
    BY <1>1 DEF Dbs, PutExec
  <2>2. Apart(x, PutExec(x, x.status, x.busy, x.xhp, t, x.xran))
    BY <1>1, PutExecIs
  <2> QED
    BY <2>1, <2>2, Zenon
<1>4. Apart(x, [x EXCEPT !.xhp = "live"])
  <2>1. [x EXCEPT !.xhp = "live"] = PutExec(x, x.status, x.busy, "live", x.xstmt, x.xran)
    BY <1>1 DEF Dbs, PutExec
  <2>2. Apart(x, PutExec(x, x.status, x.busy, "live", x.xstmt, x.xran))
    BY <1>1, PutExecIs
  <2> QED
    BY <2>1, <2>2, Zenon
<1>5. Apart(x, ExecFree(x))
  <2>1. ExecFree(x) = PutExec(x, x.status, x.busy, "null", NoStmt, x.xran)
    BY <1>1 DEF Dbs, PutExec, ExecFree
  <2>2. Apart(x, PutExec(x, x.status, x.busy, "null", NoStmt, x.xran))
    BY <1>1, PutExecIs
  <2> QED
    BY <2>1, <2>2, Zenon
<1>6. ASSUME NEW v \in Rets, NEW b \in {ExecHandle, NoSth}
      PROVE  Apart(x, [x EXCEPT !.status = v, !.busy = b])
  <2>1. [x EXCEPT !.status = v, !.busy = b] = PutExec(x, v, b, x.xhp, x.xstmt, x.xran)
    BY <1>1 DEF Dbs, PutExec
  <2>2. Apart(x, PutExec(x, v, b, x.xhp, x.xstmt, x.xran))
    BY <1>1, PutExecIs
  <2> QED
    BY <2>1, <2>2, Zenon
<1> QED
  BY <1>2, <1>3, <1>4, <1>5, <1>6

LEMMA OciApart ==
  ASSUME NEW x \in Sound, NEW l, NEW r \in Oci(x, l)
  PROVE  /\ r.ret \in {"ok", "error"} /\ (r.ret = "error" => l \in Faults)
         /\ r.db \in Sound /\ Apart(x, r.db)
         /\ r.db.xhp = x.xhp /\ r.db.xstmt = x.xstmt /\ r.db.xran = x.xran
<1>1. 0 \in Sths
  BY CursorAssumption DEF Sths
<1> QED
  BY <1>1, OciIs DEF Apart, Within, SameConn

LEMMA ExecFreeIs ==
  ASSUME NEW x \in Sound
  PROVE  LET y == ExecFree(x)
         IN  /\ Apart(x, y) /\ y \in Sound
             /\ y.xhp = "null" /\ y.xstmt = NoStmt /\ y.xran = x.xran
<1>1. x \in Dbs
  BY DEF Sound
<1>2. /\ ExecFree(x).xhp = "null" /\ ExecFree(x).xstmt = NoStmt
      /\ ExecFree(x).xran = x.xran
  BY <1>1 DEF Dbs, ExecFree
<1>3. Apart(x, ExecFree(x))
  BY ExecParts
<1> QED
  BY <1>2, <1>3 DEF Apart

\* Before and after sqlo_exec is called with stmt: the handle it finds has stmt
\* on it, if any; it has run stmt, and left a handle only if stmt goes on.
ExecHeld(x, stmt) == x.xhp = "null" \/ (x.xhp = "live" /\ x.xstmt = stmt)
ExecDone(y, stmt, ret) ==
  /\ y.xran \in {NoStmt, stmt}
  /\ y.xhp # "null" => ret = "busy" /\ y.nb /\ y.xhp = "live" /\ y.xstmt = stmt

\* The row count, and the end of the handle.
ExecEnd(z) ==
  UNION {IF c.ret = "error" THEN {Result(ExecFree(c.db), "error")}
         ELSE Then(Oci(c.db, "free"), LAMBDA f : {Result(ExecFree(f), "ok")}) :
           c \in Oci(z, "attr")}

LEMMA ExecEndIs ==
  ASSUME NEW x \in Sound, NEW r \in ExecEnd(x)
  PROVE  /\ r.ret \in Rets \ {"busy"} /\ r.db \in Sound /\ Apart(x, r.db)
         /\ "free" \notin Faults => r.db.xhp = "null" /\ r.db.xran = x.xran
<1>1. PICK c \in Oci(x, "attr") :
        \/ r = Result(ExecFree(c.db), "error")
        \/ r \in Then(Oci(c.db, "free"), LAMBDA f : {Result(ExecFree(f), "ok")})
  BY DEF ExecEnd
<1>2. c.db \in Sound /\ Apart(x, c.db) /\ c.db.xran = x.xran
  BY <1>1, OciApart
<1>3. CASE r = Result(ExecFree(c.db), "error")
  <2>1. r.db = ExecFree(c.db) /\ r.ret = "error"
    BY <1>3 DEF Result
  <2>2. /\ Apart(c.db, ExecFree(c.db))
        /\ ExecFree(c.db).xhp = "null" /\ ExecFree(c.db).xran = x.xran
    BY <1>2, ExecFreeIs
  <2>3. Apart(x, r.db)
    BY <1>2, <2>1, <2>2, ApartTwice
  <2> QED
    BY <2>1, <2>2, <2>3 DEF Rets, Apart
<1>4. CASE r \in Then(Oci(c.db, "free"), LAMBDA f : {Result(ExecFree(f), "ok")})
  <2>1. PICK f \in Oci(c.db, "free") :
          \/ f.ret # "ok" /\ r = f
          \/ f.ret = "ok" /\ r = Result(ExecFree(f.db), "ok")
    BY <1>4 DEF Then
  <2>2. /\ f.ret \in {"ok", "error"} /\ f.db \in Sound /\ Apart(c.db, f.db)
        /\ f.ret = "error" => "free" \in Faults
        /\ f.db.xran = x.xran
    BY <1>2, <2>1, OciApart
  <2>3. Apart(x, f.db)
    BY <1>2, <2>2, ApartTwice
  <2>4. /\ Apart(f.db, ExecFree(f.db))
        /\ ExecFree(f.db).xhp = "null" /\ ExecFree(f.db).xran = x.xran
    BY <2>2, ExecFreeIs
  <2>5. Apart(x, ExecFree(f.db))
    BY <2>3, <2>4, ApartTwice
  <2>6. \/ r = f /\ f.ret # "ok"
        \/ r.ret = "ok" /\ r.db = ExecFree(f.db)
    BY <2>1 DEF Result
  <2> QED
    BY <2>2, <2>3, <2>4, <2>5, <2>6 DEF Rets, Apart
<1> QED
  BY <1>1, <1>3, <1>4

LEMMA ExecRunIs ==
  ASSUME NEW x \in Sound, NEW r \in ExecRun(x)
  PROVE  /\ r.ret \in Rets /\ r.db \in Sound /\ Apart(x, r.db)
         /\ r.ret = "busy" => x.nb
         /\ x.xhp = "live" /\ x.xstmt # NoStmt /\ "free" \notin Faults =>
              ExecDone(r.db, x.xstmt, r.ret)
<1> DEFINE n == IF x.xhp # "live" THEN "dead" ELSE IF x.xstmt = NoStmt THEN "unparsed" ELSE x.xstmt
           y == [x EXCEPT !.xran = n]
           z(a, b) == [y EXCEPT !.status = a, !.busy = b]
<1>1. \E a \in Rets : \E b \in {ExecHandle, NoSth} :
        \/ r \in ExecEnd(z(a, b))
        \/ r = Result(z(a, b), "busy") /\ x.nb
        \/ r = Result(ExecFree(z(a, b)), a) /\ a # "busy"
  <2> DEFINE Answer == IF x.xhp # "live" \/ x.xstmt = NoStmt THEN {"error"}
                       ELSE Answers("execute") \union (Faults \intersect {"nodata"})
                              \union (IF x.nb THEN {"busy"} ELSE {})
             b(a) == IF a = "busy" THEN ExecHandle ELSE NoSth
             R(a) == CASE a = "ok"   -> ExecEnd(z(a, b(a)))
                       [] a = "busy" -> {Result(z(a, b(a)), "busy")}
                       [] a \in {"error", "nodata"} -> {Result(ExecFree(z(a, b(a))), a)}
  <2>1. ExecRun(x) = UNION {R(a) : a \in Answer}
    BY DEF ExecRun, ExecEnd
  <2> HIDE DEF R, Answer
  <2>2. PICK a \in Answer : r \in R(a)
    BY <2>1
  <2>3. a \in Rets /\ (a = "busy" => x.nb)
    BY DEF Answer, Answers, Rets
  <2>4. b(a) \in {ExecHandle, NoSth}
    OBVIOUS
  <2> HIDE DEF b, z
  <2>5. \/ r \in ExecEnd(z(a, b(a)))
        \/ r = Result(z(a, b(a)), "busy") /\ x.nb
        \/ r = Result(ExecFree(z(a, b(a))), a) /\ a # "busy"
    BY <2>2, <2>3 DEF R, Rets
  <2> QED
    BY <2>3, <2>4, <2>5
<1>2. n \in Statements \union {NoStmt, "dead", "unparsed"}
  BY DEF Sound, Dbs
<1> HIDE DEF n
<1>10. x \in Dbs
  BY DEF Sound
<1>3. Apart(x, y) /\ y \in Sound /\ y.xran = n /\ y.xhp = x.xhp /\ y.xstmt = x.xstmt
  BY <1>2, <1>10, ExecParts DEF Apart, Dbs
<1> HIDE DEF y
<1>4. \A a \in Rets, b \in {ExecHandle, NoSth} :
        /\ Apart(x, z(a, b)) /\ z(a, b) \in Sound
        /\ z(a, b).xran = n /\ z(a, b).xhp = x.xhp /\ z(a, b).xstmt = x.xstmt
  <2> SUFFICES ASSUME NEW a \in Rets, NEW b \in {ExecHandle, NoSth}
               PROVE  /\ Apart(x, z(a, b)) /\ z(a, b) \in Sound
                      /\ z(a, b).xran = n /\ z(a, b).xhp = x.xhp /\ z(a, b).xstmt = x.xstmt
    OBVIOUS
  <2>0. y \in Dbs
    BY <1>3 DEF Sound
  <2>1. /\ Apart(y, z(a, b))
        /\ z(a, b).xran = n /\ z(a, b).xhp = x.xhp /\ z(a, b).xstmt = x.xstmt
    BY <1>3, <2>0, ExecParts DEF Dbs
  <2> HIDE DEF z
  <2> QED
    BY <1>3, <2>1, ApartTwice DEF Apart
<1> HIDE DEF z
<1>5. PICK a \in Rets, b \in {ExecHandle, NoSth} :
        \/ r \in ExecEnd(z(a, b))
        \/ r = Result(z(a, b), "busy") /\ x.nb
        \/ r = Result(ExecFree(z(a, b)), a) /\ a # "busy"
  BY <1>1
<1>6. /\ Apart(x, z(a, b)) /\ z(a, b) \in Sound
      /\ z(a, b).xran = n /\ z(a, b).xhp = x.xhp /\ z(a, b).xstmt = x.xstmt
  BY <1>4
<1>11. x.xhp = "live" /\ x.xstmt # NoStmt => n = x.xstmt
  BY DEF n
<1>7. CASE r \in ExecEnd(z(a, b))
  <2>1. /\ r.ret \in Rets \ {"busy"} /\ r.db \in Sound /\ Apart(z(a, b), r.db)
        /\ "free" \notin Faults => r.db.xhp = "null" /\ r.db.xran = n
    BY <1>6, <1>7, ExecEndIs
  <2>2. Apart(x, r.db)
    BY <1>6, <2>1, ApartTwice
  <2> QED
    BY <1>11, <2>1, <2>2 DEF ExecDone
<1>8. CASE r = Result(z(a, b), "busy") /\ x.nb
  <2>1. r.db = z(a, b) /\ r.ret = "busy"
    BY <1>8 DEF Result
  <2> QED
    BY <1>6, <1>8, <1>11, <2>1 DEF Rets, ExecDone, Apart
<1>9. CASE r = Result(ExecFree(z(a, b)), a) /\ a # "busy"
  <2>1. r.db = ExecFree(z(a, b)) /\ r.ret = a
    BY <1>9 DEF Result
  <2>2. /\ Apart(z(a, b), ExecFree(z(a, b)))
        /\ ExecFree(z(a, b)).xhp = "null" /\ ExecFree(z(a, b)).xran = n
    BY <1>6, ExecFreeIs
  <2>3. Apart(x, r.db)
    BY <1>6, <2>1, <2>2, ApartTwice
  <2> QED
    BY <1>9, <1>11, <2>1, <2>2, <2>3 DEF Apart, ExecDone
<1> QED
  BY <1>5, <1>7, <1>8, <1>9

LEMMA ExecIs ==
  ASSUME NEW x \in Sound, NEW stmt \in Statements, NEW r \in Exec(x, stmt)
  PROVE  /\ r.ret \in Rets /\ r.db \in Sound /\ Apart(x, r.db)
         /\ r.ret = "busy" => x.nb
         /\ ExecHeld(x, stmt) /\ "prepare" \notin Faults /\ "free" \notin Faults =>
              ExecDone(r.db, stmt, r.ret)
<1> DEFINE y == [x EXCEPT !.xran = NoStmt]
<1>0. stmt # NoStmt
  BY StatementNames
<1>1. /\ Apart(x, y) /\ y \in Sound
      /\ y.xran = NoStmt /\ y.xhp = x.xhp /\ y.xstmt = x.xstmt
  <2>1. x \in Dbs
    BY DEF Sound
  <2> QED
    BY <2>1, ExecParts DEF Apart, Dbs
<1>2. CASE y.xhp # "null"
  <2>1. r \in ExecRun(y)
    BY <1>2 DEF Exec
  <2> HIDE DEF y
  <2>2. /\ r.ret \in Rets /\ r.db \in Sound /\ Apart(y, r.db)
        /\ r.ret = "busy" => y.nb
        /\ y.xhp = "live" /\ y.xstmt # NoStmt /\ "free" \notin Faults =>
             ExecDone(r.db, y.xstmt, r.ret)
    BY <1>1, <2>1, ExecRunIs
  <2> QED
    BY <1>0, <1>1, <1>2, <2>2, ApartTwice DEF ExecHeld, Apart
<1>3. CASE y.xhp = "null"
  <2>1. PICK n \in Oci(y, "alloc") :
          \/ n.ret # "ok" /\ r = n
          \/ r \in Then(Oci([n.db EXCEPT !.xhp = "live"], "prepare"), LAMBDA p :
                        ExecRun([p EXCEPT !.xstmt = stmt]))
    BY <1>3 DEF Exec, Then
  <2> HIDE DEF y
  <2>2. /\ n.ret \in {"ok", "error"} /\ n.db \in Sound /\ Apart(x, n.db)
        /\ n.db.xhp = "null" /\ n.db.xran = NoStmt
    BY <1>1, <1>3, <2>1, OciApart, ApartTwice
  <2>3. CASE n.ret # "ok" /\ r = n
    BY <2>2, <2>3 DEF Rets, ExecDone
  <2>4. CASE r \in Then(Oci([n.db EXCEPT !.xhp = "live"], "prepare"), LAMBDA p :
                        ExecRun([p EXCEPT !.xstmt = stmt]))
    <3> DEFINE z == [n.db EXCEPT !.xhp = "live"]
    <3>1. Apart(n.db, z) /\ z \in Sound /\ z.xhp = "live"
      <4>1. n.db \in Dbs
        BY <2>2 DEF Sound
      <4> QED
        BY <2>2, <4>1, ExecParts DEF Apart, Dbs
    <3>2. PICK p \in Oci(z, "prepare") :
            \/ p.ret # "ok" /\ r = p
            \/ r \in ExecRun([p.db EXCEPT !.xstmt = stmt])
      BY <2>4 DEF Then
    <3> HIDE DEF z
    <3>3. /\ p.ret \in {"ok", "error"} /\ p.db \in Sound /\ Apart(z, p.db)
          /\ p.ret = "error" => "prepare" \in Faults
          /\ p.db.xhp = "live"
      BY <3>1, <3>2, OciApart
    <3>4. Apart(x, p.db)
      BY <2>2, <3>1, <3>3, ApartTwice
    <3> DEFINE w == [p.db EXCEPT !.xstmt = stmt]
    <3>5. Apart(p.db, w) /\ w \in Sound /\ w.xhp = "live" /\ w.xstmt = stmt
      <4>1. p.db \in Dbs
        BY <3>3 DEF Sound
      <4> QED
        BY <3>3, <4>1, ExecParts DEF Apart, Dbs
    <3>6. CASE p.ret # "ok" /\ r = p
      BY <3>3, <3>4, <3>6 DEF Rets
    <3>7. CASE r \in ExecRun(w)
      <4> HIDE DEF w
      <4>1. /\ r.ret \in Rets /\ r.db \in Sound /\ Apart(w, r.db)
            /\ r.ret = "busy" => w.nb
            /\ w.xhp = "live" /\ w.xstmt # NoStmt /\ "free" \notin Faults =>
                 ExecDone(r.db, w.xstmt, r.ret)
        BY <3>5, <3>7, ExecRunIs
      <4>2. Apart(x, w)
        BY <3>4, <3>5, ApartTwice
      <4> QED
        BY <1>0, <3>5, <4>1, <4>2, ApartTwice DEF Apart
    <3> QED
      BY <3>2, <3>6, <3>7
  <2> QED
    BY <2>1, <2>3, <2>4
<1> QED
  BY <1>2, <1>3

-----------------------------------------------------------------------------
(* sqlo_exists, sqlo_count, sqlo_run.                                      *)

\* What goes on in slot s, if anything, is marked.
Marked(y, s) == y.busy = s => y.st[s].used /\ y.st[s].still

\* The slot s after the cursor in it was opened, at once or when the call that
\* was still executing was repeated.
OwnOpened(x, s, y, ret) ==
  /\ ret # "busy" /\ Within(x, s, y) /\ Marked(y, s)
  /\ ret = "ok" => y.busy # s

\* Of a cursor that is opened in a clean slot nothing is left when it failed; one
\* that is open is of the kind given, and has run.  No call fails that frees a
\* handle, or that asks for the mode while a cursor goes on.
Clean(o) == ~o.defs /\ ~o.still
Freed(t) == ~t.used /\ ~t.still /\ ~t.defs
Sure(x)  == "free" \notin Faults /\ (~x.nb \/ "attr" \notin Faults)
OwnRan(kind, t, ret) ==
  /\ ret = "ok" => t.used /\ t.hp = "live" /\ t.stype = kind /\ (kind = "query" => t.exec)
  /\ ret # "ok" => Freed(t)

\* The three parts of OwnCursor: open, fetch, close.
OwnOpens(x, s, kind, a) == Until(Open2(x, NoSth, kind, a), LAMBDA y : Open2(y, s, kind, a))
OwnFetches(x, s) == Until(Fetch(x, s), LAMBDA z : Fetch(z, s))
OwnCloses(f, s, always) ==
  IF f.ret = "error" /\ ~always THEN {Sets(f.db, "error")}
  ELSE {IF always \/ c.ret = "ok" THEN Result(c.db, f.ret) ELSE c : c \in Close(f.db, s)}

LEMMA OwnOpenedIs ==
  ASSUME NEW x \in Sound, NEW kind \in AllKinds, NEW a \in Args \union {NoArgs},
         NEW s, s = FirstFree(x), FreeSths(x) # {}, NEW r \in OwnOpens(x, s, kind, a)
  PROVE  /\ r.ret \in Rets /\ r.db \in Sound /\ SameConn(x, r.db)
         /\ Steady(x) => OwnOpened(x, s, r.db, r.ret)
         /\ Steady(x) /\ Sure(x) /\ Clean(x.st[s]) => OwnRan(kind, r.db.st[s], r.ret)
<1>1. s \in Sths /\ ~x.st[s].used /\ s # NoSth
  BY FirstFreeIn, CursorAssumption DEF NoSth, Sths
<1>2. ~GoesOn(x, NoSth)
  BY CursorAssumption DEF GoesOn, Sths, NoSth
<1>3. r.ret # "busy" /\ \/ r \in Open2(x, NoSth, kind, a)
                        \/ \E p \in Open2(x, NoSth, kind, a) :
                             p.ret = "busy" /\ r \in Open2(p.db, s, kind, a)
  BY DEF OwnOpens, Until
<1>4. ASSUME NEW p \in Open2(x, NoSth, kind, a)
      PROVE  /\ p.ret \in Rets /\ p.db \in Sound /\ SameConn(x, p.db)
             /\ Within(x, s, p.db)
             /\ Steady(x) => /\ NewOpened(x, s, p.db, p.ret)
                             /\ NewRun(x.st[s], kind, a, p.db.st[s], p.ret)
  BY <1>2, Open2Is
<1>5. CASE r \in Open2(x, NoSth, kind, a)
  <2>1. /\ r.ret \in Rets /\ r.db \in Sound /\ SameConn(x, r.db)
        /\ Within(x, s, r.db)
        /\ Steady(x) => /\ NewOpened(x, s, r.db, r.ret)
                        /\ NewRun(x.st[s], kind, a, r.db.st[s], r.ret)
    BY <1>4, <1>5
  <2>2. Steady(x) => x.busy # s
    BY NotFree DEF Steady
  <2>3. Steady(x) /\ Sure(x) /\ Clean(x.st[s]) => OwnRan(kind, r.db.st[s], r.ret)
    BY <1>3, <2>1 DEF Sure, Clean, OwnRan, NewOpened, NewRun, Freed
  <2> QED
    BY <1>1, <1>3, <2>1, <2>2, <2>3 DEF OwnOpened, NewOpened, Marked
<1>6. ASSUME NEW p \in Open2(x, NoSth, kind, a), p.ret = "busy",
             r \in Open2(p.db, s, kind, a)
      PROVE  /\ r.ret \in Rets /\ r.db \in Sound /\ SameConn(x, r.db)
             /\ Steady(x) => OwnOpened(x, s, r.db, r.ret)
             /\ Steady(x) /\ Sure(x) => OwnRan(kind, r.db.st[s], r.ret)
  <2> DEFINE y == p.db
  <2>1. /\ y \in Sound /\ SameConn(x, y) /\ Within(x, s, y)
        /\ Steady(x) => NewOpened(x, s, y, "busy") /\ NewRun(x.st[s], kind, a, y.st[s], "busy")
    BY <1>4, <1>6
  <2>2. r \in Open2(y, s, kind, a)
    BY <1>6
  <2> HIDE DEF y
  <2>3. r.ret \in Rets /\ r.db \in Sound /\ SameConn(y, r.db)
    BY <2>1, <2>2, Open2Is
  <2>4. SameConn(x, r.db)
    BY <2>1, <2>3 DEF SameConn
  <2>5. ASSUME Steady(x)
        PROVE  OwnOpened(x, s, r.db, r.ret) /\ (Sure(x) => OwnRan(kind, r.db.st[s], r.ret))
    <3>1. /\ y.st[s].used /\ y.st[s].still /\ y.busy = s /\ y.nb
          /\ y.st[s].ctype = "default" /\ (y.st[s].ran \/ ~y.st[s].defs)
          /\ GoesOn(y, s) /\ x.nb
          /\ y.st[s].hp = "live" /\ y.st[s].stype = "query" /\ kind = "query"
      BY <1>1, <2>1, <2>5 DEF NewOpened, NewRun, GoesOn, SameConn
    <3>2. "bind" \notin Faults
      BY <2>5 DEF Steady
    <3>3. /\ Within(y, s, r.db)
          /\ \/ r.ret = "error" /\ Untouched(y, r.db) /\ "attr" \in Faults
             \/ /\ r.ret # "nodata" /\ Reopened(y, s, r.db, r.ret)
                /\ RanWith(y.st[s], r.db.st[s], r.ret, Given(y, s, a))
      BY <2>1, <2>2, <3>1, <3>2, Open2Is
    <3>4. Within(x, s, r.db)
      BY <2>1, <3>3, WithinWithin
    <3>5. CASE r.ret = "error" /\ Untouched(y, r.db) /\ "attr" \in Faults
      BY <3>1, <3>4, <3>5 DEF OwnOpened, Untouched, Marked, Sure
    <3>6. CASE /\ r.ret # "nodata" /\ Reopened(y, s, r.db, r.ret)
               /\ RanWith(y.st[s], r.db.st[s], r.ret, Given(y, s, a))
      <4>1. r.ret \in {"ok", "error"}
        BY <1>3, <2>3, <3>6 DEF Rets
      <4>2. r.db.busy # s
        BY <1>1, <3>1, <3>6, <4>1 DEF Reopened
      <4>3. Sure(x) => OwnRan(kind, r.db.st[s], r.ret)
        <5>1. CASE r.ret = "ok"
          BY <3>1, <3>6, <5>1 DEF Reopened, RanWith, OwnRan
        <5>2. CASE r.ret = "error"
          BY <3>1, <3>6, <5>2 DEF Reopened, RanWith, OwnRan, Sure, Freed
        <5> QED
          BY <4>1, <5>1, <5>2
      <4> QED
        BY <3>4, <4>1, <4>2, <4>3 DEF OwnOpened, Marked
    <3> QED
      BY <3>3, <3>5, <3>6
  <2> QED
    BY <2>3, <2>4, <2>5
<1> QED
  BY <1>3, <1>5, <1>6

\* A query from which rows can be fetched.
Fetchable(o) == o.stype = "query" /\ o.hp = "live" /\ o.exec /\ "fetch" \notin Faults

LEMMA OwnFetchedIs ==
  ASSUME NEW x \in Sound, NEW s \in Sths, NEW r \in OwnFetches(x, s)
  PROVE  /\ r.ret \in Rets /\ r.ret # "busy" /\ r.db \in Sound
         /\ Within(x, s, r.db) /\ r.db.busy = NoSth
         /\ r.db.st[s].used = x.st[s].used
         /\ Fetchable(x.st[s]) => r.ret # "error"
<1>1. r.ret # "busy" /\ \/ r \in Fetch(x, s)
                        \/ \E p \in Fetch(x, s) : p.ret = "busy" /\ r \in Fetch(p.db, s)
  BY DEF OwnFetches, Until
<1>2. CASE r \in Fetch(x, s)
  BY <1>1, <1>2, FetchIs DEF Fetchable, Fetched
<1>3. ASSUME NEW p \in Fetch(x, s), r \in Fetch(p.db, s)
      PROVE  /\ r.ret \in Rets /\ r.db \in Sound
             /\ Within(x, s, r.db) /\ r.db.busy = NoSth
             /\ r.db.st[s].used = x.st[s].used
             /\ Fetchable(x.st[s]) => r.ret # "error"
  <2>1. /\ p.db \in Sound /\ Within(x, s, p.db) /\ p.db.st[s].used = x.st[s].used
        /\ Fetchable(x.st[s]) => Fetchable(p.db.st[s])
    BY FetchIs DEF Fetchable, Fetched
  <2>2. /\ r.ret \in Rets /\ r.db \in Sound
        /\ Within(p.db, s, r.db) /\ r.db.busy = NoSth
        /\ r.db.st[s].used = p.db.st[s].used
        /\ Fetchable(p.db.st[s]) => r.ret # "error"
    BY <1>1, <1>3, <2>1, FetchIs DEF Fetchable, Fetched
  <2> QED
    BY <2>1, <2>2, WithinWithin
<1> QED
  BY <1>1, <1>2, <1>3

LEMMA OwnCursorIs ==
  ASSUME NEW x \in Sound, NEW kind \in AllKinds, NEW a \in Args \union {NoArgs},
         NEW always \in BOOLEAN, FreeSths(x) # {}, NEW r \in OwnCursor(x, kind, a, always)
  PROVE  LET s == FirstFree(x)
         IN  /\ r.ret \in Rets /\ r.ret # "busy" /\ r.db \in Sound /\ SameConn(x, r.db)
             /\ Steady(x) => Within(x, s, r.db) /\ Marked(r.db, s)
             /\ Steady(x) /\ Sure(x) /\ Clean(x.st[s])
                  /\ (always \/ (kind = "query" /\ "fetch" \notin Faults)) =>
                  Freed(r.db.st[s])
<1> DEFINE s == FirstFree(x)
<1>0. s = FirstFree(x) /\ s \in Sths /\ s # NoSth
  BY FirstFreeIn, CursorAssumption DEF NoSth, Sths
<1>10. OwnCursor(x, kind, a, always) =
         Then(OwnOpens(x, s, kind, a), LAMBDA y : UNION {OwnCloses(f, s, always) : f \in OwnFetches(y, s)})
  BY DEF OwnCursor, OwnOpens, OwnFetches, OwnCloses
<1>1. PICK o \in OwnOpens(x, s, kind, a) :
        \/ o.ret # "ok" /\ r = o
        \/ o.ret = "ok" /\ \E f \in OwnFetches(o.db, s) : r \in OwnCloses(f, s, always)
  BY <1>10 DEF Then
<1> HIDE DEF s
<1>2. /\ o.ret \in Rets /\ o.db \in Sound /\ SameConn(x, o.db)
      /\ Steady(x) => OwnOpened(x, s, o.db, o.ret)
      /\ Steady(x) /\ Sure(x) /\ Clean(x.st[s]) => OwnRan(kind, o.db.st[s], o.ret)
  BY <1>0, <1>1, OwnOpenedIs
<1>3. CASE o.ret # "ok" /\ r = o
  <2>1. o.ret # "busy"
    BY <1>1 DEF OwnOpens, Until
  <2> QED
    BY <1>0, <1>2, <1>3, <2>1 DEF OwnOpened, OwnRan
<1>4. ASSUME NEW f \in OwnFetches(o.db, s), r \in OwnCloses(f, s, always)
      PROVE  /\ r.ret \in Rets /\ r.ret # "busy" /\ r.db \in Sound /\ Within(o.db, s, r.db)
             /\ r.db.busy = NoSth
             /\ o.db.st[s].used /\ Sure(x) /\ (always \/ Fetchable(o.db.st[s])) =>
                  Freed(r.db.st[s])
  <2>1. /\ f.ret \in Rets /\ f.ret # "busy" /\ f.db \in Sound
        /\ Within(o.db, s, f.db) /\ f.db.busy = NoSth
        /\ f.db.st[s].used = o.db.st[s].used
        /\ Fetchable(o.db.st[s]) => f.ret # "error"
    BY <1>0, <1>2, OwnFetchedIs
  <2>2. CASE f.ret = "error" /\ ~always
    <3>1. r = Sets(f.db, "error") /\ "error" \in Rets
      BY <1>4, <2>2 DEF Rets, OwnCloses
    <3>2. r.ret = "error" /\ Within(f.db, s, r.db) /\ r.db \in Sound /\ r.db.busy = f.db.busy
      BY <1>0, <2>1, <3>1, SetsIs
    <3> QED
      BY <2>1, <2>2, <3>1, <3>2, WithinWithin
  <2>3. CASE ~(f.ret = "error" /\ ~always)
    <3>1. PICK c \in Close(f.db, s) :
            r = IF always \/ c.ret = "ok" THEN Result(c.db, f.ret) ELSE c
      BY <1>4, <2>3 DEF OwnCloses
    <3>2. /\ c.ret \in {"ok", "error"} /\ Within(f.db, s, c.db) /\ c.db \in Sound
          /\ c.db.busy = NoSth
      BY <1>0, <2>1, CloseIs
    <3>3. r.db = c.db /\ r.ret \in {c.ret, f.ret}
      BY <3>1 DEF Result
    <3>4. o.db.st[s].used /\ Sure(x) => Freed(c.db.st[s])
      <4> SUFFICES ASSUME o.db.st[s].used, Sure(x)
                   PROVE  Freed(c.db.st[s])
        OBVIOUS
      <4>1. f.db.st[s].used /\ "free" \notin Faults
        BY <2>1 DEF Sure
      <4>2. /\ f.db.st[s].used => ~c.db.st[s].defs
            /\ c.ret = "ok" => ~c.db.st[s].used /\ ~c.db.st[s].still
            /\ f.db.st[s].used /\ c.ret = "error" => "free" \in Faults
        <5> DEFINE w == f.db
        <5>1. w \in Sound /\ c \in Close(w, s) /\ s \in Sths
          BY <1>0, <2>1
        <5> HIDE DEF w
        <5>2. /\ w.st[s].used => ~c.db.st[s].defs
              /\ c.ret = "ok" => ~c.db.st[s].used /\ ~c.db.st[s].still
              /\ w.st[s].used /\ c.ret = "error" => "free" \in Faults
          BY <5>1, CloseIs
        <5> QED
          BY <5>2 DEF w
      <4> QED
        BY <3>2, <4>1, <4>2 DEF Freed
    <3> QED
      BY <2>1, <3>2, <3>3, <3>4, WithinWithin DEF Rets
  <2> QED
    BY <2>2, <2>3
<1>5. CASE o.ret = "ok" /\ \E f \in OwnFetches(o.db, s) : r \in OwnCloses(f, s, always)
  <2>1. PICK f \in OwnFetches(o.db, s) : r \in OwnCloses(f, s, always)
    BY <1>5
  <2>2. /\ r.ret \in Rets /\ r.ret # "busy" /\ r.db \in Sound /\ Within(o.db, s, r.db)
        /\ r.db.busy = NoSth
        /\ o.db.st[s].used /\ Sure(x) /\ (always \/ Fetchable(o.db.st[s])) =>
             Freed(r.db.st[s])
    BY <1>4, <2>1
  <2>3. SameConn(x, r.db)
    BY <1>2, <2>2 DEF Within, SameConn
  <2>4. ASSUME Steady(x)
        PROVE  Within(x, s, r.db)
    BY <1>2, <2>2, <2>4, WithinWithin DEF OwnOpened
  <2>5. Marked(r.db, s)
    BY <1>0, <2>2 DEF Marked
  <2>6. ASSUME Steady(x), Sure(x), Clean(x.st[s]),
               always \/ (kind = "query" /\ "fetch" \notin Faults)
        PROVE  Freed(r.db.st[s])
    BY <1>2, <1>5, <2>2, <2>6 DEF OwnRan, Fetchable
  <2> QED
    BY <1>0, <2>2, <2>3, <2>4, <2>5, <2>6
<1> QED
  BY <1>1, <1>3, <1>5

-----------------------------------------------------------------------------
(* sqlo_break, and the end of a session or of a connection.                *)

\* y is x with the slots S closed; all of them are free if OCI could free
\* their handles.
Closed(x, S, y) ==
  /\ y \in Sound /\ SameConn(x, y)
  /\ y.busy = IF x.busy \in S THEN NoSth ELSE x.busy
  /\ \A s \in Sths \ S : y.st[s] = x.st[s]
  /\ \A s \in Sths : y.st[s].ctype = x.st[s].ctype
  /\ "free" \notin Faults => \A s \in S : Freed(y.st[s])

LEMMA CloseAllIs ==
  ASSUME NEW x \in Sound, NEW S \in SUBSET Sths, NEW y \in CloseAll(x, S)
  PROVE  /\ Closed(x, S, y)
         /\ "free" \notin Faults /\ S # {} => y.status = "ok"
         /\ S = {} => y.status = x.status
<1>1. PICK E \in IF "free" \in Faults THEN SUBSET {s \in S : x.st[s].hp # "null"} ELSE {{}} :
        y = LET w == CloseSlots(x, S, E)
                Last == CHOOSE s \in S : \A u \in S : u <= s
            IN  IF S = {} THEN w ELSE [w EXCEPT !.status = IF Last \in E THEN "error" ELSE "ok"]
  BY DEF CloseAll
<1>2. E \in SUBSET S /\ ("free" \notin Faults => E = {})
  BY <1>1
<1> DEFINE z == CloseSlots(x, S, E)
           v == IF (CHOOSE s \in S : \A u \in S : u <= s) \in E THEN "error" ELSE "ok"
<1>3. y = IF S = {} THEN z ELSE [z EXCEPT !.status = v]
  BY <1>1
<1>4. v \in {"ok", "error"} /\ ("free" \notin Faults => v = "ok")
  BY <1>2
<1> HIDE DEF v
<1>5. /\ z \in Sound /\ SameConn(x, z) /\ z.status = x.status
      /\ z.busy = IF x.busy \in S THEN NoSth ELSE x.busy
      /\ \A s \in Sths \ S : z.st[s] = x.st[s]
      /\ \A s \in S \ E : Freed(z.st[s])
      /\ \A s \in Sths : z.st[s].ctype = x.st[s].ctype
  <2>1. S \in SUBSET Sths /\ E \in SUBSET S
    BY <1>2
  <2>2. LET w == CloseSlots(x, S, E)
        IN  /\ w \in Sound /\ SameConn(x, w) /\ w.status = x.status
            /\ w.busy = IF x.busy \in S THEN NoSth ELSE x.busy
            /\ \A s \in Sths \ S : w.st[s] = x.st[s]
            /\ \A s \in S \ E : ~w.st[s].used /\ ~w.st[s].still /\ w.st[s].hp = "null"
            /\ \A s \in E : w.st[s] = Unfreed(x.st[s])
            /\ \A s \in S : ~w.st[s].defs
            /\ \A s \in Sths : w.st[s].ctype = x.st[s].ctype
    BY <2>1, CloseSlotsIs, Zenon
  <2> HIDE DEF z
  <2>3. z = CloseSlots(x, S, E)
    BY DEF z
  <2>4. \A s \in S \ E : Freed(z.st[s])
    BY <2>2, <2>3 DEF Freed
  <2> QED
    BY <2>2, <2>3, <2>4
<1> HIDE DEF z
<1>6. Closed(x, S, z)
  BY <1>2, <1>5 DEF Closed
<1>7. CASE S = {}
  <2>1. y = z
    BY <1>3, <1>7
  <2> QED
    BY <1>5, <1>6, <1>7, <2>1
<1>8. CASE S # {}
  <2>1. 0 \in Sths /\ v \in Rets
    BY <1>4, CursorAssumption DEF Sths, Rets
  <2>2. y = Sets(z, v).db
    BY <1>3, <1>8 DEF Sets, Result
  <2>3. /\ Within(z, 0, y) /\ y \in Sound /\ y.st = z.st /\ y.busy = z.busy /\ y.status = v
    BY <1>5, <2>1, <2>2, SetsIs
  <2>4. SameConn(x, y)
    BY <1>5, <2>3 DEF SameConn, Within
  <2>5. Closed(x, S, y)
    BY <1>6, <2>3, <2>4 DEF Closed
  <2> QED
    BY <1>4, <1>8, <2>3, <2>5
<1> QED
  BY <1>7, <1>8

\* What sqlo_break has done.
Broken(x, y, ret) ==
  LET S == StillSths(x)
  IN  \/ /\ y.st = x.st /\ y.busy = x.busy
         /\ ret = "error" \/ (ret = "ok" /\ ~x.nb)
      \/ /\ y.busy = NoSth
         /\ \A s \in Sths \ S : y.st[s] = x.st[s]
         /\ \A s \in Sths : y.st[s].ctype = x.st[s].ctype
         /\ "free" \notin Faults => /\ \A s \in S : ~y.st[s].used /\ ~y.st[s].still
                                                    /\ ~y.st[s].defs
                                    /\ S # {} => ret = "ok"
                                    /\ ret \in {"ok", "error"}

\* And with the handle of sqlo_exec: a break that succeeds leaves none.
XBroken(x, y, ret) ==
  /\ y.xran = x.xran
  /\ y.xhp = "null" \/ (y.xhp = x.xhp /\ y.xstmt = x.xstmt)
  /\ ret = "ok" /\ x.nb => y.xhp = "null"

LEMMA BreakIs ==
  ASSUME NEW x \in Sound, NEW r \in Break(x)
  PROVE  /\ r.ret \in Rets /\ r.db \in Sound
         /\ r.db.up = x.up /\ r.db.nb = x.nb /\ r.db.auto = x.auto
         /\ Broken(x, r.db, r.ret) /\ XBroken(x, r.db, r.ret)
<1> DEFINE Close2(c) == IF c.xhp = "null" THEN {Result(c, c.status)}
                        ELSE {Sets(ExecFree(c), a) : a \in Answers("free")}
           Idle(q) == IF q.ret = "ok" THEN Result([q.db EXCEPT !.busy = NoSth], "ok") ELSE q
<1>0. 0 \in Sths
  BY CursorAssumption DEF Sths
<1>1. PICK y \in GetBlocking(x) :
        \/ y.ret # "ok" /\ r = y
        \/ y.ret = "ok" /\ ~y.db.nb /\ r = Sets(y.db, "ok")
        \/ /\ y.ret = "ok" /\ y.db.nb
           /\ \E q \in Oci(y.db, "break") :
                \/ q.ret # "ok" /\ r = q
                \/ /\ q.ret = "ok"
                   /\ \E p \in Oci([q.db EXCEPT !.busy = NoSth], "reset") :
                        \E c \in CloseAll(p.db, StillSths(p.db)) : r \in Close2(c)
  <2>1. PICK y \in GetBlocking(x) :
          \/ y.ret # "ok" /\ r = y
          \/ /\ y.ret = "ok"
             /\ r \in IF ~y.db.nb THEN {Sets(y.db, "ok")}
                      ELSE Then({Idle(q) : q \in Oci(y.db, "break")}, LAMBDA z :
                           UNION {Close2(c) : c \in UNION {CloseAll(p.db, StillSths(p.db)) :
                                                              p \in Oci(z, "reset")}})
    BY DEF Break, Then
  <2>2. CASE y.ret = "ok" /\ y.db.nb
    <3> HIDE DEF Close2, Idle
    <3>1. PICK i \in {Idle(q) : q \in Oci(y.db, "break")} :
            \/ i.ret # "ok" /\ r = i
            \/ i.ret = "ok" /\ r \in UNION {Close2(c) :
                 c \in UNION {CloseAll(p.db, StillSths(p.db)) : p \in Oci(i.db, "reset")}}
      BY <2>1, <2>2 DEF Then
    <3>2. PICK q \in Oci(y.db, "break") : i = Idle(q)
      BY <3>1
    <3>3. CASE q.ret # "ok"
      <4>1. i = q
        BY <3>2, <3>3 DEF Idle
      <4> QED
        BY <2>2, <3>1, <3>3, <4>1
    <3>4. CASE q.ret = "ok"
      <4>1. i.ret = "ok" /\ i.db = [q.db EXCEPT !.busy = NoSth]
        BY <3>2, <3>4 DEF Idle, Result
      <4>2. \E p \in Oci(i.db, "reset") :
              \E c \in CloseAll(p.db, StillSths(p.db)) : r \in Close2(c)
        BY <3>1, <4>1
      <4> QED
        BY <2>2, <3>4, <4>1, <4>2
    <3> QED
      BY <3>3, <3>4
  <2> QED
    BY <2>1, <2>2
<1>2. /\ y.ret \in {"ok", "error"} /\ Switched(x, y.db) /\ y.db.nb = x.nb /\ y.db \in Sound
  BY GetBlockingIs DEF Switched
<1>3. CASE y.ret # "ok" /\ r = y
  BY <1>2, <1>3 DEF Rets, Switched, Broken, XBroken
<1>4. CASE y.ret = "ok" /\ ~y.db.nb /\ r = Sets(y.db, "ok")
  <2>1. /\ r.ret = "ok" /\ Within(y.db, 0, r.db) /\ r.db \in Sound
        /\ r.db.st = y.db.st /\ r.db.busy = y.db.busy
    BY <1>0, <1>2, <1>4, SetsIs DEF Rets
  <2> QED
    BY <1>2, <1>4, <2>1 DEF Rets, Switched, Within, SameConn, Broken, XBroken
<1> HIDE DEF Close2
<1>5. ASSUME NEW q \in Oci(y.db, "break"), q.ret # "ok", r = q
      PROVE  /\ r.ret \in Rets /\ r.db \in Sound
             /\ r.db.up = x.up /\ r.db.nb = x.nb /\ r.db.auto = x.auto
             /\ Broken(x, r.db, r.ret) /\ XBroken(x, r.db, r.ret)
  <2>1. /\ q.ret \in {"ok", "error"}
        /\ Within(y.db, 0, q.db) /\ q.db \in Sound
        /\ q.db.st = y.db.st /\ q.db.busy = y.db.busy
    BY <1>0, <1>2, OciIs
  <2> QED
    BY <1>2, <1>5, <2>1 DEF Rets, Switched, Within, SameConn, Broken, XBroken
<1>6. ASSUME y.ret = "ok", NEW q \in Oci(y.db, "break"), q.ret = "ok",
             NEW p \in Oci([q.db EXCEPT !.busy = NoSth], "reset"),
             NEW c \in CloseAll(p.db, StillSths(p.db)), r \in Close2(c)
      PROVE  /\ r.ret \in Rets /\ r.db \in Sound
             /\ r.db.up = x.up /\ r.db.nb = x.nb /\ r.db.auto = x.auto
             /\ Broken(x, r.db, r.ret) /\ XBroken(x, r.db, r.ret)
  <2> DEFINE w == [q.db EXCEPT !.busy = NoSth]
  <2>1. /\ Within(y.db, 0, q.db) /\ q.db \in Sound
        /\ q.db.st = y.db.st /\ q.db.status = "ok"
    BY <1>0, <1>2, <1>6, OciIs
  <2>2. /\ w \in Sound /\ w.st = x.st /\ w.busy = NoSth
        /\ w.up = x.up /\ w.nb = x.nb /\ w.auto = x.auto
        /\ w.xran = x.xran
    <3>1. q.db \in Dbs /\ FreeClean(q.db)
      BY <2>1 DEF Sound
    <3>2. /\ w \in Dbs /\ w.st = q.db.st /\ w.busy = NoSth
          /\ w.up = q.db.up /\ w.nb = q.db.nb /\ w.auto = q.db.auto
          /\ w.xran = q.db.xran
      BY <3>1 DEF Dbs
    <3> HIDE DEF w
    <3>3. w \in Sound
      BY <3>1, <3>2 DEF Sound, FreeClean
    <3> QED
      BY <1>2, <2>1, <3>2, <3>3 DEF Switched, Within, SameConn
  <2>3. p \in Oci(w, "reset")
    BY <1>6
  <2> HIDE DEF w
  <2>4. /\ Within(w, 0, p.db) /\ p.db \in Sound /\ p.db.st = x.st /\ p.db.busy = NoSth
        /\ p.db.status \in {"ok", "error"}
    BY <1>0, <2>2, <2>3, OciIs
  <2> DEFINE S == StillSths(x)
  <2>5. StillSths(p.db) = S /\ S \in SUBSET Sths
    BY <2>4 DEF StillSths, UsedSths
  <2> HIDE DEF S
  <2>6. /\ Closed(p.db, S, c)
        /\ "free" \notin Faults => c.status \in {"ok", "error"} /\ (S # {} => c.status = "ok")
    BY <1>6, <2>4, <2>5, CloseAllIs
  <2>7. /\ c \in Sound /\ c.busy = NoSth
        /\ c.up = x.up /\ c.nb = x.nb /\ c.auto = x.auto /\ c.xran = x.xran
        /\ \A s \in Sths \ S : c.st[s] = x.st[s]
        /\ \A s \in Sths : c.st[s].ctype = x.st[s].ctype
        /\ "free" \notin Faults => \A s \in S : ~c.st[s].used /\ ~c.st[s].still
                                                /\ ~c.st[s].defs
    BY <2>2, <2>4, <2>6 DEF Closed, Within, SameConn, Freed
  <2>8. \/ r.ret = c.status /\ r.db = c /\ c.xhp = "null"
        \/ \E a \in Answers("free") : r = Sets(ExecFree(c), a)
    BY <1>6 DEF Close2, Result
  <2>9. CASE r.ret = c.status /\ r.db = c /\ c.xhp = "null"
    <3>1. c.status \in Rets
      BY <2>7 DEF Sound, Dbs
    <3> QED
      BY <2>6, <2>7, <2>9, <3>1 DEF Broken, XBroken, S
  <2>10. ASSUME NEW a \in Answers("free"), r = Sets(ExecFree(c), a)
         PROVE  /\ r.ret \in Rets /\ r.db \in Sound
                /\ r.db.up = x.up /\ r.db.nb = x.nb /\ r.db.auto = x.auto
                /\ Broken(x, r.db, r.ret) /\ XBroken(x, r.db, r.ret)
    <3>1. a \in {"ok", "error"} /\ a \in Rets /\ ("free" \notin Faults => a = "ok")
      BY DEF Answers, Rets
    <3> DEFINE e == ExecFree(c)
    <3>2. Apart(c, e) /\ e \in Sound /\ e.busy = NoSth /\ e.xhp = "null" /\ e.xran = x.xran
      <4>1. Apart(c, e) /\ e.xhp = "null" /\ e.xran = c.xran
        BY <2>7, ExecFreeIs
      <4>2. e.busy = c.busy
        BY <2>7 DEF ExecFree, Sound, Dbs
      <4> QED
        BY <2>7, <4>1, <4>2 DEF Apart
    <3>3. r = Sets(e, a)
      BY <2>10
    <3> HIDE DEF e
    <3>4. /\ r.ret = a /\ Within(e, 0, r.db) /\ r.db \in Sound
          /\ r.db.st = e.st /\ r.db.busy = e.busy
      BY <1>0, <3>1, <3>2, <3>3, SetsIs
    <3>5. /\ r.db.up = x.up /\ r.db.nb = x.nb /\ r.db.auto = x.auto
          /\ r.db.st = c.st /\ r.db.busy = NoSth
          /\ r.db.xhp = "null" /\ r.db.xran = x.xran
      BY <2>7, <3>2, <3>4 DEF Apart, Within, SameConn
    <3>6. Broken(x, r.db, r.ret)
      BY <2>7, <3>1, <3>4, <3>5 DEF Broken, S
    <3>7. XBroken(x, r.db, r.ret)
      BY <3>5 DEF XBroken
    <3> QED
      BY <3>1, <3>4, <3>5, <3>6, <3>7
  <2> QED
    BY <2>8, <2>9, <2>10
<1> QED
  BY <1>1, <1>3, <1>4, <1>5, <1>6

DeadHandle(h) == IF h = "live" THEN "dead" ELSE h
DeadStmt(stmt) == [Released(stmt) EXCEPT !.hp = DeadHandle(@)]

LEMMA DeadStmtIs ==
  ASSUME NEW stmt \in Stmts
  PROVE  LET t == DeadStmt(stmt)
         IN  /\ t \in Stmts /\ ~t.used /\ ~t.still /\ t.hp # "live"
             /\ t.ctype = stmt.ctype /\ t.defs = stmt.defs
<1>1. Released(stmt) \in Stmts /\ ~Released(stmt).used /\ ~Released(stmt).still
      /\ Released(stmt).ctype = stmt.ctype /\ Released(stmt).defs = stmt.defs
  BY ReleasedIs
<1> QED
  BY <1>1 DEF DeadStmt, DeadHandle, Stmts

\* No statement of the connection is left.
Emptied(x, y) ==
  /\ y \in Sound /\ ~y.up /\ y.busy = NoSth
  /\ y.nb = x.nb /\ y.xhp = DeadHandle(x.xhp)
  /\ \A s \in Sths : ~y.st[s].used /\ ~y.st[s].still /\ y.st[s].ctype = x.st[s].ctype

LEMMA DbReleaseIs ==
  ASSUME NEW x \in Sound
  PROVE  /\ Emptied(x, DbRelease(x))
         /\ \A s \in Sths : DbRelease(x).st[s].defs = x.st[s].defs
<1> DEFINE F == [s \in Sths |-> DeadStmt(x.st[s])]
           h == DeadHandle(x.xhp)
           y == DbRelease(x)
<1>1. x \in Dbs /\ x.st \in [Sths -> Stmts] /\ x.xhp \in {"null", "live", "dead"}
  BY DEF Sound, Dbs
<1>2. y = [x EXCEPT !.up = FALSE, !.status = "ok", !.busy = NoSth, !.xhp = h, !.st = F]
  BY DEF DbRelease, DeadHandle, DeadStmt
<1>3. \A s \in Sths : LET t == DeadStmt(x.st[s])
                      IN  /\ t \in Stmts /\ ~t.used /\ ~t.still /\ t.hp # "live"
                          /\ t.ctype = x.st[s].ctype /\ t.defs = x.st[s].defs
  BY <1>1, DeadStmtIs
<1>4. h \in {"null", "live", "dead"}
  BY <1>1 DEF DeadHandle
<1>5. F \in [Sths -> Stmts] /\ \A s \in Sths : F[s] = DeadStmt(x.st[s])
  BY <1>3
<1> HIDE DEF F, h, y
<1>6. y \in Dbs /\ y.st = F /\ ~y.up /\ y.busy = NoSth /\ y.nb = x.nb /\ y.xhp = h
  BY <1>1, <1>2, <1>4, <1>5 DEF Dbs, Rets
<1>7. y \in Sound
  BY <1>3, <1>5, <1>6 DEF Sound, FreeClean
<1>8. \A s \in Sths : /\ ~y.st[s].used /\ ~y.st[s].still /\ y.st[s].ctype = x.st[s].ctype
                      /\ y.st[s].defs = x.st[s].defs
  BY <1>3, <1>5, <1>6
<1> QED
  BY <1>6, <1>7, <1>8 DEF Emptied, y, h

LEMMA DbEndIs ==
  ASSUME NEW x \in Sound, NEW r \in DbFinish(x) \union DbFree(x)
  PROVE  /\ r.ret = "ok" /\ Emptied(x, r.db)
         /\ "free" \notin Faults /\ r \in DbFinish(x) =>
              \A s \in Sths : r.db.st[s].defs => ~x.st[s].used /\ x.st[s].defs
<1>1. ASSUME r \in DbFree(x), r \notin DbFinish(x)
      PROVE  r.ret = "ok" /\ Emptied(x, r.db)
  BY <1>1, DbReleaseIs DEF DbFree, Result
<1>2. CASE r \in DbFinish(x)
  <2>1. PICK y \in CloseAll(x, UsedSths(x)) : r = Result(DbRelease(y), "ok")
    BY <1>2 DEF DbFinish
  <2> DEFINE S == UsedSths(x)
  <2>2. S \in SUBSET Sths
    BY DEF UsedSths
  <2> HIDE DEF S
  <2>3. Closed(x, S, y)
    BY <2>1, <2>2, CloseAllIs DEF S
  <2>4. Emptied(y, DbRelease(y)) /\ \A s \in Sths : DbRelease(y).st[s].defs = y.st[s].defs
    BY <2>3, DbReleaseIs DEF Closed
  <2>5. r.ret = "ok" /\ r.db = DbRelease(y)
    BY <2>1 DEF Result
  <2>6. Emptied(x, r.db)
    BY <2>3, <2>4, <2>5 DEF Closed, Emptied, SameConn
  <2>7. ASSUME "free" \notin Faults, NEW s \in Sths, r.db.st[s].defs
        PROVE  ~x.st[s].used /\ x.st[s].defs
    <3>1. y.st[s].defs
      BY <2>4, <2>5, <2>7
    <3>2. s \notin S
      BY <2>3, <2>7, <3>1 DEF Closed, Freed
    <3>3. y.st[s] = x.st[s]
      BY <2>3, <2>7, <3>2 DEF Closed
    <3> QED
      BY <2>7, <3>1, <3>2, <3>3 DEF S, UsedSths
  <2> QED
    BY <2>5, <2>6, <2>7
<1> QED
  BY <1>1, <1>2

LEMMA DbConnectIs ==
  ASSUME NEW x \in Sound, NEW r \in DbConnect(x)
  PROVE  /\ r.ret = "ok" /\ r.db \in Sound /\ r.db.st = x.st /\ r.db.busy = x.busy
         /\ r.db.up /\ ~r.db.nb /\ ~r.db.auto /\ r.db.xhp = x.xhp
<1> DEFINE y == [x EXCEPT !.up = TRUE, !.status = "ok", !.nb = FALSE, !.auto = FALSE]
<1>1. r.ret = "ok" /\ r.db = y
  BY DEF DbConnect, Result
<1>2. x \in Dbs /\ FreeClean(x)
  BY DEF Sound
<1>3. /\ y \in Dbs /\ y.st = x.st /\ y.busy = x.busy /\ y.up /\ ~y.nb /\ ~y.auto
      /\ y.xhp = x.xhp
  BY <1>2 DEF Dbs, Rets
<1> HIDE DEF y
<1> QED
  BY <1>1, <1>2, <1>3 DEF Sound, FreeClean

LEMMA SetAutocommitIs ==
  ASSUME NEW x \in Sound, NEW on \in BOOLEAN, NEW r \in SetAutocommit(x, on)
  PROVE  /\ r.ret = "ok" /\ r.db \in Sound /\ r.db.st = x.st /\ r.db.busy = x.busy
         /\ r.db.up = x.up /\ r.db.nb = x.nb /\ r.db.xhp = x.xhp
<1> DEFINE v == IF on THEN TRUE ELSE ~x.auto
           y == [x EXCEPT !.auto = v]
<1>1. r.ret = "ok" /\ r.db = y
  <2>1. SetAutocommit(x, on) = {Result([x EXCEPT !.auto = v], "ok")}
    BY Zenon DEF SetAutocommit
  <2>2. r = Result(y, "ok")
    BY <2>1
  <2> QED
    BY <2>2 DEF Result
<1>2. x \in Dbs /\ FreeClean(x) /\ v \in BOOLEAN
  BY DEF Sound, Dbs
<1> HIDE DEF v
<1>3. y \in Dbs /\ y.st = x.st /\ y.busy = x.busy /\ y.up = x.up /\ y.nb = x.nb
      /\ y.xhp = x.xhp
  BY <1>2 DEF Dbs
<1> HIDE DEF y
<1> QED
  BY <1>1, <1>2, <1>3 DEF Sound, FreeClean

-----------------------------------------------------------------------------
(* What a step does: a call that may be made, and one of its outcomes.     *)

\* The application makes the call, and gets the outcome r of the function.
Took(call, r) ==
  /\ call.op \in ClientCalls
  /\ Busy => call.op \in {"break", "free"} \/ call = last.call
  /\ db.up <=> call.op # "connect"
  /\ db' = r.db /\ last' = [call |-> call, ret |-> r.ret]

\* A call that is to give variable c the statement in slot s.
DoOpen(c, kind, a, r) ==
  /\ cur[c] = NoSth /\ Took(Call("open", c, kind, a), r)
  /\ cur' = IF Fails(r) THEN cur ELSE Opened(c, FirstFree(db))
  /\ want' = [want EXCEPT !.nb = IF last'.ret = "ok" THEN @ ELSE @ \union {FALSE}]
DoOpen2(c, kind, a, r) ==
  /\ cur[c] = NoSth \/ Busy
  /\ Took(Call("open2", c, kind, a), r)
  /\ cur' = IF Fails(r) THEN Gone(c)
            ELSE Opened(c, IF cur[c] = NoSth THEN FirstFree(db) ELSE cur[c])
  /\ UNCHANGED want
DoPrepare(c, kind, r) ==
  /\ cur[c] = NoSth /\ Took(Call("prepare", c, kind, NoArgs), r)
  /\ cur' = IF Fails(r) THEN cur ELSE Opened(c, FirstFree(db))
  /\ UNCHANGED want
DoNewCursor(c, e, op, r) ==
  /\ cur[e] = NoSth /\ cur[c] # NoSth /\ Took(Call(op, c, NoKind, NoArgs), r)
  /\ cur' = IF Fails(r) THEN cur ELSE Opened(e, FirstFree(db))
  /\ UNCHANGED want

\* A call on the statement in variable c, which keeps it or loses it.
DoReopen(c, op, a, r) ==
  /\ cur[c] # NoSth /\ db.st[cur[c]].ctype = "default"
  /\ a = NoArgs => db.st[cur[c]].stype = "query"
  /\ op = "reopen_plain" => a = NoArgs
  /\ Took(Call(op, c, NoKind, a), r)
  /\ cur' = IF Fails(r) THEN Gone(c) ELSE cur
  /\ UNCHANGED want
DoOn(c, op, a, r) ==
  cur[c] # NoSth /\ Took(Call(op, c, NoKind, a), r) /\ UNCHANGED <<cur, want>>
DoClose(c, r) ==
  /\ cur[c] # NoSth /\ Took(Call("close", c, NoKind, NoArgs), r)
  /\ cur' = IF Fails(r) THEN cur ELSE Gone(c)
  /\ UNCHANGED want

\* A call on the connection.
DoShot(op, kind, a, r) ==
  Took(Call(op, NoCursor, kind, a), r) /\ UNCHANGED <<cur, want>>
BreakOutcome(r) == IF Busy /\ r.ret # "ok" THEN Result(r.db, "busy") ELSE r
DoBreak(r) ==
  LET c == IF Busy THEN last.call.cur ELSE NoCursor
  IN  /\ Took(Call("break", c, NoKind, NoArgs), BreakOutcome(r))
      /\ cur' = IF BreakOutcome(r).ret = "ok" /\ c # NoCursor THEN Gone(c) ELSE cur
      /\ UNCHANGED want
DoBlocking(on, r) ==
  /\ Took(Call("blocking", NoCursor, NoKind, on), r) /\ cur' = cur
  /\ want' = [want EXCEPT !.nb = IF last'.ret = "ok" THEN {~on} ELSE BOOLEAN]
DoAutocommit(on, r) ==
  /\ Took(Call("autocommit", NoCursor, NoKind, on), r) /\ cur' = cur
  /\ want' = [want EXCEPT !.auto = on]
DoEnd(op, r) ==
  /\ op = "finish" => r \in DbFinish(db)
  /\ Took(Call(op, NoCursor, NoKind, NoArgs), r) /\ cur' = AllGone
  /\ want' = [nb |-> {FALSE}, auto |-> FALSE]
DoConnect(r) ==
  /\ Took(Call("connect", NoCursor, NoKind, NoArgs), r) /\ cur' = cur
  /\ want' = [nb |-> {FALSE}, auto |-> FALSE]

\* The actions of Next, each with its call and its outcome.
OpenStep ==
  \E c \in Cursors, kind \in Kinds, a \in Args \union {NoArgs} :
    \E r \in Open(db, kind, a) : DoOpen(c, kind, a, r)
Open2Step ==
  \E c \in Cursors, kind \in Kinds, a \in Args \union {NoArgs} :
    \E r \in Open2(db, cur[c], kind, a) : DoOpen2(c, kind, a, r)
PrepareStep ==
  \E c \in Cursors, kind \in Kinds : \E r \in PrepareStmt(db, kind) : DoPrepare(c, kind, r)
NewCursorStep ==
  \E c \in Cursors, e \in Cursors :
    \/ \E r \in NewCursor(db, cur[c], "ref") : DoNewCursor(c, e, "refcursor", r)
    \/ \E r \in NewCursor(db, cur[c], "ntable") : DoNewCursor(c, e, "ntable", r)
ReopenStep ==
  \E c \in Cursors, op \in {"reopen", "reopen_plain"}, a \in Args \union {NoArgs} :
    \E r \in Reopen(db, cur[c], a) : DoReopen(c, op, a, r)
BindStep ==
  \E c \in Cursors, a \in Args : \E r \in BindByName(db, cur[c], a) : DoOn(c, "bind", a, r)
DefineStep ==
  \E c \in Cursors : \E r \in DefineByPos(db, cur[c]) : DoOn(c, "define", NoArgs, r)
ExecuteStep ==
  \E c \in Cursors : \E r \in Execute(db, cur[c]) : DoOn(c, "execute", NoArgs, r)
FetchStep == \E c \in Cursors : \E r \in Fetch(db, cur[c]) : DoOn(c, "fetch", NoArgs, r)
ResultStep ==
  \E c \in Cursors : \E r \in QueryResult(db, cur[c]) : DoOn(c, "result", NoArgs, r)
CloseStep == \E c \in Cursors : \E r \in Close(db, cur[c]) : DoClose(c, r)
ExecStep ==
  \E stmt \in Statements : \E r \in Exec(db, stmt) : DoShot("exec", NoKind, stmt, r)
OwnStep ==
  \E op \in {"exists", "run"}, kind \in AllKinds, a \in Args, always \in BOOLEAN :
    \E r \in IF FreeSths(db) = {} THEN {Sets(db, "error")} ELSE OwnCursor(db, kind, a, always) :
      DoShot(op, kind, a, r) /\ (always \/ (op = "exists" /\ kind = "query"))
BreakStep == \E r \in Break(db) : DoBreak(r)
BlockingStep == \E on \in BOOLEAN : \E r \in SetBlocking(db, on) : DoBlocking(on, r)
AutocommitStep == \E on \in BOOLEAN : \E r \in SetAutocommit(db, on) : DoAutocommit(on, r)
EndStep ==
  \E op \in {"finish", "free"} : \E r \in DbFinish(db) \union DbFree(db) : DoEnd(op, r)
ConnectStep == \E r \in DbConnect(db) : DoConnect(r)

LEMMA NextIs ==
  ASSUME Next
  PROVE  \/ OpenStep \/ Open2Step \/ PrepareStep \/ NewCursorStep
         \/ ReopenStep \/ BindStep \/ DefineStep \/ ExecuteStep \/ FetchStep \/ ResultStep
         \/ CloseStep \/ ExecStep \/ OwnStep
         \/ BreakStep \/ BlockingStep \/ AutocommitStep \/ EndStep \/ ConnectStep
<1>1. ASSUME NEW c \in Cursors, NEW kind \in Kinds, NEW a \in Args \union {NoArgs},
             OpenCall(c, kind, a)
      PROVE  OpenStep
  BY <1>1 DEF OpenCall, Step, OpenStep, DoOpen, Took
<1>2. ASSUME NEW c \in Cursors, NEW kind \in Kinds, NEW a \in Args \union {NoArgs},
             Open2Call(c, kind, a)
      PROVE  Open2Step
  BY <1>2 DEF Open2Call, Step, Open2Step, DoOpen2, Took
<1>3. ASSUME NEW c \in Cursors, NEW kind \in Kinds, PrepareCall(c, kind)
      PROVE  PrepareStep
  BY <1>3 DEF PrepareCall, Step, PrepareStep, DoPrepare, Took
<1>4. ASSUME NEW c \in Cursors, CursorCall(c)
      PROVE  \/ ReopenStep \/ BindStep \/ DefineStep \/ ExecuteStep \/ FetchStep \/ ResultStep
             \/ CloseStep
  <2>1. ASSUME NEW a \in Args \union {NoArgs},
               cur[c] # NoSth => /\ db.st[cur[c]].ctype = "default"
                                 /\ a = NoArgs => db.st[cur[c]].stype = "query",
               On(c, IF a = NoArgs THEN "reopen_plain" ELSE "reopen", a, Reopen(db, cur[c], a),
                  LAMBDA r : IF Fails(r) THEN Gone(c) ELSE cur)
        PROVE  ReopenStep
    <3> DEFINE op == IF a = NoArgs THEN "reopen_plain" ELSE "reopen"
    <3>1. op \in {"reopen", "reopen_plain"} /\ (op = "reopen_plain" => a = NoArgs)
      OBVIOUS
    <3>2. On(c, op, a, Reopen(db, cur[c], a), LAMBDA r : IF Fails(r) THEN Gone(c) ELSE cur)
      BY <2>1
    <3> HIDE DEF op
    <3>3. \E r \in Reopen(db, cur[c], a) : DoReopen(c, op, a, r)
      BY <2>1, <3>1, <3>2 DEF On, Step, DoReopen, Took
    <3> QED
      BY <3>1, <3>3 DEF ReopenStep
  <2>2. ASSUME NEW a \in Args, On(c, "bind", a, BindByName(db, cur[c], a), Keep)
        PROVE  BindStep
    BY <2>2 DEF On, Step, Keep, BindStep, DoOn, Took
  <2>3. ASSUME On(c, "define", NoArgs, DefineByPos(db, cur[c]), Keep)
        PROVE  DefineStep
    BY <2>3 DEF On, Step, Keep, DefineStep, DoOn, Took
  <2>4. ASSUME On(c, "execute", NoArgs, Execute(db, cur[c]), Keep)
        PROVE  ExecuteStep
    BY <2>4 DEF On, Step, Keep, ExecuteStep, DoOn, Took
  <2>5. ASSUME On(c, "fetch", NoArgs, Fetch(db, cur[c]), Keep)
        PROVE  FetchStep
    BY <2>5 DEF On, Step, Keep, FetchStep, DoOn, Took
  <2>6. ASSUME On(c, "result", NoArgs, QueryResult(db, cur[c]), Keep)
        PROVE  ResultStep
    BY <2>6 DEF On, Step, Keep, ResultStep, DoOn, Took
  <2>7. ASSUME On(c, "close", NoArgs, Close(db, cur[c]),
                  LAMBDA r : IF Fails(r) THEN cur ELSE Gone(c))
        PROVE  CloseStep
    BY <2>7 DEF On, Step, CloseStep, DoClose, Took
  <2> QED
    BY <1>4, <2>1, <2>2, <2>3, <2>4, <2>5, <2>6, <2>7 DEF CursorCall
<1>5. ASSUME NEW c \in Cursors, NEW e \in Cursors, NewCursorCall(c, e)
      PROVE  NewCursorStep
  <2>1. PICK op \in {"refcursor", "ntable"} :
          On(c, op, NoArgs, NewCursor(db, cur[c], IF op = "refcursor" THEN "ref" ELSE "ntable"),
             LAMBDA r : IF Fails(r) THEN cur ELSE Opened(e, FirstFree(db)))
    BY <1>5 DEF NewCursorCall
  <2>2. cur[e] = NoSth
    BY <1>5 DEF NewCursorCall
  <2> DEFINE ctype == IF op = "refcursor" THEN "ref" ELSE "ntable"
  <2>3. \E r \in NewCursor(db, cur[c], ctype) : DoNewCursor(c, e, op, r)
    <3> HIDE DEF ctype
    <3>1. On(c, op, NoArgs, NewCursor(db, cur[c], ctype),
             LAMBDA r : IF Fails(r) THEN cur ELSE Opened(e, FirstFree(db)))
      BY <2>1 DEF ctype
    <3> QED
      BY <2>2, <3>1 DEF On, Step, DoNewCursor, Took
  <2>4. CASE op = "refcursor"
    BY <2>3, <2>4 DEF NewCursorStep
  <2>5. CASE op = "ntable"
    BY <2>3, <2>5 DEF NewCursorStep
  <2> QED
    BY <2>4, <2>5
<1>6. ASSUME OneShotCall
      PROVE  ExecStep \/ OwnStep
  <2>1. ASSUME NEW stmt \in Statements,
               Step(Call("exec", NoCursor, NoKind, stmt), Exec(db, stmt), Keep),
               UNCHANGED want
        PROVE  ExecStep
    BY <2>1 DEF Step, Keep, ExecStep, DoShot, Took
  <2>2. ASSUME NEW a \in Args,
               Step(Call("exists", NoCursor, "query", a), Exists(db, a), Keep),
               UNCHANGED want
        PROVE  OwnStep
    <3>1. PICK r \in Exists(db, a) : DoShot("exists", "query", a, r)
      BY <2>2 DEF Step, Keep, DoShot, Took
    <3>2. r \in IF FreeSths(db) = {} THEN {Sets(db, "error")} ELSE OwnCursor(db, "query", a, FALSE)
      BY DEF Exists
    <3>3. "exists" \in {"exists", "run"} /\ "query" \in AllKinds /\ FALSE \in BOOLEAN
      BY DEF AllKinds
    <3> QED
      BY <3>1, <3>2, <3>3 DEF OwnStep
  <2>3. ASSUME NEW kind \in Kinds, NEW a \in Args,
               Step(Call("run", NoCursor, kind, a), Run(db, kind, a), Keep),
               UNCHANGED want
        PROVE  OwnStep
    <3>1. PICK r \in Run(db, kind, a) : DoShot("run", kind, a, r)
      BY <2>3 DEF Step, Keep, DoShot, Took
    <3>2. r \in IF FreeSths(db) = {} THEN {Sets(db, "error")} ELSE OwnCursor(db, kind, a, TRUE)
      BY DEF Run
    <3>3. "run" \in {"exists", "run"} /\ kind \in AllKinds /\ TRUE \in BOOLEAN
      BY KindAssumption
    <3> QED
      BY <3>1, <3>2, <3>3 DEF OwnStep
  <2> QED
    BY <1>6, <2>1, <2>2, <2>3 DEF OneShotCall
<1>7. ASSUME BreakCall
      PROVE  BreakStep
  BY <1>7 DEF BreakCall, Step, BreakStep, DoBreak, BreakOutcome, Took
<1>8. ASSUME ModeCall
      PROVE  BlockingStep \/ AutocommitStep
  <2>1. ASSUME NEW on \in BOOLEAN,
               Step(Call("blocking", NoCursor, NoKind, on), SetBlocking(db, on), Keep),
               want' = [want EXCEPT !.nb = IF last'.ret = "ok" THEN {~on} ELSE BOOLEAN]
        PROVE  BlockingStep
    BY <2>1 DEF Step, Keep, BlockingStep, DoBlocking, Took
  <2>2. ASSUME NEW on \in BOOLEAN,
               Step(Call("autocommit", NoCursor, NoKind, on), SetAutocommit(db, on), Keep),
               want' = [want EXCEPT !.auto = on]
        PROVE  AutocommitStep
    BY <2>2 DEF Step, Keep, AutocommitStep, DoAutocommit, Took
  <2> QED
    BY <1>8, <2>1, <2>2 DEF ModeCall
<1>9. ASSUME ConnectionCall
      PROVE  EndStep \/ ConnectStep
  <2>1. want' = [nb |-> {FALSE}, auto |-> FALSE]
    BY <1>9 DEF ConnectionCall
  <2>2. ASSUME Step(Call("finish", NoCursor, NoKind, NoArgs), DbFinish(db), LAMBDA r : AllGone)
        PROVE  EndStep
    BY <2>1, <2>2 DEF Step, EndStep, DoEnd, Took
  <2>3. ASSUME Step(Call("free", NoCursor, NoKind, NoArgs), DbFree(db), LAMBDA r : AllGone)
        PROVE  EndStep
    BY <2>1, <2>3 DEF Step, EndStep, DoEnd, Took
  <2>4. ASSUME Step(Call("connect", NoCursor, NoKind, NoArgs), DbConnect(db), Keep)
        PROVE  ConnectStep
    BY <2>1, <2>4 DEF Step, Keep, ConnectStep, DoConnect, Took
  <2> QED
    BY <1>9, <2>2, <2>3, <2>4 DEF ConnectionCall
<1> QED
  BY <1>1, <1>2, <1>3, <1>4, <1>5, <1>6, <1>7, <1>8, <1>9 DEF Next

-----------------------------------------------------------------------------
(* Type correctness, and free slots without a handle.                      *)

Base == TypeOK /\ db \in Sound

LEMMA TookIs ==
  ASSUME NEW op \in Functions, NEW c \in Cursors \union {NoCursor},
         NEW kind \in AllKinds \union {NoKind},
         NEW a \in Args \union Statements \union {NoArgs} \union BOOLEAN,
         NEW r, r.ret \in Rets, r.db \in Sound, Took(Call(op, c, kind, a), r)
  PROVE  /\ db' \in Sound /\ last' \in [call : Calls, ret : Rets]
         /\ last'.ret = r.ret /\ last'.call = Call(op, c, kind, a)
BY DEF Took, Call, Calls

LEMMA CurIs ==
  ASSUME TypeOK, NEW c \in Cursors, NEW s \in Sths \union {NoSth}
  PROVE  /\ Opened(c, s) \in [Cursors -> Sths \union {NoSth}]
         /\ Gone(c) \in [Cursors -> Sths \union {NoSth}]
         /\ AllGone \in [Cursors -> Sths \union {NoSth}]
         /\ cur[c] # NoSth => cur[c] \in Sths
BY DEF TypeOK, Opened, Gone, AllGone

LEMMA BaseInit == Init => Base
<1> SUFFICES ASSUME Init
             PROVE  Base
  OBVIOUS
<1>1. EmptyStmt \in Stmts /\ EmptyStmt.hp = "null"
  BY DEF EmptyStmt, Stmts
<1>2. [s \in Sths |-> EmptyStmt] \in [Sths -> Stmts]
  BY <1>1
<1>3. EmptyDb \in Dbs /\ EmptyDb.st = [s \in Sths |-> EmptyStmt]
  BY <1>2 DEF EmptyDb, Dbs, Rets
<1>4. FreeClean(EmptyDb)
  BY <1>1, <1>3 DEF FreeClean
<1>5. last \in [call : Calls, ret : Rets]
  BY DEF Init, Calls, Rets
<1>6. db = EmptyDb /\ cur \in [Cursors -> Sths \union {NoSth}]
      /\ want \in [nb : SUBSET BOOLEAN, auto : BOOLEAN]
  BY DEF Init
<1> QED
  BY <1>3, <1>4, <1>5, <1>6 DEF Base, TypeOK, Sound

LEMMA BaseOpen == Base /\ OpenStep => Base'
<1> SUFFICES ASSUME Base, NEW c \in Cursors, NEW kind \in Kinds, NEW a \in Args \union {NoArgs},
                    NEW r \in Open(db, kind, a), DoOpen(c, kind, a, r)
             PROVE  Base'
  BY DEF OpenStep
<1>1. kind \in AllKinds /\ db \in Sound /\ TypeOK
  BY KindAssumption DEF Base
<1>2. /\ r.ret \in Rets /\ r.db \in Sound
      /\ FreeSths(db) = {} => r.ret = "error"
  BY <1>1, OpenIs
<1>3. "open" \in Functions
  BY DEF Functions
<1>4. /\ db' \in Sound /\ last' \in [call : Calls, ret : Rets] /\ db' = r.db
  BY <1>1, <1>2, <1>3, TookIs DEF DoOpen, Took
<1>5. cur' \in [Cursors -> Sths \union {NoSth}]
  <2>1. ~Fails(r) => FirstFree(db) \in Sths
    BY <1>2, FirstFreeIn DEF Fails
  <2> QED
    BY <1>1, <2>1, CurIs DEF DoOpen, TypeOK
<1>6. want' \in [nb : SUBSET BOOLEAN, auto : BOOLEAN]
  BY <1>1 DEF DoOpen, TypeOK
<1> QED
  BY <1>4, <1>5, <1>6 DEF Base, TypeOK, Sound

LEMMA BaseOpen2 == Base /\ Open2Step => Base'
<1> SUFFICES ASSUME Base, NEW c \in Cursors, NEW kind \in Kinds, NEW a \in Args \union {NoArgs},
                    NEW r \in Open2(db, cur[c], kind, a), DoOpen2(c, kind, a, r)
             PROVE  Base'
  BY DEF Open2Step
<1>1. kind \in AllKinds /\ db \in Sound /\ TypeOK
  BY KindAssumption DEF Base
<1>2. /\ r.ret \in Rets /\ r.db \in Sound
      /\ ~GoesOn(db, cur[c]) /\ FreeSths(db) = {} => r.ret = "error"
  BY <1>1, Open2Is
<1>3. "open2" \in Functions
  BY DEF Functions
<1>4. /\ db' \in Sound /\ last' \in [call : Calls, ret : Rets]
  BY <1>1, <1>2, <1>3, TookIs DEF DoOpen2
<1>5. cur' \in [Cursors -> Sths \union {NoSth}]
  <2>1. cur[c] = NoSth => ~GoesOn(db, cur[c])
    BY CursorAssumption DEF GoesOn, Sths, NoSth
  <2>2. ~Fails(r) /\ cur[c] = NoSth => FirstFree(db) \in Sths
    BY <1>2, <2>1, FirstFreeIn DEF Fails
  <2> QED
    BY <1>1, <2>2, CurIs DEF DoOpen2, TypeOK
<1> QED
  BY <1>1, <1>4, <1>5 DEF Base, TypeOK, Sound, DoOpen2

LEMMA BasePrepare == Base /\ PrepareStep => Base'
<1> SUFFICES ASSUME Base, NEW c \in Cursors, NEW kind \in Kinds,
                    NEW r \in PrepareStmt(db, kind), DoPrepare(c, kind, r)
             PROVE  Base'
  BY DEF PrepareStep
<1>1. kind \in AllKinds /\ db \in Sound /\ TypeOK
  BY KindAssumption DEF Base
<1>2. /\ r.ret \in Rets /\ r.db \in Sound
      /\ FreeSths(db) = {} => r.ret = "error"
  BY <1>1, PrepareStmtIs DEF Rets
<1>3. "prepare" \in Functions
  BY DEF Functions
<1>4. /\ db' \in Sound /\ last' \in [call : Calls, ret : Rets]
  BY <1>1, <1>2, <1>3, TookIs DEF DoPrepare
<1>5. cur' \in [Cursors -> Sths \union {NoSth}]
  <2>1. ~Fails(r) => FirstFree(db) \in Sths
    BY <1>2, FirstFreeIn DEF Fails
  <2> QED
    BY <1>1, <2>1, CurIs DEF DoPrepare, TypeOK
<1> QED
  BY <1>1, <1>4, <1>5 DEF Base, TypeOK, Sound, DoPrepare

LEMMA BaseNewCursor == Base /\ NewCursorStep => Base'
<1> SUFFICES ASSUME Base, NEW c \in Cursors, NEW e \in Cursors,
                    NEW op \in {"refcursor", "ntable"}, NEW ctype \in {"ref", "ntable"},
                    NEW r \in NewCursor(db, cur[c], ctype), DoNewCursor(c, e, op, r)
             PROVE  Base'
  BY DEF NewCursorStep
<1>1. db \in Sound /\ TypeOK /\ cur[c] \in Sths
  BY CurIs DEF Base, DoNewCursor
<1>2. /\ r.ret \in Rets /\ r.db \in Sound
  BY <1>1, NewCursorIs DEF Rets
<1>3. FreeSths(db) = {} => r.ret = "error"
  <2> SUFFICES ASSUME FreeSths(db) = {}
               PROVE  r.ret = "error"
    OBVIOUS
  <2>1. db.st[cur[c]].used
    BY <1>1 DEF FreeSths
  <2> QED
    BY <1>1, <2>1, NewCursorIs
<1>4. op \in Functions
  BY DEF Functions
<1>5. /\ db' \in Sound /\ last' \in [call : Calls, ret : Rets]
  BY <1>1, <1>2, <1>4, TookIs DEF DoNewCursor
<1>6. cur' \in [Cursors -> Sths \union {NoSth}]
  <2>1. ~Fails(r) => FirstFree(db) \in Sths
    BY <1>3, FirstFreeIn DEF Fails
  <2> QED
    BY <1>1, <2>1, CurIs DEF DoNewCursor, TypeOK
<1> QED
  BY <1>1, <1>5, <1>6 DEF Base, TypeOK, Sound, DoNewCursor

LEMMA BaseReopen == Base /\ ReopenStep => Base'
<1> SUFFICES ASSUME Base, NEW c \in Cursors, NEW op \in {"reopen", "reopen_plain"},
                    NEW a \in Args \union {NoArgs},
                    NEW r \in Reopen(db, cur[c], a), DoReopen(c, op, a, r)
             PROVE  Base'
  BY DEF ReopenStep
<1>1. db \in Sound /\ TypeOK /\ cur[c] \in Sths
  BY CurIs DEF Base, DoReopen
<1>2. /\ r.ret \in Rets /\ r.db \in Sound
  BY <1>1, ReopenIs
<1>3. op \in Functions
  BY DEF Functions
<1>4. /\ db' \in Sound /\ last' \in [call : Calls, ret : Rets]
  BY <1>1, <1>2, <1>3, TookIs DEF DoReopen
<1>5. cur' \in [Cursors -> Sths \union {NoSth}]
  BY <1>1, CurIs DEF DoReopen, TypeOK
<1> QED
  BY <1>1, <1>4, <1>5 DEF Base, TypeOK, Sound, DoReopen

\* A call that leaves the variables of the application alone.
LEMMA BaseOn ==
  ASSUME Base, NEW op \in Functions, NEW c \in Cursors, NEW a \in Args \union {NoArgs},
         NEW r, r.ret \in Rets, r.db \in Sound, DoOn(c, op, a, r)
  PROVE  Base'
<1>1. /\ db' \in Sound /\ last' \in [call : Calls, ret : Rets]
  BY TookIs DEF DoOn
<1> QED
  BY <1>1 DEF Base, TypeOK, Sound, DoOn

LEMMA BaseCalls ==
  /\ Base /\ BindStep => Base'
  /\ Base /\ DefineStep => Base'
  /\ Base /\ ExecuteStep => Base'
  /\ Base /\ FetchStep => Base'
  /\ Base /\ ResultStep => Base'
<1>1. \A c \in Cursors : Base /\ cur[c] # NoSth => db \in Sound /\ cur[c] \in Sths
  BY CurIs DEF Base
<1>2. /\ "bind" \in Functions /\ "define" \in Functions /\ "execute" \in Functions
      /\ "fetch" \in Functions /\ "result" \in Functions
  BY DEF Functions
<1>3. ASSUME Base, NEW c \in Cursors, NEW a \in Args, NEW r \in BindByName(db, cur[c], a),
             DoOn(c, "bind", a, r)
      PROVE  Base'
  <2>1. r.ret \in Rets /\ r.db \in Sound
    BY <1>1, <1>3, BindByNameIs DEF DoOn, Rets
  <2> QED
    BY <1>2, <1>3, <2>1, BaseOn
<1>4. ASSUME Base, NEW c \in Cursors, NEW r \in DefineByPos(db, cur[c]),
             DoOn(c, "define", NoArgs, r)
      PROVE  Base'
  <2>1. r.ret \in Rets /\ r.db \in Sound
    BY <1>1, <1>4, DefineByPosIs DEF DoOn, Rets
  <2> QED
    BY <1>2, <1>4, <2>1, BaseOn
<1>5. ASSUME Base, NEW c \in Cursors, NEW r \in Execute(db, cur[c]),
             DoOn(c, "execute", NoArgs, r)
      PROVE  Base'
  <2>1. r.ret \in Rets /\ r.db \in Sound
    BY <1>1, <1>5, ExecuteIs DEF DoOn
  <2> QED
    BY <1>2, <1>5, <2>1, BaseOn
<1>6. ASSUME Base, NEW c \in Cursors, NEW r \in Fetch(db, cur[c]), DoOn(c, "fetch", NoArgs, r)
      PROVE  Base'
  <2>1. r.ret \in Rets /\ r.db \in Sound
    BY <1>1, <1>6, FetchIs DEF DoOn
  <2> QED
    BY <1>2, <1>6, <2>1, BaseOn
<1>7. ASSUME Base, NEW c \in Cursors, NEW r \in QueryResult(db, cur[c]),
             DoOn(c, "result", NoArgs, r)
      PROVE  Base'
  <2>1. r.ret \in Rets /\ r.db \in Sound
    BY <1>1, <1>7, QueryResultIs DEF DoOn
  <2> QED
    BY <1>2, <1>7, <2>1, BaseOn
<1> QED
  BY <1>3, <1>4, <1>5, <1>6, <1>7
     DEF BindStep, DefineStep, ExecuteStep, FetchStep, ResultStep

LEMMA BaseClose == Base /\ CloseStep => Base'
<1> SUFFICES ASSUME Base, NEW c \in Cursors, NEW r \in Close(db, cur[c]), DoClose(c, r)
             PROVE  Base'
  BY DEF CloseStep
<1>1. db \in Sound /\ TypeOK /\ cur[c] \in Sths
  BY CurIs DEF Base, DoClose
<1>2. r.ret \in Rets /\ r.db \in Sound
  BY <1>1, CloseIs DEF Rets
<1>3. "close" \in Functions
  BY DEF Functions
<1>4. /\ db' \in Sound /\ last' \in [call : Calls, ret : Rets]
  BY <1>1, <1>2, <1>3, TookIs DEF DoClose
<1>5. cur' \in [Cursors -> Sths \union {NoSth}]
  BY <1>1, CurIs DEF DoClose, TypeOK
<1> QED
  BY <1>1, <1>4, <1>5 DEF Base, TypeOK, Sound, DoClose

\* sqlo_exists, sqlo_count and sqlo_run.
LEMMA OwnIs ==
  ASSUME NEW x \in Sound, NEW kind \in AllKinds, NEW a \in Args, NEW always \in BOOLEAN,
         NEW r \in IF FreeSths(x) = {} THEN {Sets(x, "error")}
                   ELSE OwnCursor(x, kind, a, always)
  PROVE  LET s == FirstFree(x)
         IN  /\ r.ret \in Rets /\ r.ret # "busy" /\ r.db \in Sound /\ SameConn(x, r.db)
             /\ FreeSths(x) = {} => r.db.st = x.st /\ r.db.busy = x.busy
             /\ FreeSths(x) # {} /\ Steady(x) => Within(x, s, r.db) /\ Marked(r.db, s)
             /\ FreeSths(x) # {} /\ Steady(x) /\ Sure(x) /\ Clean(x.st[s])
                  /\ (always \/ (kind = "query" /\ "fetch" \notin Faults)) =>
                  Freed(r.db.st[s])
<1>1. CASE FreeSths(x) = {}
  <2>1. 0 \in Sths /\ "error" \in Rets /\ r = Sets(x, "error")
    BY <1>1, CursorAssumption DEF Sths, Rets
  <2> QED
    BY <1>1, <2>1, SetsIs DEF Within
<1>2. CASE FreeSths(x) # {}
  <2>1. r \in OwnCursor(x, kind, a, always)
    BY <1>2
  <2> QED
    BY <1>2, <2>1, OwnCursorIs
<1> QED
  BY <1>1, <1>2

LEMMA BaseShot == Base /\ (ExecStep \/ OwnStep) => Base'
<1>1. ASSUME Base, NEW op \in Functions, NEW kind \in AllKinds \union {NoKind},
             NEW a \in Args \union Statements, NEW r, r.ret \in Rets, r.db \in Sound,
             DoShot(op, kind, a, r)
      PROVE  Base'
  <2>1. /\ db' \in Sound /\ last' \in [call : Calls, ret : Rets]
    BY <1>1, TookIs DEF DoShot
  <2> QED
    BY <1>1, <2>1 DEF Base, TypeOK, Sound, DoShot
<1>2. ASSUME Base, NEW stmt \in Statements, NEW r \in Exec(db, stmt),
             DoShot("exec", NoKind, stmt, r)
      PROVE  Base'
  <2>1. r.ret \in Rets /\ r.db \in Sound /\ "exec" \in Functions
    BY <1>2, ExecIs DEF Base, Functions
  <2> QED
    BY <1>1, <1>2, <2>1
<1>3. ASSUME Base, NEW op \in {"exists", "run"}, NEW kind \in AllKinds, NEW a \in Args,
             NEW always \in BOOLEAN,
             NEW r \in IF FreeSths(db) = {} THEN {Sets(db, "error")}
                       ELSE OwnCursor(db, kind, a, always),
             DoShot(op, kind, a, r)
      PROVE  Base'
  <2>1. db \in Sound /\ op \in Functions
    BY <1>3 DEF Base, Functions
  <2>2. r.ret \in Rets /\ r.db \in Sound
    BY <2>1, OwnIs
  <2> QED
    BY <1>1, <1>3, <2>1, <2>2
<1> QED
  BY <1>2, <1>3 DEF ExecStep, OwnStep

LEMMA BreakOutcomeIs ==
  ASSUME NEW r
  PROVE  /\ BreakOutcome(r).db = r.db /\ BreakOutcome(r).ret \in {r.ret, "busy"}
         /\ BreakOutcome(r).ret = IF Busy /\ r.ret # "ok" THEN "busy" ELSE r.ret
BY DEF BreakOutcome, Result

LEMMA BaseBreak == Base /\ BreakStep => Base'
<1> SUFFICES ASSUME Base, NEW r \in Break(db), DoBreak(r)
             PROVE  Base'
  BY DEF BreakStep
<1> DEFINE c == IF Busy THEN last.call.cur ELSE NoCursor
           q == BreakOutcome(r)
<1>1. db \in Sound /\ TypeOK
  BY DEF Base
<1>2. c \in Cursors \union {NoCursor}
  BY <1>1 DEF TypeOK, Calls
<1>3. r.ret \in Rets /\ r.db \in Sound
  BY <1>1, BreakIs
<1>4. q.ret \in Rets /\ q.db \in Sound
  BY <1>3, BreakOutcomeIs DEF Rets
<1>5. "break" \in Functions
  BY DEF Functions
<1>6. /\ Took(Call("break", c, NoKind, NoArgs), q) /\ want' = want
      /\ cur' = IF q.ret = "ok" /\ c # NoCursor THEN Gone(c) ELSE cur
  BY DEF DoBreak
<1> HIDE DEF c, q
<1>7. /\ db' \in Sound /\ last' \in [call : Calls, ret : Rets]
  BY <1>1, <1>2, <1>4, <1>5, <1>6, TookIs
<1>8. cur' \in [Cursors -> Sths \union {NoSth}]
  BY <1>1, <1>2, <1>6, CurIs DEF TypeOK
<1> QED
  BY <1>1, <1>6, <1>7, <1>8 DEF Base, TypeOK, Sound

LEMMA BaseModes == Base /\ (BlockingStep \/ AutocommitStep) => Base'
<1>1. ASSUME Base, NEW on \in BOOLEAN, NEW r \in SetBlocking(db, on), DoBlocking(on, r)
      PROVE  Base'
  <2>1. db \in Sound /\ TypeOK /\ "blocking" \in Functions
    BY <1>1 DEF Base, Functions
  <2>2. r.ret \in Rets /\ r.db \in Sound
    BY <2>1, SetBlockingIs DEF Switched, Rets
  <2>3. db' \in Sound /\ last' \in [call : Calls, ret : Rets]
    BY <1>1, <2>1, <2>2, TookIs DEF DoBlocking
  <2>4. want' \in [nb : SUBSET BOOLEAN, auto : BOOLEAN]
    BY <1>1, <2>1 DEF DoBlocking, TypeOK
  <2> QED
    BY <1>1, <2>1, <2>3, <2>4 DEF Base, TypeOK, Sound, DoBlocking
<1>2. ASSUME Base, NEW on \in BOOLEAN, NEW r \in SetAutocommit(db, on), DoAutocommit(on, r)
      PROVE  Base'
  <2>1. db \in Sound /\ TypeOK /\ "autocommit" \in Functions
    BY <1>2 DEF Base, Functions
  <2>2. r.ret \in Rets /\ r.db \in Sound
    BY <2>1, SetAutocommitIs DEF Rets
  <2>3. db' \in Sound /\ last' \in [call : Calls, ret : Rets]
    BY <1>2, <2>1, <2>2, TookIs DEF DoAutocommit
  <2>4. want' \in [nb : SUBSET BOOLEAN, auto : BOOLEAN]
    BY <1>2, <2>1 DEF DoAutocommit, TypeOK
  <2> QED
    BY <1>2, <2>1, <2>3, <2>4 DEF Base, TypeOK, Sound, DoAutocommit
<1> QED
  BY <1>1, <1>2 DEF BlockingStep, AutocommitStep

LEMMA BaseConnection == Base /\ (EndStep \/ ConnectStep) => Base'
<1>1. ASSUME Base, NEW op \in {"finish", "free"}, NEW r \in DbFinish(db) \union DbFree(db),
             DoEnd(op, r)
      PROVE  Base'
  <2>1. db \in Sound /\ TypeOK /\ op \in Functions
    BY <1>1 DEF Base, Functions
  <2>2. r.ret \in Rets /\ r.db \in Sound
    BY <2>1, DbEndIs DEF Emptied, Rets
  <2>3. db' \in Sound /\ last' \in [call : Calls, ret : Rets]
    BY <1>1, <2>1, <2>2, TookIs DEF DoEnd
  <2>4. cur' \in [Cursors -> Sths \union {NoSth}] /\ want' \in [nb : SUBSET BOOLEAN, auto : BOOLEAN]
    BY <1>1 DEF DoEnd, AllGone
  <2> QED
    BY <2>3, <2>4 DEF Base, TypeOK, Sound
<1>2. ASSUME Base, NEW r \in DbConnect(db), DoConnect(r)
      PROVE  Base'
  <2>1. db \in Sound /\ TypeOK /\ "connect" \in Functions
    BY <1>2 DEF Base, Functions
  <2>2. r.ret \in Rets /\ r.db \in Sound
    BY <2>1, DbConnectIs DEF Rets
  <2>3. db' \in Sound /\ last' \in [call : Calls, ret : Rets]
    BY <1>2, <2>1, <2>2, TookIs DEF DoConnect
  <2>4. cur' \in [Cursors -> Sths \union {NoSth}] /\ want' \in [nb : SUBSET BOOLEAN, auto : BOOLEAN]
    BY <1>2, <2>1 DEF DoConnect, TypeOK
  <2> QED
    BY <2>3, <2>4 DEF Base, TypeOK, Sound
<1> QED
  BY <1>1, <1>2 DEF EndStep, ConnectStep

LEMMA BaseStep == Base /\ [Next]_vars => Base'
<1>1. Base /\ UNCHANGED vars => Base'
  BY DEF Base, TypeOK, vars
<1>2. Base /\ Next => Base'
  BY NextIs, BaseOpen, BaseOpen2, BasePrepare, BaseNewCursor, BaseReopen, BaseCalls, BaseClose,
     BaseShot, BaseBreak, BaseModes, BaseConnection
<1> QED
  BY <1>1, <1>2

\* The variables always have the values they were declared to have: whatever
\* fails or answers "busy", every handle is that of a slot and every function
\* returns one of the four codes.
THEOREM TypeCorrect == Spec => []TypeOK
<1>1. Base => TypeOK
  BY DEF Base
<1> QED
  BY <1>1, BaseInit, BaseStep, PTL DEF Spec

\* A slot is never free, and given out again, with a live OCI handle.
THEOREM FreeSlotsHoldNothing == Spec => []FreeHoldsNothing
<1>1. Base => FreeHoldsNothing
  BY DEF Base, Sound, FreeClean, FreeHoldsNothing
<1> QED
  BY <1>1, BaseInit, BaseStep, PTL DEF Spec

-----------------------------------------------------------------------------
(* The modes of the connection are those the application asked for.  Only  *)
(* sqlo_open, which switches to blocking mode and back, and the calls that *)
(* set a mode or attach the server write them.                             *)

SameModes ==
  /\ db'.up = db.up /\ db'.nb = db.nb /\ db'.auto = db.auto
  /\ want' = want

\* The functions on statements leave the connection alone.
LEMMA SameConnIs ==
  ASSUME Base,
         \/ Open2Step \/ PrepareStep \/ NewCursorStep
         \/ ReopenStep \/ BindStep \/ DefineStep \/ ExecuteStep \/ FetchStep \/ ResultStep
         \/ CloseStep \/ OwnStep
  PROVE  SameConn(db, db') /\ want' = want
<1>1. ASSUME NEW r, SameConn(db, r.db), db' = r.db, want' = want
      PROVE  SameConn(db, db') /\ want' = want
  BY <1>1
<1>2. db \in Sound /\ TypeOK /\ Kinds \subseteq AllKinds
  BY KindAssumption DEF Base
<1>3. \A c \in Cursors : cur[c] # NoSth => cur[c] \in Sths
  BY <1>2, CurIs
<1>4. ASSUME NEW r, NEW s, Within(db, s, r.db), db' = r.db, want' = want
      PROVE  SameConn(db, db') /\ want' = want
  BY <1>1, <1>4 DEF Within
<1>5. ASSUME NEW c \in Cursors, NEW kind \in Kinds, NEW a \in Args \union {NoArgs},
             NEW r \in Open2(db, cur[c], kind, a), DoOpen2(c, kind, a, r)
      PROVE  SameConn(db, db') /\ want' = want
  <2>1. SameConn(db, r.db)
    BY <1>2, Open2Is
  <2> QED
    BY <1>1, <1>5, <2>1 DEF DoOpen2, Took
<1>6. ASSUME NEW c \in Cursors, NEW kind \in Kinds, NEW r \in PrepareStmt(db, kind),
             DoPrepare(c, kind, r)
      PROVE  SameConn(db, db') /\ want' = want
  <2>1. SameConn(db, r.db)
    BY <1>2, PrepareStmtIs
  <2> QED
    BY <1>1, <1>6, <2>1 DEF DoPrepare, Took
<1>7. ASSUME NEW c \in Cursors, NEW e \in Cursors, NEW op \in {"refcursor", "ntable"},
             NEW ctype \in {"ref", "ntable"}, NEW r \in NewCursor(db, cur[c], ctype),
             DoNewCursor(c, e, op, r)
      PROVE  SameConn(db, db') /\ want' = want
  <2>1. SameConn(db, r.db)
    BY <1>2, <1>3, <1>7, NewCursorIs DEF DoNewCursor
  <2> QED
    BY <1>1, <1>7, <2>1 DEF DoNewCursor, Took
<1>8. ASSUME NEW c \in Cursors, NEW op, NEW a \in Args \union {NoArgs},
             NEW r \in Reopen(db, cur[c], a), DoReopen(c, op, a, r)
      PROVE  SameConn(db, db') /\ want' = want
  <2>1. Within(db, cur[c], r.db)
    BY <1>2, <1>3, <1>8, ReopenIs DEF DoReopen
  <2> QED
    BY <1>4, <1>8, <2>1 DEF DoReopen, Took
<1>9. ASSUME NEW c \in Cursors, NEW op, NEW a \in Args \union {NoArgs}, NEW r,
             DoOn(c, op, a, r),
             cur[c] \in Sths => Within(db, cur[c], r.db)
      PROVE  SameConn(db, db') /\ want' = want
  BY <1>3, <1>4, <1>9 DEF DoOn, Took
<1>10. ASSUME NEW c \in Cursors, cur[c] \in Sths, NEW r
       PROVE  /\ \A a \in Args : r \in BindByName(db, cur[c], a) => Within(db, cur[c], r.db)
              /\ r \in DefineByPos(db, cur[c]) => Within(db, cur[c], r.db)
              /\ r \in Execute(db, cur[c]) => Within(db, cur[c], r.db)
              /\ r \in Fetch(db, cur[c]) => Within(db, cur[c], r.db)
              /\ r \in QueryResult(db, cur[c]) => Within(db, cur[c], r.db)
              /\ r \in Close(db, cur[c]) => Within(db, cur[c], r.db)
  BY <1>2, <1>10, BindByNameIs, DefineByPosIs, ExecuteIs, FetchIs, QueryResultIs, CloseIs
<1>11. BindStep => SameConn(db, db') /\ want' = want
  BY <1>9, <1>10 DEF BindStep
<1>12. DefineStep => SameConn(db, db') /\ want' = want
  BY <1>9, <1>10 DEF DefineStep
<1>13. ExecuteStep => SameConn(db, db') /\ want' = want
  BY <1>9, <1>10 DEF ExecuteStep
<1>14. FetchStep => SameConn(db, db') /\ want' = want
  BY <1>9, <1>10 DEF FetchStep
<1>15. ResultStep => SameConn(db, db') /\ want' = want
  BY <1>9, <1>10 DEF ResultStep
<1>16. CloseStep => SameConn(db, db') /\ want' = want
  BY <1>3, <1>4, <1>10 DEF CloseStep, DoClose, Took
<1>17. OwnStep => SameConn(db, db') /\ want' = want
  <2> SUFFICES ASSUME NEW op, NEW kind \in AllKinds, NEW a \in Args, NEW always \in BOOLEAN,
                      NEW r \in IF FreeSths(db) = {} THEN {Sets(db, "error")}
                                ELSE OwnCursor(db, kind, a, always),
                      DoShot(op, kind, a, r)
               PROVE  SameConn(db, db') /\ want' = want
    BY DEF OwnStep
  <2>1. SameConn(db, r.db)
    BY <1>2, OwnIs
  <2> QED
    BY <1>1, <2>1 DEF DoShot, Took
<1> QED
  BY <1>5, <1>6, <1>7, <1>8, <1>11, <1>12, <1>13, <1>14, <1>15, <1>16, <1>17
     DEF Open2Step, PrepareStep, NewCursorStep, ReopenStep

\* And these the modes.
LEMMA SameModesIs ==
  ASSUME Base,
         \/ Open2Step \/ PrepareStep \/ NewCursorStep
         \/ ReopenStep \/ BindStep \/ DefineStep \/ ExecuteStep \/ FetchStep \/ ResultStep
         \/ CloseStep \/ ExecStep \/ OwnStep \/ BreakStep
  PROVE  SameModes
<1>1. SameConn(db, db') /\ want' = want => SameModes
  BY DEF SameConn, SameModes
<1>2. db \in Sound
  BY DEF Base
<1>3. ExecStep => SameModes
  BY <1>2, ExecIs DEF ExecStep, DoShot, Took, Apart, SameModes
<1>4. BreakStep => SameModes
  <2> SUFFICES ASSUME NEW r \in Break(db), DoBreak(r)
               PROVE  SameModes
    BY DEF BreakStep
  <2>1. r.db.up = db.up /\ r.db.nb = db.nb /\ r.db.auto = db.auto
    BY <1>2, BreakIs
  <2>2. db' = r.db /\ want' = want
    BY BreakOutcomeIs DEF DoBreak, Took
  <2> QED
    BY <2>1, <2>2 DEF SameModes
<1> QED
  BY <1>1, <1>3, <1>4, SameConnIs

LEMMA ModesStep == Base /\ ModesAsAsked /\ [Next]_vars => ModesAsAsked'
<1> SUFFICES ASSUME Base, ModesAsAsked, [Next]_vars
             PROVE  ModesAsAsked'
  OBVIOUS
<1>1. db \in Sound /\ TypeOK /\ Kinds \subseteq AllKinds
  BY KindAssumption DEF Base
<1>2. want \in [nb : SUBSET BOOLEAN, auto : BOOLEAN]
  BY <1>1 DEF TypeOK
<1>3. CASE SameModes
  BY <1>3 DEF SameModes, ModesAsAsked
<1>4. CASE UNCHANGED vars
  BY <1>4 DEF vars, ModesAsAsked
<1>5. ASSUME NEW c \in Cursors, NEW kind \in Kinds, NEW a \in Args \union {NoArgs},
             NEW r \in Open(db, kind, a), DoOpen(c, kind, a, r)
      PROVE  ModesAsAsked'
  <2>1. /\ r.db.up = db.up /\ r.db \in Sound
        /\ r.ret = "ok" => r.db.nb = db.nb
    BY <1>1, OpenIs
  <2>2. db' = r.db /\ want'.nb = IF r.ret = "ok" THEN want.nb ELSE want.nb \union {FALSE}
    BY <1>2, <1>5 DEF DoOpen, Took
  <2>3. db.nb \in BOOLEAN /\ r.db.nb \in BOOLEAN
    BY <1>1, <2>1 DEF Sound, Dbs
  <2>4. r.db.nb = db.nb \/ r.db.nb = FALSE
    <3>1. CASE db.nb
      BY <2>3, <3>1
    <3>2. CASE ~db.nb
      BY <1>1, <2>3, <3>2, OpenStaysBlocking
    <3> QED
      BY <3>1, <3>2
  <2> QED
    BY <2>1, <2>2, <2>4 DEF ModesAsAsked
<1>6. ASSUME NEW on \in BOOLEAN, NEW r \in SetBlocking(db, on), DoBlocking(on, r)
      PROVE  ModesAsAsked'
  <2>1. r.db \in Sound /\ (r.ret = "ok" => r.db.nb = ~on)
    BY <1>1, SetBlockingIs DEF Switched
  <2>2. db' = r.db /\ want'.nb = IF r.ret = "ok" THEN {~on} ELSE BOOLEAN
    BY <1>2, <1>6 DEF DoBlocking, Took
  <2>3. r.db.nb \in BOOLEAN
    BY <2>1 DEF Sound, Dbs
  <2> QED
    BY <2>1, <2>2, <2>3 DEF ModesAsAsked
<1>7. ASSUME NEW on \in BOOLEAN, NEW r \in SetAutocommit(db, on), DoAutocommit(on, r)
      PROVE  ModesAsAsked'
  <2>1. r.db.up = db.up /\ r.db.nb = db.nb
    BY <1>1, SetAutocommitIs
  <2>2. db' = r.db /\ want'.nb = want.nb
    BY <1>2, <1>7 DEF DoAutocommit, Took
  <2> QED
    BY <2>1, <2>2 DEF ModesAsAsked
<1>8. ASSUME NEW op, NEW r \in DbFinish(db) \union DbFree(db), DoEnd(op, r)
      PROVE  ModesAsAsked'
  <2>1. ~r.db.up /\ db' = r.db
    BY <1>1, <1>8, DbEndIs DEF DoEnd, Took, Emptied
  <2> QED
    BY <2>1 DEF ModesAsAsked
<1>9. ASSUME NEW r \in DbConnect(db), DoConnect(r)
      PROVE  ModesAsAsked'
  <2>1. r.db \in Sound /\ ~r.db.nb /\ db' = r.db
    BY <1>1, <1>9, DbConnectIs DEF DoConnect, Took
  <2>2. r.db.nb = FALSE
    BY <2>1 DEF Sound, Dbs
  <2>3. want'.nb = {FALSE}
    BY <1>9 DEF DoConnect
  <2> QED
    BY <2>1, <2>2, <2>3 DEF ModesAsAsked
<1>10. Next => SameModes \/ OpenStep \/ BlockingStep \/ AutocommitStep \/ EndStep \/ ConnectStep
  BY NextIs, SameModesIs
<1> QED
  BY <1>3, <1>4, <1>5, <1>6, <1>7, <1>8, <1>9, <1>10
     DEF OpenStep, BlockingStep, AutocommitStep, EndStep, ConnectStep

LEMMA ModesInit == Init => ModesAsAsked
BY DEF Init, EmptyDb, ModesAsAsked

\* Whatever is called and whatever fails, the connection is in a mode the
\* application has to reckon with: the one it set last, also after an sqlo_open
\* that changed it for a while and succeeded; or blocking mode, after an
\* sqlo_open that failed; and in either only after sqlo_set_blocking itself
\* failed.
THEOREM AskedModes == Spec => []ModesAsAsked
<1> QED
  BY BaseInit, ModesInit, BaseStep, ModesStep, PTL DEF Spec

-----------------------------------------------------------------------------
(* The handles the application holds, and the statements that go on.       *)

\* No call fails that may have been busy, and sqlo_query_result is not called:
\* what is marked as still executing is what goes on.  Quiet: no value fails to
\* bind, and an application that calls sqlo_break, which closes what is marked,
\* is Tidy.
Tidy ==
  /\ "result" \notin ClientCalls
  /\ \A l \in {"execute", "nodata", "fetch", "free"} : l \notin Faults
Quiet ==
  /\ "bind" \notin Faults
  /\ "break" \in ClientCalls => Tidy

\* The calls that reopen a query, those that mark a statement as still
\* executing, and those on one on which OCI may work.
Reopens  == {"open2", "reopen", "reopen_plain"}
StillOps == Reopens \union {"fetch", "execute"}
BusyOps  == StillOps \union {"result"}

\* The statement in variable c is the one whose call is to be repeated, and it
\* can be: the call will find it where it left it.
StillGoing(c) ==
  LET t  == db.st[cur[c]]
      op == last.call.op
  IN  /\ Busy /\ last.call.cur = c /\ t.hp = "live"
      /\ op \in StillOps \union {"break"}
      /\ op \in Reopens => t.stype = "query"
      /\ op = "open2" => GoesOn(db, cur[c])
      /\ op = "fetch" /\ t.stype = "query" => t.exec
      /\ op = "execute" => t.prepared /\ ~ToDescribe(db, cur[c])
\* The same of the statement on which OCI works: a call that goes on is the last
\* one made, or was broken off without success.
BusyGoing(c) ==
  LET t  == db.st[cur[c]]
      op == last.call.op
  IN  /\ Busy /\ last.call.cur = c
      /\ op \in BusyOps \union {"break"}
      /\ op \in Reopens \union {"result"} => t.stype = "query"
      /\ op \in Reopens => t.ctype # "ref" /\ (t.ran \/ ~t.defs)
      /\ op = "open2" => GoesOn(db, cur[c])
      /\ op = "execute" => t.prepared /\ ~ToDescribe(db, cur[c])

\* OCI works on a statement in use.  What is marked, and what goes on, of the
\* statements the application holds is the last call's; one that sqlo_open2 goes
\* on with is in the variable given to it.  Only nested tables go on unmarked.
BusyUsed  == db.busy \in Sths => db.st[db.busy].used
StillHeld == \A c \in Cursors : cur[c] # NoSth /\ db.st[cur[c]].still => StillGoing(c)
BusyHeld  == \A c \in Cursors : cur[c] # NoSth /\ cur[c] = db.busy => BusyGoing(c)
NoNtable  == \A s \in Sths : db.st[s].ctype # "ntable"
OpenGoing == Busy /\ last.call.op = "open2" =>
               last.call.cur \in Cursors /\ cur[last.call.cur] = db.busy /\ db.busy \in Sths

HandleInv == HandlesValid /\ BusyUsed /\ (Tidy => StillHeld)
MarkInv   == GoingOnIsMarked /\ BusyHeld /\ OpenGoing /\ NoNtable

\* No variable holds a statement that is marked, or that goes on, other than c.
OnlyStill(c) == \A e \in Cursors : e # c /\ cur[e] # NoSth => ~db.st[cur[e]].still
OnlyBusy(c)  == \A e \in Cursors : e # c /\ cur[e] # NoSth => cur[e] # db.busy

\* A call that is no break and no free is the only one, or repeats the last.
LEMMA OnlyOne ==
  ASSUME NEW op, NEW c, NEW kind, NEW a, NEW r, Took(Call(op, c, kind, a), r),
         op \notin {"break", "free"}
  PROVE  /\ StillHeld => /\ OnlyStill(c)
                         /\ op \notin StillOps => OnlyStill(NoCursor)
                         /\ c \in Cursors /\ cur[c] # NoSth /\ db.st[cur[c]].still =>
                              StillGoing(c) /\ last.call.op = op
         /\ BusyHeld => /\ OnlyBusy(c)
                        /\ op \notin BusyOps => OnlyBusy(NoCursor)
                        /\ c \in Cursors /\ cur[c] # NoSth /\ cur[c] = db.busy =>
                             BusyGoing(c) /\ last.call.op = op
<1>1. Busy => last.call.op = op /\ last.call.cur = c
  BY DEF Took, Call
<1>2. \A e \in Cursors : StillGoing(e) => last.call.op = op /\ c = e /\ op \in StillOps
  BY <1>1 DEF StillGoing
<1>3. \A e \in Cursors : BusyGoing(e) => last.call.op = op /\ c = e /\ op \in BusyOps
  BY <1>1 DEF BusyGoing
<1> QED
  BY <1>2, <1>3 DEF StillHeld, BusyHeld, OnlyStill, OnlyBusy

\* What a step does to slots it does not work on.
Alike(x, y, s) ==
  \A u \in Sths \ {s} : y.st[u].used = x.st[u].used /\ y.st[u].still = x.st[u].still

\* A step that works on a free slot s, and may give its handle to variable e.
Gives(e, s) == cur[e] = NoSth /\ cur' = Opened(e, s) /\ db'.st[s].used
Loses == \A e \in Cursors : cur'[e] \in {cur[e], NoSth}

LEMMA AtFreeHandles ==
  ASSUME TypeOK, TypeOK', HandleInv, NEW s \in FreeSths(db), Alike(db, db', s),
         Tidy => OnlyStill(NoCursor),
         db'.busy \in {db.busy, NoSth, s}, db'.busy = s => db'.st[s].used,
         \/ Loses
         \/ \E e \in Cursors : Gives(e, s) /\ (db'.st[s].still => StillGoing(e)')
  PROVE  HandleInv'
<1>1. s \in Sths /\ ~db.st[s].used
  BY DEF FreeSths
<1>2. \A e \in Cursors : cur[e] # NoSth => /\ cur[e] \in Sths /\ cur[e] # s /\ db.st[cur[e]].used
                                           /\ db'.st[cur[e]].used
                                           /\ db'.st[cur[e]].still = db.st[cur[e]].still
  BY <1>1 DEF TypeOK, HandleInv, HandlesValid, Alike
<1>3. \A e \in Cursors : Tidy /\ cur[e] # NoSth => ~db'.st[cur[e]].still
  BY <1>2, CursorNames DEF OnlyStill
<1>4. BusyUsed'
  <2>1. db.busy \in Sths => db.busy # s /\ db'.st[db.busy].used
    BY <1>1 DEF HandleInv, BusyUsed, Alike
  <2>2. NoSth \notin Sths
    BY CursorAssumption DEF Sths, NoSth
  <2> QED
    BY <2>1, <2>2 DEF BusyUsed
<1>5. CASE Loses
  <2>1. HandlesValid'
    BY <1>2, <1>5 DEF HandleInv, HandlesValid, Loses
  <2>2. Tidy => StillHeld'
    BY <1>3, <1>5 DEF StillHeld, Loses
  <2> QED
    BY <1>4, <2>1, <2>2 DEF HandleInv
<1>6. ASSUME NEW e \in Cursors, Gives(e, s), db'.st[s].still => StillGoing(e)'
      PROVE  HandleInv'
  <2>1. cur'[e] = s /\ \A c \in Cursors : c # e => cur'[c] = cur[c]
    BY <1>6 DEF Gives, Opened, TypeOK
  <2>2. HandlesValid'
    BY <1>2, <1>6, <2>1 DEF Gives, HandleInv, HandlesValid
  <2>3. Tidy => StillHeld'
    BY <1>3, <1>6, <2>1 DEF StillHeld
  <2> QED
    BY <1>4, <2>2, <2>3 DEF HandleInv
<1> QED
  BY <1>5, <1>6

LEMMA AtFreeMarks ==
  ASSUME TypeOK, TypeOK', HandleInv, MarkInv, NEW s \in FreeSths(db), Alike(db, db', s),
         OnlyBusy(NoCursor), NoNtable', OpenGoing',
         db'.busy \in {db.busy, NoSth, s}, db'.busy = s => db'.st[s].still,
         \/ Loses
         \/ \E e \in Cursors : Gives(e, s) /\ (db'.busy = s => BusyGoing(e)')
  PROVE  MarkInv'
<1>1. s \in Sths /\ ~db.st[s].used /\ NoSth \notin Sths
  BY CursorAssumption DEF FreeSths, Sths, NoSth
<1>2. \A e \in Cursors : cur[e] # NoSth => cur[e] # s /\ cur[e] # db.busy
  BY <1>1, CursorNames DEF HandleInv, HandlesValid, OnlyBusy
<1>3. GoingOnIsMarked'
  BY <1>1 DEF MarkInv, GoingOnIsMarked, HandleInv, BusyUsed, Alike
<1>4. CASE Loses
  <2>1. BusyHeld'
    BY <1>2, <1>4 DEF BusyHeld, Loses
  <2> QED
    BY <1>3, <2>1 DEF MarkInv
<1>5. ASSUME NEW e \in Cursors, Gives(e, s), db'.busy = s => BusyGoing(e)'
      PROVE  MarkInv'
  <2>1. cur'[e] = s /\ \A c \in Cursors : c # e => cur'[c] = cur[c]
    BY <1>5 DEF Gives, Opened, TypeOK
  <2>2. BusyHeld'
    BY <1>2, <1>5, <2>1 DEF BusyHeld
  <2> QED
    BY <1>3, <2>2 DEF MarkInv
<1> QED
  BY <1>4, <1>5

\* A step that works on the statement in variable c.
LEMMA AtOwnHandles ==
  ASSUME TypeOK, TypeOK', HandleInv, NEW c \in Cursors, cur[c] \in Sths, Alike(db, db', cur[c]),
         Tidy => OnlyStill(c),
         db'.busy \in {db.busy, NoSth, cur[c]},
         db'.busy = cur[c] => db'.st[cur[c]].used,
         \/ cur' = Gone(c)
         \/ /\ cur' = cur /\ db'.st[cur[c]].used
            /\ Tidy /\ db'.st[cur[c]].still => StillGoing(c)'
  PROVE  HandleInv'
<1>1. NoSth \notin Sths
  BY CursorAssumption DEF Sths, NoSth
<1>2. \A e \in Cursors : e # c /\ cur[e] # NoSth =>
        /\ cur[e] \in Sths /\ cur[e] # cur[c]
        /\ db'.st[cur[e]].used
        /\ db'.st[cur[e]].still = db.st[cur[e]].still
  BY <1>1 DEF TypeOK, HandleInv, HandlesValid, Alike
<1>3. \A e \in Cursors : Tidy /\ e # c /\ cur[e] # NoSth =>
                           ~db'.st[cur[e]].still
  BY <1>2 DEF OnlyStill
<1>4. BusyUsed'
  BY <1>1 DEF HandleInv, BusyUsed, Alike
<1>5. CASE cur' = Gone(c)
  <2>1. cur'[c] = NoSth /\ \A e \in Cursors : e # c => cur'[e] = cur[e]
    BY <1>5 DEF Gone, TypeOK
  <2>2. HandlesValid'
    BY <1>2, <2>1 DEF HandleInv, HandlesValid
  <2>3. Tidy => StillHeld'
    BY <1>3, <2>1 DEF StillHeld
  <2> QED
    BY <1>4, <2>2, <2>3 DEF HandleInv
<1>6. CASE /\ cur' = cur /\ db'.st[cur[c]].used
           /\ Tidy /\ db'.st[cur[c]].still => StillGoing(c)'
  <2>1. HandlesValid'
    BY <1>2, <1>6 DEF HandleInv, HandlesValid
  <2>2. Tidy => StillHeld'
    BY <1>3, <1>6 DEF StillHeld
  <2> QED
    BY <1>4, <2>1, <2>2 DEF HandleInv
<1> QED
  BY <1>5, <1>6

LEMMA AtOwnMarks ==
  ASSUME TypeOK, TypeOK', HandleInv, MarkInv, NEW c \in Cursors, cur[c] \in Sths,
         Alike(db, db', cur[c]),
         OnlyBusy(c), NoNtable', OpenGoing',
         db'.busy \in {db.busy, NoSth, cur[c]},
         db'.busy = cur[c] => db'.st[cur[c]].still,
         \/ cur' = Gone(c)
         \/ cur' = cur /\ (db'.busy = cur[c] => BusyGoing(c)')
  PROVE  MarkInv'
<1>1. NoSth \notin Sths
  BY CursorAssumption DEF Sths, NoSth
<1>2. \A e \in Cursors : e # c /\ cur[e] # NoSth => cur[e] # cur[c] /\ cur[e] # db.busy
  BY DEF HandleInv, HandlesValid, OnlyBusy
<1>3. GoingOnIsMarked'
  BY <1>1 DEF MarkInv, GoingOnIsMarked, Alike
<1>4. CASE cur' = Gone(c)
  <2>1. cur'[c] = NoSth /\ \A e \in Cursors : e # c => cur'[e] = cur[e]
    BY <1>4 DEF Gone, TypeOK
  <2>2. BusyHeld'
    BY <1>2, <2>1 DEF BusyHeld
  <2> QED
    BY <1>3, <2>2 DEF MarkInv
<1>5. CASE cur' = cur /\ (db'.busy = cur[c] => BusyGoing(c)')
  <2>1. BusyHeld'
    BY <1>2, <1>5 DEF BusyHeld
  <2> QED
    BY <1>3, <2>1 DEF MarkInv
<1> QED
  BY <1>4, <1>5

\* A step that works on no statement.
LEMMA AtNone ==
  ASSUME TypeOK, TypeOK', HandleInv, db'.st = db.st, Loses,
         db'.busy \in {db.busy, NoSth, ExecHandle},
         Tidy => OnlyStill(NoCursor)
  PROVE  HandleInv' /\ (MarkInv /\ OnlyBusy(NoCursor) /\ OpenGoing' => MarkInv')
<1>1. NoSth \notin Sths /\ ExecHandle \notin Sths
  BY CursorAssumption DEF Sths, NoSth, ExecHandle
<1>2. HandlesValid' /\ BusyUsed'
  BY <1>1 DEF HandleInv, HandlesValid, BusyUsed, Loses
<1>3. Tidy => StillHeld'
  BY CursorNames DEF OnlyStill, StillHeld, Loses
<1>4. MarkInv => GoingOnIsMarked' /\ NoNtable'
  BY <1>1 DEF MarkInv, GoingOnIsMarked, NoNtable
<1>5. OnlyBusy(NoCursor) => BusyHeld'
  <2> SUFFICES ASSUME OnlyBusy(NoCursor), NEW e \in Cursors, cur'[e] # NoSth, cur'[e] = db'.busy
               PROVE  FALSE
    BY DEF BusyHeld
  <2>1. cur'[e] = cur[e] /\ cur[e] \in Sths
    BY DEF Loses, TypeOK
  <2>2. e # NoCursor
    BY CursorNames
  <2> QED
    BY <1>1, <2>1, <2>2 DEF OnlyBusy
<1> QED
  BY <1>2, <1>3, <1>4, <1>5 DEF HandleInv, MarkInv

LEMMA WithinKeeps ==
  ASSUME NEW s \in Sths, WithinMode(db, s, db')
  PROVE  Alike(db, db', s) /\ (NoNtable => NoNtable') /\ db'.busy \in {db.busy, NoSth, s}
<1>1. \A u \in Sths \ {s} : db'.st[u] = db.st[u]
  BY DEF WithinMode
<1> QED
  BY <1>1 DEF WithinMode, Alike, NoNtable

\* What the lemmas about the steps assume, and what they show.
Before == Quiet /\ TypeOK /\ TypeOK' /\ db \in Sound /\ HandleInv
After  == HandleInv' /\ ("ntable" \notin ClientCalls /\ MarkInv => MarkInv')

\* The call that goes on, and the statements that are marked, are not on what
\* is free.
LEMMA BusyNotFree == HandleInv => db.busy \notin FreeSths(db)
BY DEF HandleInv, BusyUsed, FreeSths

LEMMA NotOpening ==
  ASSUME NEW op, NEW c, NEW kind, NEW a, NEW r, Took(Call(op, c, kind, a), r), op # "open2"
  PROVE  OpenGoing'
BY DEF Took, Call, OpenGoing

\* A call that answers "busy" is none of BusyOps.
LEMMA NoneGoing ==
  ASSUME HandleInv, NEW op, NEW c, NEW kind, NEW a, NEW r, Took(Call(op, c, kind, a), r),
         op \notin BusyOps \union {"break", "free"}
  PROVE  /\ Tidy => OnlyStill(NoCursor)
         /\ MarkInv => OnlyBusy(NoCursor)
         /\ OpenGoing'
<1>1. OpenGoing'
  BY NotOpening DEF BusyOps, StillOps, Reopens
<1> QED
  BY <1>1, OnlyOne DEF HandleInv, MarkInv, BusyOps

LEMMA HandlesOpen == Before /\ OpenStep => After
<1> SUFFICES ASSUME Before, NEW c \in Cursors, NEW kind \in Kinds, NEW a \in Args \union {NoArgs},
                    NEW r \in Open(db, kind, a), DoOpen(c, kind, a, r)
             PROVE  After
  BY DEF OpenStep
<1> DEFINE s == FirstFree(db)
<1>1. kind \in AllKinds /\ db \in Sound /\ TypeOK /\ TypeOK' /\ HandleInv
  BY KindAssumption DEF Before
<1>2. /\ FreeSths(db) = {} => r.ret = "error" /\ Switched(db, r.db)
      /\ FreeSths(db) # {} => WithinMode(db, s, r.db) /\ Opening(db, s, r.db, r.ret)
  BY <1>1, OpenIs, BusyNotFree DEF Before, Quiet, Steady
<1>3. /\ cur[c] = NoSth /\ db' = r.db /\ Took(Call("open", c, kind, a), r)
      /\ cur' = IF Fails(r) THEN cur ELSE Opened(c, s)
  BY DEF DoOpen, Took
<1>4. /\ Tidy => OnlyStill(NoCursor)
      /\ MarkInv => OnlyBusy(NoCursor)
      /\ OpenGoing'
  BY <1>1, <1>3, NoneGoing DEF BusyOps, StillOps, Reopens
<1> HIDE DEF s
<1>5. CASE FreeSths(db) = {}
  <2>1. db'.st = db.st /\ db'.busy = db.busy /\ Loses
    BY <1>2, <1>3, <1>5 DEF Switched, Loses, Fails
  <2> QED
    BY <1>1, <1>4, <2>1, AtNone DEF After
<1>6. CASE FreeSths(db) # {}
  <2>1. s \in FreeSths(db) /\ s \in Sths
    BY <1>6, FirstFreeIn DEF FreeSths, s
  <2>2. WithinMode(db, s, db') /\ Opening(db, s, db', r.ret)
    BY <1>2, <1>3, <1>6
  <2>3. Alike(db, db', s) /\ (NoNtable => NoNtable') /\ db'.busy \in {db.busy, NoSth, s}
    BY <2>1, <2>2, WithinKeeps
  <2>4. db'.busy # s
    BY <1>1, <2>1, <2>2, BusyNotFree, CursorAssumption DEF Opening, Sths, NoSth
  <2>5. \/ Loses
        \/ Gives(c, s) /\ ~db'.st[s].still
    BY <1>3, <2>2 DEF Opening, Loses, Gives, Fails
  <2>6. HandleInv'
    BY <1>1, <1>4, <2>1, <2>3, <2>4, <2>5, AtFreeHandles
  <2>7. MarkInv => MarkInv'
    <3>1. MarkInv => NoNtable'
      BY <2>3 DEF MarkInv
    <3> QED
      BY <1>1, <1>4, <2>1, <2>3, <2>4, <2>5, <3>1, AtFreeMarks
  <2> QED
    BY <2>6, <2>7 DEF After
<1> QED
  BY <1>5, <1>6

LEMMA HandlesOpen2 == Before /\ Open2Step => After
<1> SUFFICES ASSUME Before, NEW c \in Cursors, NEW kind \in Kinds, NEW a \in Args \union {NoArgs},
                    NEW r \in Open2(db, cur[c], kind, a), DoOpen2(c, kind, a, r)
             PROVE  After
  BY DEF Open2Step
<1> DEFINE s == FirstFree(db)
           h == cur[c]
<1>1. /\ kind \in AllKinds /\ db \in Sound /\ TypeOK /\ TypeOK' /\ HandleInv
      /\ "bind" \notin Faults /\ NoSth \notin Sths
  BY KindAssumption, CursorAssumption DEF Before, Quiet, Sths, NoSth
<1>2. Steady(db)
  BY <1>1, BusyNotFree DEF Steady
<1>3. /\ SameConn(db, r.db)
      /\ GoesOn(db, h) =>
           /\ Within(db, h, r.db)
           /\ \/ r.ret = "error" /\ Untouched(db, r.db)
              \/ r.ret # "nodata" /\ Reopened(db, h, r.db, r.ret)
      /\ ~GoesOn(db, h) =>
           /\ FreeSths(db) = {} => r.ret = "error" /\ Untouched(db, r.db)
           /\ FreeSths(db) # {} => Within(db, s, r.db) /\ NewOpened(db, s, r.db, r.ret)
  BY <1>1, <1>2, Open2Is
<1>4. /\ db' = r.db /\ Took(Call("open2", c, kind, a), r)
      /\ last'.ret = r.ret /\ last'.call.op = "open2" /\ last'.call.cur = c
      /\ h = NoSth \/ Busy
      /\ cur' = IF Fails(r) THEN Gone(c) ELSE Opened(c, IF h = NoSth THEN s ELSE h)
  BY DEF DoOpen2, Took, Call
<1>5. cur \in [Cursors -> Sths \union {NoSth}]
  BY <1>1 DEF TypeOK
<1>6. /\ StillHeld => /\ OnlyStill(c)
                      /\ h # NoSth /\ db.st[h].still => StillGoing(c) /\ last.call.op = "open2"
      /\ BusyHeld => /\ OnlyBusy(c)
                     /\ h # NoSth /\ h = db.busy => BusyGoing(c) /\ last.call.op = "open2"
  BY <1>4, OnlyOne DEF BusyOps, StillOps, Reopens
<1> HIDE DEF s
<1>7. CASE GoesOn(db, h)
  <2>1. h \in Sths /\ db.st[h].used /\ db.nb /\ r.db.nb = db.nb /\ Busy
    BY <1>1, <1>3, <1>4, <1>7 DEF GoesOn, SameConn
  <2>2. Within(db, h, db') /\ WithinMode(db, h, db')
    BY <1>3, <1>4, <1>7, WithinModeIs
  <2>3. Alike(db, db', h) /\ (NoNtable => NoNtable') /\ db'.busy \in {db.busy, NoSth, h}
    BY <2>1, <2>2, WithinKeeps
  <2>4. Tidy => OnlyStill(c)
    BY <1>1, <1>6 DEF HandleInv
  <2>5. MarkInv => h = db.busy /\ BusyGoing(c) /\ OnlyBusy(c)
    <3>1. Busy => last.call.op = "open2" /\ last.call.cur = c
      BY <1>4 DEF Took, Call
    <3> QED
      BY <1>1, <1>6, <2>1, <3>1 DEF MarkInv, OpenGoing
  <2>6. MarkInv => db.st[h].ctype # "ref" /\ (db.st[h].ran \/ ~db.st[h].defs)
    <3>1. Busy => last.call.op = "open2"
      BY <1>4 DEF Took, Call
    <3> QED
      BY <2>1, <2>5, <3>1 DEF BusyGoing, Reopens
  <2>7. CASE r.ret = "error" /\ Untouched(db, r.db)
    <3>1. cur' = Gone(c) /\ db'.st = db.st /\ db'.busy = db.busy
      BY <1>4, <2>7 DEF Fails, Untouched
    <3>2. HandleInv'
      BY <1>1, <2>1, <2>3, <2>4, <3>1, AtOwnHandles
    <3>3. OpenGoing'
      BY <1>4, <2>7 DEF OpenGoing, Busy
    <3>4. ASSUME MarkInv
          PROVE  MarkInv'
      <4>1. db.busy = h => db.st[h].still
        BY <2>1, <3>4 DEF MarkInv, GoingOnIsMarked
      <4>2. NoNtable'
        BY <2>3, <3>4 DEF MarkInv
      <4> QED
        BY <1>1, <2>1, <2>3, <2>5, <3>1, <3>3, <3>4, <4>1, <4>2, AtOwnMarks
    <3> QED
      BY <3>2, <3>4 DEF After
  <2>8. CASE r.ret # "nodata" /\ Reopened(db, h, r.db, r.ret)
    <3> DEFINE o == db.st[h]
               t == db'.st[h]
    <3>1. /\ r.ret = "ok" => t.used /\ ~t.still
      BY <1>4, <2>8 DEF Reopened
    <3>2. r.ret = "ok" /\ MarkInv => db'.busy # h
      BY <1>1, <1>4, <2>1, <2>6, <2>8 DEF Reopened
    <3>3. r.ret = "busy" => /\ t.used /\ t.still /\ ~t.opened /\ t.stype = "query"
                            /\ db'.busy = h /\ t.hp = "live" /\ t.ctype = o.ctype
                            /\ (t.ran \/ ~t.defs)
      BY <1>4, <2>8 DEF Reopened
    <3>4. r.ret \notin {"ok", "busy"} => db'.busy # h
      <4>1. r.ret \notin {"ok", "busy"} => r.ret = "error"
        <5>1. r.ret \in Rets
          BY <1>1, Open2Is
        <5> QED
          BY <2>8, <5>1 DEF Rets
      <4> QED
        BY <1>1, <1>4, <2>1, <2>8, <4>1 DEF Reopened
    <3>5. IF r.ret \in {"ok", "busy"} THEN cur' = cur ELSE cur' = Gone(c)
      BY <1>1, <1>4, <1>5, <2>1 DEF Fails, Opened
    <3>6. r.ret = "busy" => GoesOn(db', h)
      BY <1>4, <2>1, <3>3 DEF GoesOn
    <3>7. r.ret = "busy" /\ cur' = cur => StillGoing(c)'
      BY <1>4, <3>3, <3>6 DEF StillGoing, StillOps, Reopens, Busy
    <3>8. HandleInv'
      <4>1. db'.busy = h => t.used
        BY <3>1, <3>3, <3>4
      <4>2. \/ cur' = Gone(c)
            \/ cur' = cur /\ t.used /\ (t.still => StillGoing(c)')
        BY <3>1, <3>3, <3>5, <3>7
      <4> QED
        BY <1>1, <2>1, <2>3, <2>4, <4>1, <4>2, AtOwnHandles
    <3>9. ASSUME MarkInv
          PROVE  MarkInv'
      <4>1. NoNtable'
        BY <2>3, <3>9 DEF MarkInv
      <4>2. db'.busy = h => r.ret = "busy"
        BY <3>2, <3>4, <3>9
      <4>3. r.ret = "busy" /\ cur' = cur => BusyGoing(c)'
        BY <1>4, <2>6, <3>3, <3>6, <3>9 DEF BusyGoing, BusyOps, StillOps, Reopens, Busy
      <4>4. OpenGoing'
        BY <1>4, <2>1, <3>3, <3>5 DEF OpenGoing, Busy
      <4>5. \/ cur' = Gone(c)
            \/ cur' = cur /\ (db'.busy = h => BusyGoing(c)')
        BY <3>5, <4>2, <4>3
      <4>6. db'.busy = h => t.still
        BY <3>3, <4>2
      <4> QED
        BY <1>1, <2>1, <2>3, <2>5, <3>9, <4>1, <4>4, <4>5, <4>6, AtOwnMarks
    <3> QED
      BY <3>8, <3>9 DEF After
  <2> QED
    BY <1>3, <1>7, <2>7, <2>8
<1>8. CASE ~GoesOn(db, h)
  <2>1. Tidy => OnlyStill(NoCursor)
    BY <1>1, <1>6, <1>8 DEF HandleInv, StillGoing, OnlyStill
  <2>2. MarkInv => OnlyBusy(NoCursor) /\ h = NoSth
    <3>1. Busy => last.call.op = "open2" /\ last.call.cur = c
      BY <1>4 DEF Took, Call
    <3>2. BusyGoing(c) /\ last.call.op = "open2" => FALSE
      BY <1>8 DEF BusyGoing
    <3> QED
      BY <1>1, <1>4, <1>6, <3>1, <3>2 DEF MarkInv, OpenGoing, OnlyBusy
  <2>3. CASE FreeSths(db) = {}
    <3>1. r.ret = "error" /\ db'.st = db.st /\ db'.busy = db.busy
      BY <1>3, <1>4, <1>8, <2>3 DEF Untouched
    <3>2. Loses /\ OpenGoing'
      BY <1>4, <1>5, <3>1 DEF Fails, Loses, Gone, OpenGoing, Busy
    <3> QED
      BY <1>1, <2>1, <2>2, <3>1, <3>2, AtNone DEF After
  <2>4. CASE FreeSths(db) # {}
    <3> DEFINE t == db'.st[s]
    <3>1. s \in FreeSths(db) /\ s \in Sths
      BY <2>4, FirstFreeIn DEF FreeSths, s
    <3>2. /\ Within(db, s, db') /\ NewOpened(db, s, db', r.ret) /\ WithinMode(db, s, db')
          /\ db'.nb = db.nb
      BY <1>3, <1>4, <1>8, <2>4, WithinModeIs DEF SameConn
    <3>3. Alike(db, db', s) /\ (NoNtable => NoNtable') /\ db'.busy \in {db.busy, NoSth, s}
      BY <3>1, <3>2, WithinKeeps
    <3>4. db.busy # s
      BY <1>1, <3>1, BusyNotFree
    <3>5. /\ r.ret \in {"ok", "error", "busy"}
          /\ r.ret = "ok" => t.used /\ ~t.still /\ db'.busy # s
          /\ r.ret = "busy" => t.used /\ t.still /\ ~t.opened /\ t.stype = "query"
                               /\ t.ctype = "default" /\ db'.busy = s /\ db'.nb /\ t.hp = "live"
                               /\ (t.ran \/ ~t.defs)
          /\ r.ret = "error" => db'.busy # s
      BY <1>1, <3>1, <3>2, <3>4 DEF NewOpened
    <3>6. IF h = NoSth /\ r.ret # "error" THEN Gives(c, s) /\ cur'[c] = s ELSE Loses
      BY <1>4, <1>5, <3>5 DEF Fails, Gives, Loses, Gone, Opened
    <3>7. cur'[c] = s /\ r.ret = "busy" => GoesOn(db', s) /\ StillGoing(c)'
      BY <1>4, <3>1, <3>5 DEF StillGoing, StillOps, Reopens, Busy, GoesOn
    <3>8. db'.busy = s => t.used /\ t.still
      BY <3>5
    <3>9. HandleInv'
      <4>1. \/ Loses
            \/ Gives(c, s) /\ (t.still => StillGoing(c)')
        BY <3>5, <3>6, <3>7
      <4> QED
        BY <1>1, <2>1, <3>1, <3>3, <3>8, <4>1, AtFreeHandles
    <3>10. ASSUME MarkInv
           PROVE  MarkInv'
      <4>1. NoNtable'
        BY <3>3, <3>10 DEF MarkInv
      <4>2. cur'[c] = s /\ r.ret = "busy" => BusyGoing(c)'
        BY <1>4, <3>1, <3>5, <3>7 DEF BusyGoing, BusyOps, StillOps, Reopens, Busy
      <4>3. OpenGoing'
        BY <1>4, <2>2, <3>1, <3>5, <3>6, <3>10 DEF OpenGoing, Busy
      <4>4. \/ Loses
            \/ Gives(c, s) /\ (db'.busy = s => BusyGoing(c)')
        BY <3>5, <3>6, <4>2
      <4> QED
        BY <1>1, <2>2, <3>1, <3>3, <3>8, <3>10, <4>1, <4>3, <4>4, AtFreeMarks
    <3> QED
      BY <3>9, <3>10 DEF After
  <2> QED
    BY <2>3, <2>4
<1> QED
  BY <1>7, <1>8

LEMMA HandlesPrepare == Before /\ PrepareStep => After
<1> SUFFICES ASSUME Before, NEW c \in Cursors, NEW kind \in Kinds,
                    NEW r \in PrepareStmt(db, kind), DoPrepare(c, kind, r)
             PROVE  After
  BY DEF PrepareStep
<1> DEFINE s == FirstFree(db)
<1>1. kind \in AllKinds /\ db \in Sound /\ TypeOK /\ TypeOK' /\ HandleInv
  BY KindAssumption DEF Before
<1>2. /\ r.ret \in {"ok", "error"} /\ r.db.busy = db.busy
      /\ FreeSths(db) = {} => r.ret = "error" /\ Untouched(db, r.db)
      /\ FreeSths(db) # {} => /\ Within(db, s, r.db)
                              /\ r.ret = "ok" => r.db.st[s].used /\ ~r.db.st[s].still
  BY <1>1, PrepareStmtIs
<1>3. /\ cur[c] = NoSth /\ db' = r.db /\ Took(Call("prepare", c, kind, NoArgs), r)
      /\ cur' = IF Fails(r) THEN cur ELSE Opened(c, s)
  BY DEF DoPrepare, Took
<1>4. /\ Tidy => OnlyStill(NoCursor)
      /\ MarkInv => OnlyBusy(NoCursor)
      /\ OpenGoing'
  BY <1>1, <1>3, NoneGoing DEF BusyOps, StillOps, Reopens
<1> HIDE DEF s
<1>5. CASE FreeSths(db) = {}
  <2>1. db'.st = db.st /\ db'.busy = db.busy /\ Loses
    BY <1>2, <1>3, <1>5 DEF Untouched, Loses, Fails
  <2> QED
    BY <1>1, <1>4, <2>1, AtNone DEF After
<1>6. CASE FreeSths(db) # {}
  <2>1. s \in FreeSths(db) /\ s \in Sths
    BY <1>6, FirstFreeIn DEF FreeSths, s
  <2>2. WithinMode(db, s, db')
    BY <1>2, <1>3, <1>6, WithinModeIs
  <2>3. Alike(db, db', s) /\ (NoNtable => NoNtable') /\ db'.busy \in {db.busy, NoSth, s}
    BY <2>1, <2>2, WithinKeeps
  <2>4. db'.busy # s
    BY <1>1, <1>2, <1>3, <2>1, BusyNotFree
  <2>5. \/ Loses
        \/ Gives(c, s) /\ ~db'.st[s].still
    BY <1>2, <1>3, <1>6 DEF Loses, Gives, Fails
  <2>6. HandleInv'
    BY <1>1, <1>4, <2>1, <2>3, <2>4, <2>5, AtFreeHandles
  <2>7. MarkInv => MarkInv'
    <3>1. MarkInv => NoNtable'
      BY <2>3 DEF MarkInv
    <3> QED
      BY <1>1, <1>4, <2>1, <2>3, <2>4, <2>5, <3>1, AtFreeMarks
  <2> QED
    BY <2>6, <2>7 DEF After
<1> QED
  BY <1>5, <1>6

LEMMA HandlesNewCursor == Before /\ NewCursorStep => After
<1> SUFFICES ASSUME Before, NEW c \in Cursors, NEW e \in Cursors,
                    NEW op \in {"refcursor", "ntable"}, NEW ctype \in {"ref", "ntable"},
                    op = "refcursor" => ctype = "ref",
                    NEW r \in NewCursor(db, cur[c], ctype), DoNewCursor(c, e, op, r)
             PROVE  After
  BY DEF NewCursorStep
<1> DEFINE s == FirstFree(db)
           h == cur[c]
<1>1. db \in Sound /\ TypeOK /\ TypeOK' /\ HandleInv
  BY DEF Before
<1>2. h \in Sths /\ db.st[h].used
  BY <1>1, CurIs DEF HandleInv, HandlesValid, DoNewCursor
<1>3. /\ r.ret \in {"ok", "error"} /\ r.db.busy = db.busy
      /\ \/ r.ret = "error" /\ r.db.st = db.st
         \/ /\ FreeSths(db) # {} /\ s \in Sths /\ s # h
            /\ Others(db, r.db, s, h)
            /\ r.ret = "ok" => r.db.st[s].used /\ ~r.db.st[s].still
            /\ r.db.st[s].ctype \in {"default", ctype}
            /\ r.db.st[h].used /\ r.db.st[h].still = db.st[h].still
            /\ r.db.st[h].ctype = db.st[h].ctype
  BY <1>1, <1>2, NewCursorIs, SMTT(20)
<1>4. /\ cur[e] = NoSth /\ db' = r.db /\ Took(Call(op, c, NoKind, NoArgs), r)
      /\ cur' = IF Fails(r) THEN cur ELSE Opened(e, s)
  BY DEF DoNewCursor, Took
<1>5. /\ Tidy => OnlyStill(NoCursor)
      /\ MarkInv => OnlyBusy(NoCursor)
      /\ OpenGoing'
  BY <1>1, <1>4, NoneGoing DEF BusyOps, StillOps, Reopens
<1>6. "ntable" \notin ClientCalls => ctype = "ref"
  BY <1>4 DEF Took, Call
<1>7. CASE r.ret = "error" /\ r.db.st = db.st
  <2>1. db'.st = db.st /\ db'.busy = db.busy /\ Loses
    BY <1>3, <1>4, <1>7 DEF Loses, Fails
  <2> QED
    BY <1>1, <1>5, <2>1, AtNone DEF After
<1>8. CASE /\ FreeSths(db) # {} /\ s \in Sths /\ s # h
           /\ Others(db, r.db, s, h)
           /\ r.ret = "ok" => r.db.st[s].used /\ ~r.db.st[s].still
           /\ r.db.st[s].ctype \in {"default", ctype}
           /\ r.db.st[h].used /\ r.db.st[h].still = db.st[h].still
           /\ r.db.st[h].ctype = db.st[h].ctype
  <2>1. s \in FreeSths(db)
    BY <1>8, FirstFreeIn DEF FreeSths
  <2> HIDE DEF s
  <2>2. Alike(db, db', s)
    <3> SUFFICES ASSUME NEW u \in Sths \ {s}
                 PROVE  db'.st[u].used = db.st[u].used /\ db'.st[u].still = db.st[u].still
      BY DEF Alike
    <3>1. CASE u = h
      <4>1. db'.st[h].used = TRUE /\ db.st[h].used = TRUE
        BY <1>1, <1>2, <1>4, <1>8, SoundStmt, <3>1 DEF TypeOK, Dbs, Stmts
      <4> QED
        BY <1>4, <1>8, <3>1, <4>1
    <3>2. CASE u # h
      BY <1>4, <1>8, <3>2 DEF Others
    <3> QED
      BY <3>1, <3>2
  <2>3. "ntable" \notin ClientCalls /\ NoNtable => NoNtable'
    BY <1>4, <1>6, <1>8 DEF NoNtable, Others
  <2>4. db'.busy = db.busy /\ db'.busy # s
    BY <1>1, <1>3, <1>4, <2>1, BusyNotFree
  <2>5. \/ Loses
        \/ Gives(e, s) /\ ~db'.st[s].still
    BY <1>3, <1>4, <1>8 DEF Loses, Gives, Fails
  <2>6. HandleInv'
    BY <1>1, <1>5, <2>1, <2>2, <2>4, <2>5, AtFreeHandles
  <2>7. "ntable" \notin ClientCalls /\ MarkInv => MarkInv'
    <3>1. "ntable" \notin ClientCalls /\ MarkInv => NoNtable'
      BY <2>3 DEF MarkInv
    <3> QED
      BY <1>1, <1>5, <2>1, <2>2, <2>4, <2>5, <3>1, AtFreeMarks
  <2> QED
    BY <2>6, <2>7 DEF After
<1> QED
  BY <1>3, <1>7, <1>8

LEMMA HandlesReopen == Before /\ ReopenStep => After
<1> SUFFICES ASSUME Before, NEW c \in Cursors, NEW op \in {"reopen", "reopen_plain"},
                    NEW a \in Args \union {NoArgs},
                    NEW r \in Reopen(db, cur[c], a), DoReopen(c, op, a, r)
             PROVE  After
  BY DEF ReopenStep
<1> DEFINE h == cur[c]
           o == db.st[h]
           t == db'.st[h]
<1>1. /\ db \in Sound /\ TypeOK /\ TypeOK' /\ HandleInv
      /\ "bind" \notin Faults /\ NoSth \notin Sths
  BY CursorAssumption DEF Before, Quiet, Sths, NoSth
<1>2. h \in Sths /\ o.used
  BY <1>1, CurIs DEF HandleInv, HandlesValid, DoReopen
<1>3. r.ret \in Rets /\ Within(db, h, r.db) /\ ReopenedAs(db, h, a, r.db, r.ret)
  BY <1>1, <1>2, ReopenIs
<1>4. /\ db' = r.db /\ Took(Call(op, c, NoKind, a), r)
      /\ last'.ret = r.ret /\ last'.call.op = op /\ last'.call.cur = c
      /\ o.ctype = "default" /\ (a = NoArgs => o.stype = "query")
      /\ cur' = IF Fails(r) THEN Gone(c) ELSE cur
  BY DEF DoReopen, Took, Call
<1>5. /\ StillHeld => OnlyStill(c) /\ (o.still => StillGoing(c) /\ last.call.op = op)
      /\ BusyHeld => OnlyBusy(c) /\ (h = db.busy => BusyGoing(c) /\ last.call.op = op)
  BY <1>1, <1>2, <1>4, OnlyOne DEF BusyOps, StillOps, Reopens
<1>6. OpenGoing'
  BY <1>4, NotOpening
<1>7. Alike(db, db', h) /\ (NoNtable => NoNtable') /\ db'.busy \in {db.busy, NoSth, h}
  BY <1>2, <1>3, <1>4, WithinModeIs, WithinKeeps
<1>8. Tidy => OnlyStill(c) /\ (o.still => StillGoing(c) /\ o.stype = "query")
  BY <1>1, <1>5 DEF HandleInv, StillGoing, Reopens
<1>9. MarkInv => /\ OnlyBusy(c)
                 /\ h = db.busy => BusyGoing(c) /\ o.stype = "query" /\ (o.ran \/ ~o.defs)
  BY <1>5 DEF MarkInv, BusyGoing, Reopens
<1>10. CASE o.stype = "query"
  <2>1. r.ret \in {"ok", "error", "busy"} /\ Reopened(db, h, r.db, r.ret)
    BY <1>3, <1>10 DEF ReopenedAs, Rets
  <2>2. /\ r.ret = "ok" => t.used /\ ~t.still /\ cur' = cur
        /\ r.ret = "busy" => /\ t.used /\ t.still /\ t.stype = "query" /\ cur' = cur
                             /\ db'.busy = h /\ t.hp = "live" /\ t.ctype = "default"
                             /\ (t.ran \/ ~t.defs)
        /\ r.ret = "error" => db'.busy # h /\ cur' = Gone(c)
    BY <1>1, <1>2, <1>4, <2>1 DEF Reopened, Fails
  <2>3. r.ret = "ok" /\ MarkInv => db'.busy # h
    BY <1>1, <1>2, <1>4, <1>9, <2>1 DEF Reopened
  <2>4. r.ret = "busy" => StillGoing(c)' /\ BusyGoing(c)'
    BY <1>4, <2>2 DEF StillGoing, BusyGoing, BusyOps, StillOps, Reopens, Busy
  <2>5. HandleInv'
    <3>1. \/ cur' = Gone(c)
          \/ cur' = cur /\ t.used /\ (t.still => StillGoing(c)')
      BY <2>1, <2>2, <2>4
    <3>2. db'.busy = h => t.used
      BY <2>1, <2>2
    <3> QED
      BY <1>1, <1>2, <1>7, <1>8, <3>1, <3>2, AtOwnHandles
  <2>6. ASSUME MarkInv
        PROVE  MarkInv'
    <3>1. \/ cur' = Gone(c)
          \/ cur' = cur /\ (db'.busy = h => BusyGoing(c)')
      BY <2>1, <2>2, <2>3, <2>4, <2>6
    <3>2. db'.busy = h => t.still
      BY <2>1, <2>2, <2>3, <2>6
    <3>3. NoNtable'
      BY <1>7, <2>6 DEF MarkInv
    <3> QED
      BY <1>1, <1>2, <1>6, <1>7, <1>9, <2>6, <3>1, <3>2, <3>3, AtOwnMarks
  <2> QED
    BY <2>5, <2>6 DEF After
<1>11. CASE o.stype # "query"
  <2>1. t.used = o.used /\ t.still = o.still /\ db'.busy = db.busy
    BY <1>3, <1>4, <1>11 DEF ReopenedAs
  <2>2. cur' = cur \/ cur' = Gone(c)
    BY <1>4
  <2>3. HandleInv'
    <3>1. Tidy => ~t.still
      BY <1>8, <1>11, <2>1
    <3> QED
      BY <1>1, <1>2, <1>7, <1>8, <2>1, <2>2, <3>1, AtOwnHandles
  <2>4. ASSUME MarkInv
        PROVE  MarkInv'
    <3>1. db'.busy # h
      BY <1>9, <1>11, <2>1, <2>4
    <3>2. NoNtable'
      BY <1>7, <2>4 DEF MarkInv
    <3> QED
      BY <1>1, <1>2, <1>6, <1>7, <1>9, <2>2, <2>4, <3>1, <3>2, AtOwnMarks
  <2> QED
    BY <2>3, <2>4 DEF After
<1> QED
  BY <1>10, <1>11

\* A call on the statement in variable c that leaves the variables alone.
LEMMA OnFacts ==
  ASSUME Before, NEW c \in Cursors, NEW op, NEW a, NEW r, DoOn(c, op, a, r),
         op \notin {"break", "free", "open2"}
  PROVE  /\ cur[c] \in Sths /\ db.st[cur[c]].used /\ db \in Sound
         /\ db' = r.db /\ last'.ret = r.ret /\ last'.call.op = op /\ last'.call.cur = c
         /\ cur' = cur /\ OpenGoing'
         /\ Tidy =>
              /\ OnlyStill(c)
              /\ db.st[cur[c]].still => op \in StillOps /\ StillGoing(c) /\ last.call.op = op
         /\ MarkInv =>
              /\ OnlyBusy(c)
              /\ cur[c] = db.busy => op \in BusyOps /\ BusyGoing(c) /\ last.call.op = op
<1>1. cur[c] \in Sths /\ db.st[cur[c]].used /\ cur[c] # NoSth
  BY CurIs DEF Before, HandleInv, HandlesValid, DoOn
<1>2. /\ db' = r.db /\ last'.ret = r.ret /\ last'.call.op = op /\ last'.call.cur = c
      /\ cur' = cur /\ Took(Call(op, c, NoKind, a), r)
  BY DEF DoOn, Took, Call
<1>3. OpenGoing'
  BY <1>2, NotOpening
<1>4. /\ StillHeld => /\ OnlyStill(c)
                      /\ db.st[cur[c]].still => StillGoing(c) /\ last.call.op = op
      /\ BusyHeld => /\ OnlyBusy(c)
                     /\ cur[c] = db.busy => BusyGoing(c) /\ last.call.op = op
  BY <1>1, <1>2, OnlyOne
<1>5. (StillGoing(c) /\ last.call.op = op => op \in StillOps)
      /\ (BusyGoing(c) /\ last.call.op = op => op \in BusyOps)
  BY DEF StillGoing, BusyGoing
<1> QED
  BY <1>1, <1>2, <1>3, <1>4, <1>5 DEF Before, HandleInv, MarkInv

\* What has to be shown of a call on the statement in variable c.
LEMMA OnKeeps ==
  ASSUME Before, NEW c \in Cursors, NEW op, NEW a, NEW r, DoOn(c, op, a, r),
         op \notin {"break", "free", "open2"},
         Within(db, cur[c], r.db), r.db.st[cur[c]].used = db.st[cur[c]].used,
         Tidy /\ r.db.st[cur[c]].still => StillGoing(c)',
         MarkInv /\ r.db.busy = cur[c] => r.db.st[cur[c]].still /\ BusyGoing(c)'
  PROVE  After
<1>1. TypeOK /\ TypeOK' /\ HandleInv
  BY DEF Before
<1>2. /\ cur[c] \in Sths /\ db.st[cur[c]].used /\ db' = r.db /\ cur' = cur /\ OpenGoing'
      /\ Tidy => OnlyStill(c)
      /\ MarkInv => OnlyBusy(c)
  BY OnFacts
<1>3. Alike(db, db', cur[c]) /\ (NoNtable => NoNtable') /\ db'.busy \in {db.busy, NoSth, cur[c]}
  BY <1>2, WithinModeIs, WithinKeeps
<1>4. db'.st[cur[c]].used
  BY <1>2
<1>5. HandleInv'
  BY <1>1, <1>2, <1>3, <1>4, AtOwnHandles
<1>6. ASSUME MarkInv
      PROVE  MarkInv'
  <2>1. NoNtable'
    BY <1>3, <1>6 DEF MarkInv
  <2>2. \/ cur' = Gone(c)
        \/ cur' = cur /\ (db'.busy = cur[c] => BusyGoing(c)')
    BY <1>2, <1>6
  <2>3. db'.busy = cur[c] => db'.st[cur[c]].still
    BY <1>2, <1>6
  <2> QED
    BY <1>1, <1>2, <1>3, <1>6, <2>1, <2>2, <2>3, AtOwnMarks
<1> QED
  BY <1>5, <1>6 DEF After

\* Binding and defining go on with no call.
LEMMA HandlesBind == Before /\ (BindStep \/ DefineStep) => After
<1>1. ASSUME Before, NEW c \in Cursors, NEW op \in {"bind", "define"}, NEW a, NEW r,
             DoOn(c, op, a, r), Within(db, cur[c], r.db), r.db.busy = db.busy,
             r.db.st[cur[c]].used = db.st[cur[c]].used,
             r.db.st[cur[c]].still = db.st[cur[c]].still
      PROVE  After
  <2>1. /\ Tidy => ~db.st[cur[c]].still
        /\ MarkInv => cur[c] # db.busy
    BY <1>1, OnFacts DEF BusyOps, StillOps, Reopens
  <2> QED
    BY <1>1, <2>1, OnKeeps
<1>2. ASSUME Before, NEW c \in Cursors, NEW a \in Args, NEW r \in BindByName(db, cur[c], a),
             DoOn(c, "bind", a, r)
      PROVE  After
  <2>1. db \in Sound /\ cur[c] \in Sths
    BY <1>2, OnFacts
  <2> QED
    BY <1>1, <1>2, <2>1, BindByNameIs
<1>3. ASSUME Before, NEW c \in Cursors, NEW r \in DefineByPos(db, cur[c]),
             DoOn(c, "define", NoArgs, r)
      PROVE  After
  <2>1. db \in Sound /\ cur[c] \in Sths
    BY <1>3, OnFacts
  <2> QED
    BY <1>1, <1>3, <2>1, DefineByPosIs
<1> QED
  BY <1>2, <1>3 DEF BindStep, DefineStep

LEMMA HandlesExecute == Before /\ ExecuteStep => After
<1> SUFFICES ASSUME Before, NEW c \in Cursors, NEW r \in Execute(db, cur[c]),
                    DoOn(c, "execute", NoArgs, r)
             PROVE  After
  BY DEF ExecuteStep
<1> DEFINE h == cur[c]
           o == db.st[h]
           t == db'.st[h]
<1>1. /\ h \in Sths /\ o.used /\ db \in Sound
      /\ db' = r.db /\ last'.ret = r.ret /\ last'.call.op = "execute" /\ last'.call.cur = c
      /\ cur' = cur
      /\ Tidy /\ o.still => StillGoing(c) /\ last.call.op = "execute"
      /\ MarkInv /\ h = db.busy => BusyGoing(c) /\ last.call.op = "execute"
  BY OnFacts
<1>2. /\ r.ret \in Rets /\ Within(db, h, r.db) /\ t.used = o.used
      /\ ToDescribe(db, h) =>
           /\ t.still = o.still
           /\ o.ctype = "ref" => db'.busy \in {db.busy, NoSth}
      /\ ~ToDescribe(db, h) /\ ~o.prepared => t.still = o.still /\ db'.busy = db.busy
      /\ ~ToDescribe(db, h) /\ o.prepared => Run1(db, h, db', r.ret)
  <2> DEFINE u == r.db.st[h]
  <2>1. db \in Sound /\ h \in Sths /\ r \in Execute(db, h)
    BY <1>1
  <2>2. /\ r.ret \in Rets /\ Within(db, h, r.db) /\ u.used = o.used
        /\ ToDescribe(db, h) =>
             /\ u.still = o.still
             /\ o.ctype = "ref" => r.db.busy \in {db.busy, NoSth}
        /\ ~ToDescribe(db, h) /\ ~o.prepared => u = o /\ r.db.busy = db.busy
        /\ ~ToDescribe(db, h) /\ o.prepared => Run1(db, h, r.db, r.ret)
    <3> HIDE DEF h
    <3> QED
      BY <2>1, ExecuteIs
  <2> QED
    BY <1>1, <2>2
<1>3. Tidy /\ o.still => o.prepared /\ ~ToDescribe(db, h) /\ o.hp = "live"
  BY <1>1 DEF StillGoing
<1>4. MarkInv /\ h = db.busy => o.prepared /\ ~ToDescribe(db, h)
  BY <1>1 DEF BusyGoing
<1>5. h # NoSth
  BY <1>1, CursorAssumption DEF Sths, NoSth
<1>6. ~ToDescribe(db, h) /\ o.prepared /\ r.ret = "busy" =>
        /\ t.still /\ t.hp = "live" /\ t.prepared /\ ~ToDescribe(db', h)
  BY <1>2 DEF Run1, ToDescribe
<1>7. ~ToDescribe(db, h) /\ o.prepared /\ r.ret = "busy" => StillGoing(c)' /\ BusyGoing(c)'
  BY <1>1, <1>6 DEF StillGoing, BusyGoing, BusyOps, StillOps, Reopens, Busy
<1>8. ASSUME Tidy, t.still
      PROVE  StillGoing(c)'
  <2>1. ~ToDescribe(db, h) /\ o.prepared
    BY <1>2, <1>3, <1>8
  <2>2. r.ret # "error" \/ ~o.still
    BY <1>2, <1>3, <1>8, <2>1 DEF Run1, Tidy
  <2>3. r.ret = "busy"
    BY <1>2, <1>8, <2>1, <2>2 DEF Run1, Rets
  <2> QED
    BY <1>7, <2>1, <2>3
<1>9. ASSUME MarkInv, db'.busy = h
      PROVE  t.still /\ BusyGoing(c)'
  <2>1. o.ctype \in {"default", "ref"}
    <3>1. o \in Stmts /\ o.ctype # "ntable"
      BY <1>1, <1>9, SoundStmt DEF MarkInv, NoNtable
    <3> QED
      BY <3>1 DEF Stmts
  <2>2. ~ToDescribe(db, h) /\ o.prepared
    BY <1>2, <1>4, <1>5, <1>9, <2>1 DEF ToDescribe
  <2>3. r.ret = "busy"
    BY <1>2, <1>5, <1>9, <2>2 DEF Run1
  <2> QED
    BY <1>6, <1>7, <2>2, <2>3
<1> QED
  BY <1>1, <1>2, <1>8, <1>9, OnKeeps

LEMMA HandlesFetch == Before /\ FetchStep => After
<1> SUFFICES ASSUME Before, NEW c \in Cursors, NEW r \in Fetch(db, cur[c]),
                    DoOn(c, "fetch", NoArgs, r)
             PROVE  After
  BY DEF FetchStep
<1> DEFINE h == cur[c]
           o == db.st[h]
           t == db'.st[h]
<1>1. /\ h \in Sths /\ o.used /\ db \in Sound
      /\ db' = r.db /\ last'.ret = r.ret /\ last'.call.op = "fetch" /\ last'.call.cur = c
      /\ cur' = cur
      /\ Tidy /\ o.still => StillGoing(c) /\ last.call.op = "fetch"
  BY OnFacts
<1>2. /\ r.ret \in Rets /\ Within(db, h, r.db) /\ t.used = o.used
      /\ db'.busy = IF r.ret = "busy" THEN h ELSE NoSth
      /\ r.ret = "ok" => ~t.still
      /\ r.ret = "busy" => t.still /\ t.hp = "live"
      /\ t.stype = o.stype
      /\ o.stype = "query" => /\ Fetched(db, h, db', r.ret)
                              /\ r.ret = "nodata" => ~t.still
      /\ o.stype # "query" /\ r.ret = "error" => o.hp # "live" \/ "execute" \in Faults
      /\ o.stype # "query" /\ r.ret = "nodata" => "nodata" \in Faults
      /\ r.ret \in {"error", "nodata"} /\ ~o.still => ~t.still
  <2> DEFINE u == r.db.st[h]
  <2>1. db \in Sound /\ h \in Sths /\ r \in Fetch(db, h)
    BY <1>1
  <2>2. /\ r.ret \in Rets /\ Within(db, h, r.db) /\ u.used = o.used
        /\ r.db.busy = IF r.ret = "busy" THEN h ELSE NoSth
        /\ r.ret = "ok" => ~u.still
        /\ r.ret = "busy" => u.still /\ u.hp = "live"
        /\ u.stype = o.stype
        /\ o.stype = "query" => /\ Fetched(db, h, r.db, r.ret)
                                /\ r.ret = "nodata" => ~u.still
        /\ o.stype # "query" /\ r.ret = "error" => o.hp # "live" \/ "execute" \in Faults
        /\ o.stype # "query" /\ r.ret = "nodata" => "nodata" \in Faults
        /\ r.ret \in {"error", "nodata"} /\ ~o.still => ~u.still
    <3> HIDE DEF h
    <3> QED
      BY <2>1, FetchIs
  <2> QED
    BY <1>1, <2>2
<1>3. h # NoSth
  BY <1>1, CursorAssumption DEF Sths, NoSth
<1>4. r.ret = "busy" /\ t.stype = "query" => t.exec
  BY <1>2 DEF Fetched
<1>5. r.ret = "busy" => StillGoing(c)' /\ BusyGoing(c)'
  BY <1>1, <1>2, <1>4 DEF StillGoing, BusyGoing, BusyOps, StillOps, Reopens, Busy
<1>6. ASSUME Tidy, t.still
      PROVE  StillGoing(c)'
  <2>1. "execute" \notin Faults /\ "nodata" \notin Faults /\ "fetch" \notin Faults
    BY <1>6 DEF Tidy
  <2>2. o.still => o.hp = "live" /\ (o.stype = "query" => o.exec)
    BY <1>1, <1>6 DEF StillGoing
  <2>3. r.ret # "error"
    BY <1>2, <1>6, <2>1, <2>2 DEF Fetched
  <2>4. r.ret # "nodata"
    BY <1>2, <1>6, <2>1
  <2>5. r.ret = "busy"
    BY <1>2, <1>6, <2>3, <2>4 DEF Rets
  <2> QED
    BY <1>5, <2>5
<1>7. ASSUME db'.busy = h
      PROVE  t.still /\ BusyGoing(c)'
  BY <1>2, <1>3, <1>5, <1>7
<1> QED
  BY <1>1, <1>2, <1>6, <1>7, OnKeeps

LEMMA HandlesResult == Before /\ ResultStep => After
<1> SUFFICES ASSUME Before, NEW c \in Cursors, NEW r \in QueryResult(db, cur[c]),
                    DoOn(c, "result", NoArgs, r)
             PROVE  After
  BY DEF ResultStep
<1> DEFINE h == cur[c]
           o == db.st[h]
           t == db'.st[h]
<1>1. /\ h \in Sths /\ o.used /\ db \in Sound
      /\ db' = r.db /\ last'.ret = r.ret /\ last'.call.op = "result" /\ last'.call.cur = c
      /\ cur' = cur
      /\ MarkInv /\ h = db.busy => BusyGoing(c) /\ last.call.op = "result"
  BY OnFacts
<1>2. /\ r.ret \in Rets /\ Within(db, h, r.db) /\ t.used = o.used
      /\ o.stype = "query" => Fetched(db, h, db', r.ret)
      /\ o.stype # "query" => r.ret = "error" /\ t.still = o.still /\ db'.busy = db.busy
  <2> DEFINE u == r.db.st[h]
  <2>1. db \in Sound /\ h \in Sths /\ r \in QueryResult(db, h)
    BY <1>1
  <2>2. /\ r.ret \in Rets /\ Within(db, h, r.db) /\ u.used = o.used
        /\ o.stype = "query" => Fetched(db, h, r.db, r.ret)
        /\ o.stype # "query" => r.ret = "error" /\ u.still = o.still /\ r.db.busy = db.busy
    <3> HIDE DEF h
    <3> QED
      BY <2>1, QueryResultIs
  <2> QED
    BY <1>1, <2>2
<1>3. h # NoSth
  BY <1>1, CursorAssumption DEF Sths, NoSth
<1>4. ~Tidy
  BY DEF DoOn, Took, Call, Tidy
<1>5. ASSUME MarkInv, db'.busy = h
      PROVE  t.still /\ BusyGoing(c)'
  <2>1. o.stype = "query"
    BY <1>1, <1>2, <1>5 DEF BusyGoing
  <2>2. r.ret = "busy" /\ t.still /\ t.stype = "query"
    BY <1>2, <1>3, <1>5, <2>1 DEF Fetched
  <2> QED
    BY <1>1, <2>2 DEF BusyGoing, BusyOps, StillOps, Reopens, Busy
<1> QED
  BY <1>1, <1>2, <1>4, <1>5, OnKeeps

LEMMA HandlesClose == Before /\ CloseStep => After
<1> SUFFICES ASSUME Before, NEW c \in Cursors, NEW r \in Close(db, cur[c]), DoClose(c, r)
             PROVE  After
  BY DEF CloseStep
<1> DEFINE h == cur[c]
           o == db.st[h]
           t == db'.st[h]
<1>1. TypeOK /\ TypeOK' /\ HandleInv /\ db \in Sound /\ NoSth \notin Sths
  BY CursorAssumption DEF Before, Sths, NoSth
<1>2. h \in Sths /\ o.used
  BY <1>1, CurIs DEF HandleInv, HandlesValid, DoClose
<1>3. /\ r.ret \in {"ok", "error"} /\ Within(db, h, r.db)
      /\ r.db.busy = IF db.busy = h THEN NoSth ELSE db.busy
      /\ r.ret = "error" => r.db.st[h] = Unfreed(o)
  BY <1>1, <1>2, CloseIs
<1>4. /\ db' = r.db /\ Took(Call("close", c, NoKind, NoArgs), r)
      /\ cur' = IF Fails(r) THEN cur ELSE Gone(c)
  BY DEF DoClose, Took
<1>5. /\ Tidy => OnlyStill(NoCursor)
      /\ MarkInv => OnlyBusy(NoCursor)
      /\ OpenGoing'
  BY <1>1, <1>4, NoneGoing DEF BusyOps, StillOps, Reopens
<1>6. /\ Tidy => OnlyStill(c) /\ ~o.still
      /\ MarkInv => OnlyBusy(c)
  BY <1>1, <1>2, <1>5, CursorNames DEF OnlyStill, OnlyBusy
<1>7. Alike(db, db', h) /\ (NoNtable => NoNtable') /\ db'.busy \in {db.busy, NoSth, h}
  BY <1>2, <1>3, <1>4, WithinModeIs, WithinKeeps
<1>8. db'.busy # h
  BY <1>1, <1>2, <1>3, <1>4
<1>9. r.ret = "error" => t.used /\ t.still = o.still
  BY <1>1, <1>2, <1>3, <1>4, UnfreedIs, SoundStmt
<1>10. HandleInv'
  <2>1. \/ cur' = Gone(c)
        \/ cur' = cur /\ t.used /\ (Tidy => ~t.still)
    BY <1>3, <1>4, <1>6, <1>9 DEF Fails
  <2> QED
    BY <1>1, <1>2, <1>6, <1>7, <1>8, <2>1, AtOwnHandles
<1>11. ASSUME MarkInv
       PROVE  MarkInv'
  <2>1. NoNtable' /\ (cur' = cur \/ cur' = Gone(c))
    BY <1>4, <1>7, <1>11 DEF MarkInv
  <2> QED
    BY <1>1, <1>2, <1>5, <1>6, <1>7, <1>8, <1>11, <2>1, AtOwnMarks
<1> QED
  BY <1>10, <1>11 DEF After

LEMMA HandlesShot == Before /\ (ExecStep \/ OwnStep) => After
<1>1. ASSUME Before, NEW op \in {"exec", "exists", "run"}, NEW kind, NEW a, NEW r,
             DoShot(op, kind, a, r)
      PROVE  /\ db' = r.db /\ Loses
             /\ Tidy => OnlyStill(NoCursor)
             /\ MarkInv => OnlyBusy(NoCursor)
             /\ OpenGoing'
  <2>1. HandleInv /\ Took(Call(op, NoCursor, kind, a), r) /\ cur' = cur
    BY <1>1 DEF Before, DoShot
  <2> QED
    BY <2>1, NoneGoing DEF BusyOps, StillOps, Reopens, Took, Loses
<1>2. ASSUME Before, NEW stmt \in Statements, NEW r \in Exec(db, stmt),
             DoShot("exec", NoKind, stmt, r)
      PROVE  After
  <2>1. Apart(db, r.db)
    BY <1>2, ExecIs DEF Before
  <2> QED
    BY <1>1, <1>2, <2>1, AtNone DEF Before, After, Apart
<1>3. ASSUME Before, NEW op \in {"exists", "run"}, NEW kind \in AllKinds, NEW a \in Args,
             NEW always \in BOOLEAN,
             NEW r \in IF FreeSths(db) = {} THEN {Sets(db, "error")}
                       ELSE OwnCursor(db, kind, a, always),
             DoShot(op, kind, a, r)
      PROVE  After
  <2> DEFINE s == FirstFree(db)
  <2>1. /\ TypeOK /\ TypeOK' /\ HandleInv /\ db \in Sound
        /\ db' = r.db /\ Loses
        /\ Tidy => OnlyStill(NoCursor)
        /\ MarkInv => OnlyBusy(NoCursor)
        /\ OpenGoing'
    BY <1>1, <1>3 DEF Before
  <2>2. Steady(db)
    BY <1>3, <2>1, BusyNotFree DEF Before, Quiet, Steady
  <2>3. /\ FreeSths(db) = {} => r.db.st = db.st /\ r.db.busy = db.busy
        /\ FreeSths(db) # {} => Within(db, s, r.db) /\ Marked(r.db, s)
    BY <1>3, <2>1, <2>2, OwnIs
  <2>4. CASE FreeSths(db) = {}
    BY <2>1, <2>3, <2>4, AtNone DEF After
  <2>5. CASE FreeSths(db) # {}
    <3>1. s \in FreeSths(db) /\ s \in Sths
      BY <2>5, FirstFreeIn DEF FreeSths
    <3> HIDE DEF s
    <3>2. WithinMode(db, s, db') /\ Marked(db', s)
      BY <2>1, <2>3, <2>5, WithinModeIs
    <3>3. Alike(db, db', s) /\ (NoNtable => NoNtable') /\ db'.busy \in {db.busy, NoSth, s}
      BY <3>1, <3>2, WithinKeeps
    <3>4. db'.busy = s => db'.st[s].used /\ db'.st[s].still
      BY <3>2 DEF Marked
    <3>5. HandleInv'
      BY <2>1, <3>1, <3>3, <3>4, AtFreeHandles
    <3>6. ASSUME MarkInv
          PROVE  MarkInv'
      <4>1. NoNtable'
        BY <3>3, <3>6 DEF MarkInv
      <4> QED
        BY <2>1, <3>1, <3>3, <3>4, <3>6, <4>1, AtFreeMarks
    <3> QED
      BY <3>5, <3>6 DEF After
  <2> QED
    BY <2>4, <2>5
<1> QED
  BY <1>2, <1>3 DEF ExecStep, OwnStep

LEMMA HandlesModes == Before /\ (BlockingStep \/ AutocommitStep \/ ConnectStep) => After
<1>1. ASSUME Before, NEW op \in {"blocking", "autocommit", "connect"}, NEW kind, NEW a, NEW r,
             Took(Call(op, NoCursor, kind, a), r), cur' = cur,
             r.db.st = db.st, r.db.busy = db.busy
      PROVE  After
  <2>1. HandleInv /\ TypeOK /\ TypeOK' /\ db' = r.db /\ Loses
    BY <1>1 DEF Before, Took, Loses
  <2>2. /\ Tidy => OnlyStill(NoCursor)
        /\ MarkInv => OnlyBusy(NoCursor)
        /\ OpenGoing'
    BY <1>1, <2>1, NoneGoing DEF BusyOps, StillOps, Reopens
  <2> QED
    BY <1>1, <2>1, <2>2, AtNone DEF After
<1>2. ASSUME Before, NEW on \in BOOLEAN, NEW r \in SetBlocking(db, on), DoBlocking(on, r)
      PROVE  After
  <2>1. r.db.st = db.st /\ r.db.busy = db.busy
    BY <1>2, SetBlockingIs DEF Before, Switched
  <2> QED
    BY <1>1, <1>2, <2>1 DEF DoBlocking
<1>3. ASSUME Before, NEW on \in BOOLEAN, NEW r \in SetAutocommit(db, on), DoAutocommit(on, r)
      PROVE  After
  <2>1. r.db.st = db.st /\ r.db.busy = db.busy
    BY <1>3, SetAutocommitIs DEF Before
  <2> QED
    BY <1>1, <1>3, <2>1 DEF DoAutocommit
<1>4. ASSUME Before, NEW r \in DbConnect(db), DoConnect(r)
      PROVE  After
  <2>1. r.db.st = db.st /\ r.db.busy = db.busy
    BY <1>4, DbConnectIs DEF Before
  <2> QED
    BY <1>1, <1>4, <2>1 DEF DoConnect
<1> QED
  BY <1>2, <1>3, <1>4 DEF BlockingStep, AutocommitStep, ConnectStep

LEMMA HandlesEnd == Before /\ EndStep => After
<1> SUFFICES ASSUME Before, NEW op \in {"finish", "free"},
                    NEW r \in DbFinish(db) \union DbFree(db), DoEnd(op, r)
             PROVE  After
  BY DEF EndStep
<1>1. db \in Sound /\ TypeOK
  BY DEF Before
<1>2. Emptied(db, r.db)
  BY <1>1, DbEndIs
<1>3. db' = r.db /\ cur' = AllGone /\ last'.call.op = op
  BY DEF DoEnd, Took, Call
<1>4. \A e \in Cursors : cur'[e] = NoSth
  BY <1>3 DEF AllGone
<1>5. NoSth \notin Sths /\ db'.busy = NoSth
  BY <1>2, <1>3, CursorAssumption DEF Emptied, Sths, NoSth
<1>6. HandleInv'
  BY <1>4, <1>5 DEF HandleInv, HandlesValid, BusyUsed, StillHeld
<1>7. MarkInv => MarkInv'
  <2>1. OpenGoing'
    BY <1>3 DEF OpenGoing
  <2>2. NoNtable => NoNtable'
    BY <1>2, <1>3 DEF NoNtable, Emptied
  <2> QED
    BY <1>4, <1>5, <2>1, <2>2 DEF MarkInv, GoingOnIsMarked, BusyHeld
<1> QED
  BY <1>6, <1>7 DEF After

LEMMA HandlesBreak == Before /\ BreakStep => After
<1> SUFFICES ASSUME Before, NEW r \in Break(db), DoBreak(r)
             PROVE  After
  BY DEF BreakStep
<1> DEFINE c == IF Busy THEN last.call.cur ELSE NoCursor
           q == BreakOutcome(r)
           S == StillSths(db)
<1>1. TypeOK /\ TypeOK' /\ HandleInv /\ db \in Sound /\ NoSth \notin Sths
  BY CursorAssumption DEF Before, Sths, NoSth
<1>2. r.ret \in Rets /\ Broken(db, r.db, r.ret)
  BY <1>1, BreakIs
<1>3. /\ Took(Call("break", c, NoKind, NoArgs), q)
      /\ cur' = IF q.ret = "ok" /\ c # NoCursor THEN Gone(c) ELSE cur
      /\ q.db = r.db /\ q.ret = IF Busy /\ r.ret # "ok" THEN "busy" ELSE r.ret
  BY BreakOutcomeIs DEF DoBreak
<1>4. /\ db' = r.db /\ last'.call.op = "break" /\ last'.call.cur = c /\ last'.ret = q.ret
      /\ Tidy
  BY <1>3 DEF Took, Call, Before, Quiet
<1>5. StillHeld /\ "free" \notin Faults
  BY <1>1, <1>4 DEF HandleInv, Tidy
<1>6. \A e \in Cursors : cur[e] # NoSth => cur[e] \in Sths /\ db.st[cur[e]].used
  BY <1>1 DEF TypeOK, HandleInv, HandlesValid
<1>7. \A e \in Cursors : cur[e] # NoSth /\ db.st[cur[e]].still => Busy /\ c = e
  BY <1>5 DEF StillHeld, StillGoing
<1>8. \A e \in Cursors : e # NoCursor
  BY CursorNames
<1>9. c \in Cursors \union {NoCursor}
  BY <1>1 DEF TypeOK, Calls
<1> HIDE DEF c, q
<1>10. \A e \in Cursors : /\ cur'[e] \in {cur[e], NoSth}
                          /\ q.ret = "ok" /\ e = c => cur'[e] = NoSth
  BY <1>1, <1>3, <1>8, <1>9 DEF TypeOK, Gone
<1>11. OpenGoing'
  BY <1>4 DEF OpenGoing
<1>12. CASE r.db.st = db.st /\ r.db.busy = db.busy
  <2>1. HandlesValid' /\ BusyUsed' /\ (MarkInv => GoingOnIsMarked' /\ NoNtable')
    BY <1>1, <1>4, <1>10, <1>12
       DEF HandleInv, HandlesValid, BusyUsed, MarkInv, GoingOnIsMarked, NoNtable
  <2>2. StillHeld'
    <3> SUFFICES ASSUME NEW e \in Cursors, cur'[e] # NoSth, db'.st[cur'[e]].still
                 PROVE  StillGoing(e)'
      BY DEF StillHeld
    <3>1. cur'[e] = cur[e] /\ db.st[cur[e]].still /\ cur[e] # NoSth
      BY <1>4, <1>10, <1>12
    <3>2. StillGoing(e) /\ c = e /\ Busy
      BY <1>5, <1>7, <3>1 DEF StillHeld
    <3>3. q.ret = "busy"
      BY <1>3, <1>10, <3>1, <3>2
    <3> QED
      BY <1>4, <1>12, <3>1, <3>2, <3>3 DEF StillGoing, Busy, Reopens
  <2>3. MarkInv => BusyHeld'
    <3> SUFFICES ASSUME MarkInv, NEW e \in Cursors, cur'[e] # NoSth, cur'[e] = db'.busy
                 PROVE  BusyGoing(e)'
      BY DEF BusyHeld
    <3>1. cur'[e] = cur[e] /\ cur[e] = db.busy /\ cur[e] # NoSth
      BY <1>4, <1>10, <1>12
    <3>2. BusyGoing(e) /\ c = e /\ Busy
      BY <3>1 DEF MarkInv, BusyHeld, BusyGoing, c
    <3>3. q.ret = "busy"
      BY <1>3, <1>10, <3>1, <3>2
    <3> QED
      BY <1>4, <3>2, <3>3 DEF BusyGoing, Busy, Reopens
  <2> QED
    BY <1>11, <2>1, <2>2, <2>3 DEF After, HandleInv, MarkInv
<1>13. CASE /\ r.db.busy = NoSth
            /\ \A s \in Sths \ S : r.db.st[s] = db.st[s]
            /\ \A s \in Sths : r.db.st[s].ctype = db.st[s].ctype
            /\ "free" \notin Faults => /\ \A s \in S : ~r.db.st[s].used /\ ~r.db.st[s].still
                                       /\ S # {} => r.ret = "ok"
  <2>1. \A e \in Cursors : cur'[e] # NoSth => /\ cur'[e] = cur[e] /\ cur[e] \in Sths
                                              /\ cur[e] \notin S
    <3> SUFFICES ASSUME NEW e \in Cursors, cur'[e] # NoSth, cur[e] \in S
                 PROVE  FALSE
      BY <1>6, <1>10
    <3>1. cur'[e] = cur[e] /\ db.st[cur[e]].still
      BY <1>10 DEF StillSths
    <3>2. c = e
      BY <1>7, <3>1
    <3>3. q.ret = "ok"
      BY <1>3, <1>5, <1>13
    <3> QED
      BY <1>10, <3>2, <3>3
  <2>2. \A e \in Cursors : cur'[e] # NoSth => db'.st[cur'[e]] = db.st[cur[e]]
    BY <1>4, <1>13, <2>1
  <2>3. HandlesValid' /\ BusyUsed'
    BY <1>1, <1>4, <1>13, <2>1, <2>2 DEF HandleInv, HandlesValid, BusyUsed
  <2>4. StillHeld'
    <3>1. \A e \in Cursors : cur'[e] # NoSth => ~db'.st[cur'[e]].still
      BY <1>6, <2>1, <2>2 DEF StillSths, UsedSths
    <3> QED
      BY <3>1 DEF StillHeld
  <2>5. MarkInv => MarkInv'
    BY <1>1, <1>4, <1>11, <1>13 DEF MarkInv, GoingOnIsMarked, BusyHeld, NoNtable
  <2> QED
    BY <2>3, <2>4, <2>5 DEF After, HandleInv
<1> QED
  BY <1>2, <1>12, <1>13 DEF Broken

LEMMA HandlesStep == Before /\ Next => After
BY NextIs, HandlesOpen, HandlesOpen2, HandlesPrepare, HandlesNewCursor, HandlesReopen,
   HandlesBind, HandlesExecute, HandlesFetch, HandlesResult, HandlesClose, HandlesShot,
   HandlesBreak, HandlesModes, HandlesEnd

LEMMA HandlesInit == Init => HandleInv /\ MarkInv
<1> SUFFICES ASSUME Init
             PROVE  HandleInv /\ MarkInv
  OBVIOUS
<1>1. \A c \in Cursors : cur[c] = NoSth
  BY DEF Init
<1>2. db.busy = NoSth /\ NoSth \notin Sths /\ last.call.op = "none"
      /\ \A s \in Sths : db.st[s].ctype = "default"
  BY CursorAssumption DEF Init, EmptyDb, EmptyStmt, Sths, NoSth
<1> QED
  BY <1>1, <1>2 DEF HandleInv, HandlesValid, BusyUsed, StillHeld, MarkInv, GoingOnIsMarked,
                    BusyHeld, OpenGoing, NoNtable

LEMMA HandlesNext ==
  ASSUME Quiet
  PROVE  /\ Base /\ HandleInv /\ [Next]_vars => HandleInv'
         /\ "ntable" \notin ClientCalls =>
              (Base /\ HandleInv /\ MarkInv /\ [Next]_vars => MarkInv')
<1>1. Base /\ HandleInv /\ Next => After
  <2>1. Base /\ HandleInv /\ Next => Before
    BY BaseStep DEF Base, Before
  <2> QED
    BY <2>1, HandlesStep
<1>2. UNCHANGED vars /\ HandleInv => HandleInv'
  BY DEF vars, HandleInv, HandlesValid, BusyUsed, StillHeld, StillGoing, Busy, ToDescribe, GoesOn
<1>3. UNCHANGED vars /\ MarkInv => MarkInv'
  BY DEF vars, MarkInv, GoingOnIsMarked, BusyHeld, BusyGoing, OpenGoing, NoNtable, Busy,
         ToDescribe, GoesOn
<1> QED
  BY <1>1, <1>2, <1>3 DEF After

\* A handle the application holds is that of a statement in use, and of no
\* other handle's, whatever was opened, closed, broken off or has failed.
THEOREM ValidHandles == ASSUME Quiet PROVE Spec => []HandlesValid
<1>1. Base /\ HandleInv /\ [Next]_vars => HandleInv'
  BY HandlesNext
<1>2. Init => HandleInv
  BY HandlesInit
<1>3. HandleInv => HandlesValid
  BY DEF HandleInv
<1> QED
  BY <1>1, <1>2, <1>3, BaseInit, BaseStep, PTL DEF Spec

\* A statement on which an OCI call goes on is marked, so that sqlo_break
\* finds it.  This is not so of a nested table, whose first sqlo_execute
\* answers "busy" and marks nothing.
THEOREM MarkedGoesOn ==
  ASSUME Quiet, "ntable" \notin ClientCalls PROVE Spec => []GoingOnIsMarked
<1>1. Base /\ HandleInv /\ [Next]_vars => HandleInv'
  BY HandlesNext
<1>2. Base /\ HandleInv /\ MarkInv /\ [Next]_vars => MarkInv'
  BY HandlesNext
<1>3. Init => HandleInv /\ MarkInv
  BY HandlesInit
<1>4. MarkInv => GoingOnIsMarked
  BY DEF MarkInv
<1> QED
  BY <1>1, <1>2, <1>3, <1>4, BaseInit, BaseStep, PTL DEF Spec
=============================================================================
