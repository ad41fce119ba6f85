---------------------------- MODULE Columns_proofs ----------------------------
(***************************************************************************)
(* Proofs about Columns, for any number of positions, any sizes and select *)
(* lists.  A function of the library is an operator that gives the set of  *)
(* its outcomes, so there is a lemma for each, <Operator>Is, which says of *)
(* every outcome r what it leaves alone (OnlyBinds, OnlyDefines,           *)
(* OnlyNames) and that the vectors are still sound: BindInv and IndInv of  *)
(* the binds, DefInv of the defines.  Then follow the invariant of the     *)
(* module, ColumnsInv, and a lemma for every action.                       *)
(***************************************************************************)
EXTENDS Columns, WellFoundedInduction, TLAPS

-----------------------------------------------------------------------------
(* The loops over placeholders and columns are recursive functions.  Their *)
(* induction is on the set of numbers for which a fact holds.              *)
LEMMA UpTo ==
  ASSUME NEW k \in Nat, NEW S, 0 \in S, \A n \in 1 .. k : n - 1 \in S => n \in S
  PROVE  0 .. k \subseteq S
<1> DEFINE T == (0 .. k) \ S
<1> SUFFICES ASSUME T # {} PROVE FALSE
  OBVIOUS
<1>1. T \subseteq Nat
  OBVIOUS
<1>2. PICK m \in T : \A u \in T : ~(<<u, m>> \in OpToRel(<, Nat))
  <2>1. IsWellFoundedOn(OpToRel(<, Nat), Nat)
    BY NatLessThanWellFounded
  <2> HIDE DEF T
  <2> QED
    BY <2>1, <1>1, WFMin
<1>3. m \in 1 .. k /\ m \notin S /\ m - 1 \in 0 .. k
  OBVIOUS
<1>4. m - 1 \notin S
  BY <1>3
<1>5. m - 1 \in T
  BY <1>3, <1>4
<1>6. <<m - 1, m>> \in {ss \in Nat \X Nat : ss[1] < ss[2]}
  BY <1>3
<1>7. <<m - 1, m>> \in OpToRel(<, Nat)
  BY <1>6, Zenon DEF OpToRel
<1> QED
  BY <1>2, <1>5, <1>7

\* One turn of the loop of BindArgv, DefineColumns or SetAllOcolNames.
Turn(which, l, R, n) ==
  CASE which = "bind"   -> BindNext(R, n)
    [] which = "define" -> DefineNext(R, n)
    [] which = "name"   -> NameNext(R, n, l)

\* f is such a loop up to m, which begins with A.
Loop(w, l, f, A, m) == f = [n \in 0 .. m |-> IF n = 0 THEN A ELSE Turn(w, l, f[n - 1], n)]

LEMMA LoopIs ==
  ASSUME NEW w, NEW l, NEW A, NEW k \in Nat
  PROVE  \E f : Loop(w, l, f, A, k)
<1> DEFINE S == {m \in 0 .. k : \E f : Loop(w, l, f, A, m)}
<1>1. 0 \in S
  <2> DEFINE g == [n \in 0 .. 0 |-> A]
  <2>1. g = [n \in 0 .. 0 |-> IF n = 0 THEN A ELSE Turn(w, l, g[n - 1], n)]
    OBVIOUS
  <2> HIDE DEF g
  <2>2. Loop(w, l, g, A, 0)
    BY <2>1 DEF Loop
  <2> QED
    BY <2>2
<1>2. ASSUME NEW m \in 1 .. k, m - 1 \in S
      PROVE  m \in S
  <2>1. PICK f : Loop(w, l, f, A, m - 1)
    BY <1>2
  <2> DEFINE g == [n \in 0 .. m |-> IF n = m THEN Turn(w, l, f[m - 1], m) ELSE f[n]]
  <2>2. \A n \in 0 .. m : g[n] = IF n = 0 THEN A ELSE Turn(w, l, g[n - 1], n)
    <3> SUFFICES ASSUME NEW n \in 0 .. m
                 PROVE  g[n] = IF n = 0 THEN A ELSE Turn(w, l, g[n - 1], n)
      OBVIOUS
    <3>1. CASE n = m
      <4>1. n # 0 /\ g[n] = Turn(w, l, f[m - 1], m) /\ g[n - 1] = f[m - 1]
        BY <3>1
      <4> QED
        BY <3>1, <4>1
    <3>2. CASE n # m
      <4>1. n \in 0 .. m - 1 /\ g[n] = f[n] /\ (n # 0 => g[n - 1] = f[n - 1])
        BY <3>2
      <4>2. f[n] = IF n = 0 THEN A ELSE Turn(w, l, f[n - 1], n)
        BY <2>1, <4>1, Zenon DEF Loop
      <4> QED
        BY <4>1, <4>2
    <3> QED
      BY <3>1, <3>2
  <2>3. g = [n \in 0 .. m |-> g[n]]
    OBVIOUS
  <2> HIDE DEF g
  <2>4. Loop(w, l, g, A, m)
    BY <2>2, <2>3, Zenon DEF Loop
  <2> QED
    BY <2>4
<1> HIDE DEF S
<1>3. 0 .. k \subseteq S
  BY <1>1, <1>2, UpTo
<1> QED
  BY <1>3 DEF S

\* The turns of the loop f, which gives R in the end.
LoopGives(w, l, f, A, k, R) ==
  /\ f[0] = A /\ f[k] = R
  /\ \A n \in 1 .. k : f[n] = Turn(w, l, f[n - 1], n)

LEMMA LoopTurns ==
  ASSUME NEW w, NEW l, NEW f, NEW A, NEW k \in Nat, Loop(w, l, f, A, k)
  PROVE  LoopGives(w, l, f, A, k, f[k])
<1>1. \A n \in 0 .. k : f[n] = IF n = 0 THEN A ELSE Turn(w, l, f[n - 1], n)
  BY Zenon DEF Loop
<1>2. 0 \in 0 .. k /\ \A n \in 1 .. k : n \in 0 .. k /\ n # 0
  OBVIOUS
<1> QED
  BY <1>1, <1>2 DEF LoopGives

LEMMA BindArgvIs ==
  ASSUME NEW x, NEW k \in Nat
  PROVE  \E f : LoopGives("bind", "", f, AllocBindp(x, k), k, BindArgv(x, k))
<1> DEFINE P(f) == f = [n \in 0 .. k |-> IF n = 0 THEN AllocBindp(x, k) ELSE BindNext(f[n - 1], n)]
           f == CHOOSE f : P(f)
<1>1. BindArgv(x, k) = f[k]
  BY Zenon DEF BindArgv
<1>2. \E g : P(g)
  <2>1. PICK g : Loop("bind", "", g, AllocBindp(x, k), k)
    BY LoopIs
  <2>2. P(g)
    BY <2>1 DEF Loop, Turn
  <2> QED
    BY <2>2
<1>3. P(f)
  BY <1>2, Zenon
<1> HIDE DEF f
<1>4. Loop("bind", "", f, AllocBindp(x, k), k)
  BY <1>3 DEF Loop, Turn
<1>5. LoopGives("bind", "", f, AllocBindp(x, k), k, f[k])
  BY <1>4, LoopTurns
<1> QED
  BY <1>1, <1>5

LEMMA DefineColumnsIs ==
  ASSUME NEW x, NEW k \in Nat, k = Len(x.list)
  PROVE  \E f : LoopGives("define", "", f, AllocDefinep(x, k), k, DefineColumns(x))
<1> DEFINE P(f) == f = [n \in 0 .. k |-> IF n = 0 THEN AllocDefinep(x, k) ELSE DefineNext(f[n - 1], n)]
           f == CHOOSE f : P(f)
<1>1. DefineColumns(x) = f[k]
  BY Zenon DEF DefineColumns
<1>2. \E g : P(g)
  <2>1. PICK g : Loop("define", "", g, AllocDefinep(x, k), k)
    BY LoopIs
  <2>2. P(g)
    BY <2>1 DEF Loop, Turn
  <2> QED
    BY <2>2
<1>3. P(f)
  BY <1>2, Zenon
<1> HIDE DEF f
<1>4. Loop("define", "", f, AllocDefinep(x, k), k)
  BY <1>3 DEF Loop, Turn
<1>5. LoopGives("define", "", f, AllocDefinep(x, k), k, f[k])
  BY <1>4, LoopTurns
<1> QED
  BY <1>1, <1>5

LEMMA SetAllOcolNamesIs ==
  ASSUME NEW x, NEW l, NEW k \in Nat, k = Len(x.list)
  PROVE  \E f : LoopGives("name", l, f, AllocDefinep(x, k), k, SetAllOcolNames(x, l))
<1> DEFINE P(f) == f = [n \in 0 .. k |-> IF n = 0 THEN AllocDefinep(x, k) ELSE NameNext(f[n - 1], n, l)]
           f == CHOOSE f : P(f)
<1>1. SetAllOcolNames(x, l) = f[k]
  BY Zenon DEF SetAllOcolNames
<1>2. \E g : P(g)
  <2>1. PICK g : Loop("name", l, g, AllocDefinep(x, k), k)
    BY LoopIs
  <2>2. P(g)
    BY <2>1 DEF Loop, Turn
  <2> QED
    BY <2>2
<1>3. P(f)
  BY <1>2, Zenon
<1> HIDE DEF f
<1>4. Loop("name", l, f, AllocDefinep(x, k), k)
  BY <1>3 DEF Loop, Turn
<1>5. LoopGives("name", l, f, AllocDefinep(x, k), k, f[k])
  BY <1>4, LoopTurns
<1> QED
  BY <1>1, <1>5

-----------------------------------------------------------------------------
(* What a function leaves alone: the binds, the defines, or what kind of   *)
(* statement it is.                                                        *)
SameBinds(x, y) ==
  /\ y.bindpv_size = x.bindpv_size /\ y.num_bindpv = x.num_bindpv
  /\ y.bindpv = x.bindpv /\ y.obind = x.obind
SameDefines(x, y) ==
  /\ y.defnpv_size = x.defnpv_size /\ y.num_defnpv = x.num_defnpv /\ y.defnpv = x.defnpv
  /\ y.outv = x.outv /\ y.outv_size = x.outv_size /\ y.ocol_namev = x.ocol_namev
  /\ y.odef = x.odef
SameKind(x, y) == y.kind = x.kind /\ y.list = x.list
SameStage(x, y) == SameKind(x, y) /\ y.phase = x.phase

OnlyBinds(x, y) == SameDefines(x, y) /\ SameStage(x, y) /\ y.params = x.params

(* The binds: sqlo_close clears the vector up to num_bindpv, which must    *)
(* then be all that is in it.                                              *)
NoArray == "array" \notin Faults
BindInv(x) ==
  /\ x.num_bindpv <= x.bindpv_size
  /\ NoArray => \A i \in Pos : /\ x.bindpv[i] # "stale"
                               /\ i > x.num_bindpv => x.bindpv[i] = "null"

(* Indicators: those of the library are those of sqlo_open, which lie in   *)
(* its vector.                                                             *)
IndInv(x) ==
  ~Mixed => \A i \in Pos : /\ x.obind[i] # "gone"
                           /\ x.obind[i] = "lib" => x.kind = "open" /\ i <= x.bindpv_size

(* The same in the loop of _bind_argv, after m of k values: those that the *)
(* growth of the vector has moved will be bound again.                     *)
IndUpTo(x, m, k) ==
  \A i \in Pos : /\ x.obind[i] = "gone" => m < i /\ i <= k
                 /\ x.obind[i] = "lib" => i <= x.bindpv_size

LEMMA SizesIs ==
  /\ MaxPos \in Nat \ {0} /\ MinVec \in Nat \ {0} /\ MinBuf \in Nat \ {0} /\ MaxLong \in Nat \ {0}
  /\ MinVec <= 2 * MaxPos /\ MinBuf <= 2 * MaxLong
BY SizeAssumption, MinAssumption

LEMMA StmtInts ==
  ASSUME NEW x \in Stmts
  PROVE  /\ x.num_bindpv \in 0 .. MaxPos /\ x.num_bindpv \in Int /\ x.bindpv_size \in Int
         /\ x.num_defnpv \in 0 .. MaxPos /\ x.num_defnpv \in Int /\ x.defnpv_size \in Int
BY SizesIs DEF Stmts, Sizes

LEMMA GrownIs ==
  ASSUME NEW n \in 0 .. MaxPos
  PROVE  Grown(n) \in Sizes /\ n <= Grown(n)
BY SizesIs DEF Grown, Sizes

\* What _alloc_bindp gives for n elements.
BindpGrown(x, n, r) ==
  /\ r.st \in Stmts /\ OnlyBinds(x, r.st) /\ r.ret \in {"ok", "error"}
  /\ r.st.num_bindpv = x.num_bindpv /\ x.bindpv_size <= r.st.bindpv_size
  /\ r.ret = "ok" => n <= r.st.bindpv_size /\ r.st.whole = x.whole
  /\ r.ret = "ok" /\ n <= x.bindpv_size => r.st = x
  /\ r.ret = "ok" /\ n > x.bindpv_size => r.st.obind = [i \in Pos |-> Moved(x.obind[i])]
  /\ r.ret = "error" => SameBinds(x, r.st)
  /\ \A i \in Pos : r.st.bindpv[i] \in {x.bindpv[i], "null"}

LEMMA AllocBindpIs ==
  ASSUME NEW x \in Stmts, NEW n \in 0 .. MaxPos, NEW r \in AllocBindp(x, n)
  PROVE  BindpGrown(x, n, r)
<1> USE DEF BindpGrown
<1>1. x.bindpv_size \in Sizes /\ x.bindpv \in [Pos -> Handles] /\ x.obind \in [Pos -> Pointers]
  BY DEF Stmts
<1>2. CASE n <= x.bindpv_size
  <2>1. r = Ok(x)
    BY <1>2 DEF AllocBindp
  <2> QED
    BY <1>1, <1>2, <2>1, SizesIs DEF Ok, OnlyBinds, SameDefines, SameStage, SameKind, SameBinds, Sizes
<1>3. CASE ~(n <= x.bindpv_size)
  <2> DEFINE v == [i \in Pos |-> IF i > x.bindpv_size THEN "null" ELSE x.bindpv[i]]
             o == [i \in Pos |-> Moved(x.obind[i])]
             y == [x EXCEPT !.bindpv_size = Grown(n), !.bindpv = v, !.obind = o]
             z == [x EXCEPT !.whole = x.bindpv_size = 0]
  <2>1. r = Ok(y) \/ r = Error(z)
    BY <1>3 DEF AllocBindp, Fails
  <2>2. v \in [Pos -> Handles] /\ o \in [Pos -> Pointers]
    BY <1>1 DEF Handles, Pointers, Moved
  <2>3. \A i \in Pos : v[i] \in {x.bindpv[i], "null"}
    OBVIOUS
  <2>4. Grown(n) \in Sizes /\ n <= Grown(n)
    BY GrownIs
  <2> HIDE DEF v, o
  <2>5. /\ y \in Stmts /\ OnlyBinds(x, y) /\ y.num_bindpv = x.num_bindpv /\ y.whole = x.whole
        /\ y.bindpv_size = Grown(n) /\ y.bindpv = v /\ y.obind = o
    BY <2>2, <2>4 DEF Stmts, OnlyBinds, SameDefines, SameStage, SameKind
  <2>6. z \in Stmts /\ OnlyBinds(x, z) /\ SameBinds(x, z)
    BY DEF Stmts, OnlyBinds, SameDefines, SameStage, SameKind, SameBinds
  <2> HIDE DEF y, z
  <2>7. n \in Int /\ x.bindpv_size \in Int /\ Grown(n) \in Int
    BY <1>1, <2>4, SizesIs DEF Sizes
  <2>8. CASE r = Ok(y)
    <3>1. r.st = y /\ r.ret = "ok"
      BY <2>8 DEF Ok
    <3> QED
      BY <1>3, <2>3, <2>4, <2>5, <2>7, <3>1 DEF o
  <2>9. CASE r = Error(z)
    <3>1. r.st = z /\ r.ret = "error"
      BY <2>9 DEF Error
    <3> QED
      BY <2>6, <2>7, <3>1 DEF SameBinds
  <2> QED
    BY <2>1, <2>8, <2>9
<1> QED
  BY <1>2, <1>3

\* What OCIBindByPos or OCIBindByName of placeholder p gives.
Called(x, p, ind, r) ==
  /\ r.st \in Stmts /\ OnlyBinds(x, r.st) /\ r.ret \in {"ok", "error"}
  /\ r.st.bindpv_size = x.bindpv_size /\ BindInv(r.st) /\ r.st.whole = x.whole
  /\ r.ret = "ok" => r.st.obind = [x.obind EXCEPT ![p] = ind]
  /\ r.ret = "error" => r.st.obind \in {x.obind, [x.obind EXCEPT ![p] = ind]}

LEMMA BindCallIs ==
  ASSUME NEW x \in Stmts, NEW i \in Pos, NEW p \in Pos, NEW ind \in {"app", "lib"},
         NEW array \in BOOLEAN, NEW r \in BindCall(x, i, p, ind, array), i <= x.bindpv_size,
         BindInv(x)
  PROVE  Called(x, p, ind, r)
<1> USE DEF Called
<1> DEFINE h == [x.bindpv EXCEPT ![i] = "own"]
           o == [x.obind EXCEPT ![p] = ind]
           b == [x EXCEPT !.bindpv[i] = "own", !.obind[p] = ind]
           n == Larger(x.num_bindpv, i)
           y == [b EXCEPT !.num_bindpv = n]
<1>0. /\ x.bindpv_size \in Sizes /\ x.bindpv \in [Pos -> Handles] /\ x.obind \in [Pos -> Pointers]
      /\ x.num_bindpv \in 0 .. MaxPos /\ i \in 1 .. MaxPos
  BY DEF Stmts, Pos
<1>1. r = Error(x) \/ (~NoArray /\ r = Error(b)) \/ r = Ok(y)
  BY DEF BindCall, Fails, Larger, NoArray
<1>2. h \in [Pos -> Handles] /\ o \in [Pos -> Pointers] /\ n \in 0 .. MaxPos
  BY <1>0, SizesIs DEF Handles, Pointers, Larger
<1>3. n <= x.bindpv_size
  BY <1>0, SizesIs DEF Larger, BindInv, Sizes
<1>4. b = [x EXCEPT !.bindpv = h, !.obind = o]
  BY DEF Stmts
<1>5. NoArray => \A j \in Pos : h[j] # "stale" /\ (j > n => h[j] = "null")
  BY <1>0, SizesIs DEF BindInv, Larger, Pos
<1> HIDE DEF h, o, n, b
<1>6. /\ b \in Stmts /\ OnlyBinds(x, b) /\ b.bindpv_size = x.bindpv_size /\ b.whole = x.whole
      /\ b.obind = o /\ b.num_bindpv = x.num_bindpv /\ b.bindpv = h
  BY <1>2, <1>4 DEF Stmts, OnlyBinds, SameDefines, SameStage, SameKind
<1>7. /\ y \in Stmts /\ OnlyBinds(x, y) /\ y.bindpv_size = x.bindpv_size /\ y.whole = x.whole
      /\ y.obind = o /\ y.num_bindpv = n /\ y.bindpv = h
  BY <1>2, <1>6 DEF Stmts, OnlyBinds, SameDefines, SameStage, SameKind
<1> HIDE DEF y
<1>8. ~NoArray => BindInv(b)
  BY <1>6 DEF BindInv
<1>9. BindInv(y)
  BY <1>3, <1>5, <1>7 DEF BindInv
<1>10. CASE r = Error(x)
  <2>1. r.st = x /\ r.ret = "error"
    BY <1>10 DEF Error
  <2> QED
    BY <2>1 DEF OnlyBinds, SameDefines, SameStage, SameKind
<1>11. CASE ~NoArray /\ r = Error(b)
  <2>1. r.st = b /\ r.ret = "error"
    BY <1>11 DEF Error
  <2> QED
    BY <1>6, <1>8, <1>11, <2>1 DEF o
<1>12. CASE r = Ok(y)
  <2>1. r.st = y /\ r.ret = "ok"
    BY <1>12 DEF Ok
  <2> QED
    BY <1>7, <1>9, <2>1 DEF o
<1> QED
  BY <1>1, <1>10, <1>11, <1>12

LEMMA AllocBindInv ==
  ASSUME NEW x \in Stmts, NEW n \in 0 .. MaxPos, NEW r \in AllocBindp(x, n), BindInv(x)
  PROVE  BindInv(r.st)
<1>1. BindpGrown(x, n, r)
  BY AllocBindpIs
<1>2. x.num_bindpv \in Int /\ x.bindpv_size \in Int /\ r.st.bindpv_size \in Int
  BY <1>1, StmtInts DEF BindpGrown
<1> QED
  BY <1>1, <1>2 DEF BindInv, BindpGrown

\* A bind by the application: an indicator of the library's is moved only when
\* the vector grows.
LEMMA AppBindIs ==
  ASSUME NEW x \in Stmts, NEW n \in Pos, NEW p \in Pos, NEW array \in BOOLEAN, BindInv(x),
         NEW q \in AllocBindp(x, n), NEW r,
         \/ q.ret # "ok" /\ r = q
         \/ q.ret = "ok" /\ r \in BindCall(q.st, n, p, "app", array)
  PROVE  /\ r.st \in Stmts /\ OnlyBinds(x, r.st) /\ r.ret \in {"ok", "error"} /\ BindInv(r.st)
         /\ IndInv(x) /\ (~Mixed => x.kind # "open") => IndInv(r.st)
<1>0. n \in 0 .. MaxPos
  BY SizesIs DEF Pos
<1>2. BindpGrown(x, n, q) /\ BindInv(q.st)
  BY <1>0, AllocBindpIs, AllocBindInv
<1> USE <1>2 DEF BindpGrown
<1>3. x.bindpv_size \in Int /\ n \in Int /\ q.st.bindpv_size \in Int /\ q.st.kind = x.kind
  BY <1>0, <1>2, SizesIs DEF Stmts, Sizes, OnlyBinds, SameStage, SameKind
<1>4. /\ x.obind \in [Pos -> Pointers] /\ q.st.obind \in [Pos -> Pointers]
  BY <1>2 DEF Stmts
<1>5. IndInv(x) /\ (~Mixed => x.kind # "open") =>
        (~Mixed => \A i \in Pos : q.st.obind[i] \notin {"gone", "lib"})
  <2>1. CASE q.ret = "error"
    BY <1>2, <2>1 DEF SameBinds, IndInv
  <2>2. CASE q.ret = "ok" /\ n <= x.bindpv_size
    BY <1>2, <2>2 DEF IndInv
  <2>3. CASE q.ret = "ok" /\ n > x.bindpv_size
    BY <1>2, <2>3 DEF IndInv, Moved
  <2> QED
    BY <1>2, <1>3, <2>1, <2>2, <2>3
<1>6. CASE q.ret # "ok" /\ r = q
  BY <1>2, <1>5, <1>6 DEF IndInv
<1>7. CASE q.ret = "ok" /\ r \in BindCall(q.st, n, p, "app", array)
  <2>1. Called(q.st, p, "app", r)
    BY <1>2, <1>7, BindCallIs
  <2> USE <2>1 DEF Called
  <2>2. OnlyBinds(x, r.st)
    BY <1>2, <2>1 DEF OnlyBinds, SameDefines, SameStage, SameKind
  <2>3. \A i \in Pos : r.st.obind[i] \in {q.st.obind[i], "app"}
    BY <1>4, <2>1
  <2> QED
    BY <1>5, <2>1, <2>2, <2>3 DEF IndInv
<1> QED
  BY <1>6, <1>7

\* After m of the k values of sqlo_open.
BoundTo(x, y, m, k) ==
  /\ y \in Stmts /\ OnlyBinds(x, y) /\ BindInv(y) /\ y.whole = x.whole
  /\ k <= y.bindpv_size
  /\ ~Mixed => IndUpTo(y, m, k)
BindFailed(x, y) == y \in Stmts /\ OnlyBinds(x, y) /\ BindInv(y)

LEMMA BindFirst ==
  ASSUME NEW x \in Stmts, NEW k \in 0 .. MaxPos, BindInv(x), IndInv(x),
         NEW r \in AllocBindp(x, k)
  PROVE  /\ r.ret \in {"ok", "error"}
         /\ r.ret = "ok" => BoundTo(x, r.st, 0, k)
         /\ r.ret = "error" => BindFailed(x, r.st)
<1>1. BindpGrown(x, k, r) /\ BindInv(r.st)
  BY AllocBindpIs, AllocBindInv
<1> USE DEF BindpGrown
<1>2. x.bindpv_size \in Int /\ k \in Int /\ r.st.bindpv_size \in Int
  BY <1>1, SizesIs DEF Stmts, Sizes
<1>3. r.ret = "ok" /\ ~Mixed => IndUpTo(r.st, 0, k)
  <2>1. CASE k <= x.bindpv_size
    BY <1>1, <2>1 DEF IndInv, IndUpTo
  <2>2. CASE k > x.bindpv_size
    BY <1>1, <1>2, <2>2, SizesIs DEF IndInv, IndUpTo, Moved, Pos
  <2> QED
    BY <1>2, <2>1, <2>2
<1> QED
  BY <1>1, <1>3 DEF BoundTo, BindFailed

LEMMA BindNextIs ==
  ASSUME NEW x \in Stmts, NEW k \in 0 .. MaxPos, NEW m \in 1 .. k, NEW y,
         BoundTo(x, y, m - 1, k), NEW r \in BindByPos(y, m, "lib", FALSE)
  PROVE  /\ r.ret \in {"ok", "error"}
         /\ r.ret = "ok" => BoundTo(x, r.st, m, k)
         /\ r.ret = "error" => BindFailed(x, r.st)
<1>0. m \in Pos /\ m \in 0 .. MaxPos /\ y \in Stmts /\ k <= y.bindpv_size /\ BindInv(y)
  BY SizesIs DEF Pos, BoundTo
<1>1. y.bindpv_size \in Int /\ m <= y.bindpv_size
  BY <1>0, SizesIs DEF Stmts, Sizes
<1>2. r \in BindCall(y, m, m, "lib", FALSE)
  <2>1. AllocBindp(y, m) = {Ok(y)}
    BY <1>1 DEF AllocBindp
  <2>2. r \in Then({Ok(y)}, LAMBDA z : BindCall(z, m, m, "lib", FALSE))
    BY <2>1, Zenon DEF BindByPos
  <2>3. Ok(y).st = y /\ Ok(y).ret = "ok"
    BY DEF Ok
  <2> QED
    BY <2>2, <2>3 DEF Then
<1>3. Called(y, m, "lib", r)
  <2>1. "lib" \in {"app", "lib"} /\ FALSE \in BOOLEAN
    OBVIOUS
  <2> QED
    BY <1>0, <1>1, <1>2, <2>1, BindCallIs
<1> USE DEF Called
<1>4. OnlyBinds(x, r.st)
  BY <1>3 DEF BoundTo, OnlyBinds, SameDefines, SameStage, SameKind
<1>5. r.ret = "ok" /\ ~Mixed => IndUpTo(r.st, m, k)
  <2>1. y.obind \in [Pos -> Pointers]
    BY <1>0 DEF Stmts
  <2> QED
    BY <1>0, <1>1, <1>3, <2>1, SizesIs DEF BoundTo, IndUpTo, Pos
<1> QED
  BY <1>0, <1>3, <1>4, <1>5 DEF BoundTo, BindFailed

\* _bind_argv: all values are bound, or some and an error is returned.
LEMMA BindArgvBinds ==
  ASSUME NEW x \in Stmts, NEW k \in 0 .. MaxPos, BindInv(x), IndInv(x),
         NEW r \in BindArgv(x, k)
  PROVE  /\ r.ret \in {"ok", "error"}
         /\ r.ret = "ok" => BoundTo(x, r.st, k, k)
         /\ r.ret = "error" => BindFailed(x, r.st)
<1>0. k \in Nat
  OBVIOUS
<1>f. PICK f : LoopGives("bind", "", f, AllocBindp(x, k), k, BindArgv(x, k))
  BY <1>0, BindArgvIs
<1>1. /\ BindArgv(x, k) = f[k] /\ f[0] = AllocBindp(x, k)
      /\ \A n \in 1 .. k : f[n] = BindNext(f[n - 1], n)
  <2>1. /\ BindArgv(x, k) = f[k] /\ f[0] = AllocBindp(x, k)
        /\ \A n \in 1 .. k : f[n] = Turn("bind", "", f[n - 1], n)
    BY <1>f DEF LoopGives
  <2>2. \A R, n : Turn("bind", "", R, n) = BindNext(R, n)
    BY DEF Turn
  <2> QED
    BY <2>1, <2>2
<1> DEFINE Fine(n) == \A q \in f[n] : /\ q.ret \in {"ok", "error"}
                                      /\ q.ret = "ok" => BoundTo(x, q.st, n, k)
                                      /\ q.ret = "error" => BindFailed(x, q.st)
           S == {n \in 0 .. k : Fine(n)}
<1>2. 0 \in S
  <2>1. f[0] = AllocBindp(x, k)
    BY <1>1
  <2> QED
    BY <2>1, BindFirst
<1>3. ASSUME NEW n \in 1 .. k, n - 1 \in S
      PROVE  n \in S
  <2> SUFFICES ASSUME NEW q \in f[n]
               PROVE  /\ q.ret \in {"ok", "error"}
                      /\ q.ret = "ok" => BoundTo(x, q.st, n, k)
                      /\ q.ret = "error" => BindFailed(x, q.st)
    OBVIOUS
  <2>1. f[n] = BindNext(f[n - 1], n) /\ Fine(n - 1)
    BY <1>1, <1>3
  <2>2. PICK p \in f[n - 1] :
          \/ p.ret # "ok" /\ q = p
          \/ p.ret = "ok" /\ q \in BindByPos(p.st, n, "lib", FALSE)
    BY <2>1 DEF BindNext, Then
  <2>3. CASE p.ret # "ok" /\ q = p
    BY <2>1, <2>2, <2>3
  <2>4. CASE p.ret = "ok" /\ q \in BindByPos(p.st, n, "lib", FALSE)
    BY <2>1, <2>2, <2>4, BindNextIs
  <2> QED
    BY <2>2, <2>3, <2>4
<1> HIDE DEF S
<1>4. 0 .. k \subseteq S
  BY <1>0, <1>2, <1>3, UpTo
<1>5. k \in S
  BY <1>4
<1> QED
  BY <1>1, <1>5 DEF S

-----------------------------------------------------------------------------
(* The defines.  A nested table that is defined out of order, or twice,    *)
(* breaks what the code asserts of its count, so that two parts are stated *)
(* without AnyOrder; a buffer that could not be allocated is used all the  *)
(* same, so that one is without that fault.                                *)
NoBuffer == "buffer" \notin Faults
Counted(x) ==
  ~AnyOrder => x.num_defnpv <= x.defnpv_size /\ x.num_defnpv <= Len(x.list)
DefnpvOwn(x) ==
  ~AnyOrder /\ NoArray => \A i \in Pos : /\ x.defnpv[i] # "stale"
                                         /\ i > x.num_defnpv => x.defnpv[i] = "null"
LibCounted(x) == \A i \in Pos : x.odef[i].ind = "lib" => i <= x.num_defnpv
BuffersFit(x) ==
  NoBuffer => \A i \in Pos : /\ x.outv_size[i] <= x.outv[i]
                             /\ x.odef[i].ind = "lib" =>
                                  x.odef[i].buf = "lib" /\ x.odef[i].size <= x.outv[i]
InPlace(x) ==
  ~Mixed => \A i \in Pos : /\ x.odef[i].ind # "gone"
                           /\ x.odef[i].ind = "lib" =>
                                x.kind # "prepared" /\ Len(x.list) <= x.defnpv_size

DefInv(x) == Counted(x) /\ DefnpvOwn(x) /\ LibCounted(x) /\ BuffersFit(x) /\ InPlace(x)

OnlyDefines(x, y) == SameBinds(x, y) /\ SameStage(x, y)

LEMMA StmtDefines ==
  ASSUME NEW x \in Stmts
  PROVE  /\ x.num_defnpv \in 0 .. MaxPos /\ x.defnpv_size \in Sizes
         /\ x.defnpv \in [Pos -> Handles]
         /\ x.outv \in [Pos -> Words] /\ x.outv_size \in [Pos -> Words]
         /\ x.odef \in [Pos -> [buf : Pointers, size : Words, ind : Pointers]]
         /\ x.list \in Lists \union {<< >>}
BY DEF Stmts

LEMMA ListIs ==
  ASSUME NEW x \in Stmts
  PROVE  /\ Len(x.list) \in 0 .. MaxPos
         /\ \A p \in 1 .. Len(x.list) : x.list[p] \in 1 .. MaxLong \union {Unsupported}
<1>1. CASE x.list = << >>
  BY <1>1, SizesIs
<1>2. CASE x.list \in Lists
  <2>1. x.list \in Seq(1 .. MaxLong \union {Unsupported}) /\ Len(x.list) <= MaxPos
    BY <1>2, WidthAssumption
  <2> QED
    BY <2>1, SizesIs
<1> QED
  BY <1>1, <1>2, StmtDefines

LEMMA DefInvStays ==
  ASSUME NEW x, NEW y, DefInv(x), SameDefines(x, y), SameKind(x, y)
  PROVE  DefInv(y)
BY DEF DefInv, Counted, DefnpvOwn, LibCounted, BuffersFit, InPlace, SameDefines, SameKind

\* What _alloc_definep gives for n elements.
DefnpGrown(x, n, r) ==
  /\ r.st \in Stmts /\ OnlyDefines(x, r.st) /\ r.ret \in {"ok", "error"} /\ DefInv(r.st)
  /\ r.st.num_defnpv = x.num_defnpv
  /\ r.st.ocol_namev = x.ocol_namev /\ r.st.params = x.params
  /\ r.ret = "ok" => n <= r.st.defnpv_size /\ r.st.whole = x.whole
  /\ r.ret = "error" => n > x.defnpv_size /\ GrowthLabel(x.defnpv_size) \in Faults
  /\ \A i \in Pos : r.st.odef[i].buf = x.odef[i].buf

\* The vector is not moved under a define of the library's.
Roomy(x, n) == ~Mixed => \A i \in Pos : x.odef[i].ind = "lib" => n <= x.defnpv_size

LEMMA AllocDefinepIs ==
  ASSUME NEW x \in Stmts, NEW n \in 0 .. MaxPos, DefInv(x), Roomy(x, n),
         NEW r \in AllocDefinep(x, n)
  PROVE  DefnpGrown(x, n, r)
<1> USE DEF DefnpGrown
<1>1. CASE n <= x.defnpv_size
  <2>1. r = Ok(x)
    BY <1>1 DEF AllocDefinep
  <2> QED
    BY <1>1, <2>1 DEF Ok, OnlyDefines, SameBinds, SameStage, SameKind
<1>2. CASE ~(n <= x.defnpv_size)
  <2> DEFINE v == [i \in Pos |-> IF i > x.defnpv_size THEN "null" ELSE x.defnpv[i]]
             o == [i \in Pos |-> [x.odef[i] EXCEPT !.ind = Moved(@)]]
             y == [x EXCEPT !.defnpv_size = Grown(n), !.defnpv = v, !.odef = o]
             z == [x EXCEPT !.whole = x.defnpv_size = 0]
  <2>1. r = Ok(y) \/ (r = Error(z) /\ GrowthLabel(x.defnpv_size) \in Faults)
    BY <1>2 DEF AllocDefinep, Fails
  <2>2. \A i \in Pos : /\ o[i] \in [buf : Pointers, size : Words, ind : Pointers]
                       /\ o[i].buf = x.odef[i].buf /\ o[i].size = x.odef[i].size
                       /\ o[i].ind = Moved(x.odef[i].ind)
    BY StmtDefines DEF Pointers, Moved
  <2>3. v \in [Pos -> Handles] /\ \A i \in Pos : v[i] \in {x.defnpv[i], "null"}
    BY StmtDefines DEF Handles
  <2>4. Grown(n) \in Sizes /\ n <= Grown(n)
    BY GrownIs
  <2>5. o \in [Pos -> [buf : Pointers, size : Words, ind : Pointers]]
    BY <2>2
  <2> HIDE DEF v, o
  <2>6. /\ y \in Stmts /\ y.num_defnpv = x.num_defnpv /\ y.whole = x.whole
        /\ y.ocol_namev = x.ocol_namev /\ y.params = x.params
        /\ y.outv = x.outv /\ y.outv_size = x.outv_size
        /\ y.defnpv_size = Grown(n) /\ y.defnpv = v /\ y.odef = o
        /\ OnlyDefines(x, y)
    BY <2>3, <2>4, <2>5 DEF Stmts, OnlyDefines, SameBinds, SameStage, SameKind
  <2>7. /\ z \in Stmts /\ OnlyDefines(x, z) /\ SameDefines(x, z) /\ z.params = x.params
    BY DEF Stmts, OnlyDefines, SameBinds, SameStage, SameKind, SameDefines
  <2> HIDE DEF y, z
  <2>8. /\ x.defnpv_size \in Int /\ Grown(n) \in Int /\ x.num_defnpv \in Int /\ n \in Int
        /\ y.kind = x.kind /\ y.list = x.list
    BY <2>4, <2>6, SizesIs, StmtInts DEF Sizes, OnlyDefines, SameStage, SameKind
  <2>9. DefInv(y)
    <3>1. Counted(y)
      BY <1>2, <2>4, <2>6, <2>8, ListIs DEF DefInv, Counted
    <3>2. DefnpvOwn(y)
      BY <2>3, <2>6 DEF DefInv, DefnpvOwn
    <3>3. LibCounted(y)
      BY <2>2, <2>6 DEF DefInv, LibCounted, Moved
    <3>4. BuffersFit(y)
      BY <2>2, <2>6 DEF DefInv, BuffersFit, Moved
    <3>5. InPlace(y)
      BY <1>2, <2>2, <2>6, <2>8 DEF DefInv, InPlace, Moved, Roomy
    <3> QED
      BY <3>1, <3>2, <3>3, <3>4, <3>5 DEF DefInv
  <2>10. CASE r = Ok(y)
    <3>1. r.st = y /\ r.ret = "ok"
      BY <2>10 DEF Ok
    <3> QED
      BY <2>2, <2>4, <2>6, <2>9, <3>1
  <2>11. CASE r = Error(z) /\ GrowthLabel(x.defnpv_size) \in Faults
    <3>1. r.st = z /\ r.ret = "error"
      BY <2>11 DEF Error
    <3>2. DefInv(z)
      BY <2>7, DefInvStays DEF OnlyDefines, SameStage
    <3>3. n > x.defnpv_size
      BY <1>2, <2>8
    <3> QED
      BY <2>7, <2>11, <3>1, <3>2, <3>3 DEF SameDefines
  <2> QED
    BY <2>1, <2>10, <2>11
<1> QED
  BY <1>1, <1>2

\* The handle, what OCI is told, and the count, after a define of position p.
Defines == [buf : Pointers, size : Words, ind : {"app", "lib"}]
DefineSet(x, p, d, n) == [x EXCEPT !.defnpv[p] = "own", !.odef[p] = d, !.num_defnpv = n]
\* A define that keeps what DefInv says.
GoodDefine(x, p, d, n) ==
  /\ x.num_defnpv <= n
  /\ ~AnyOrder => n <= x.defnpv_size /\ n <= Len(x.list)
  /\ ~AnyOrder /\ NoArray => p <= n
  /\ d.ind = "lib" => /\ p <= n
                      /\ NoBuffer => d.buf = "lib" /\ d.size <= x.outv[p]
                      /\ ~Mixed => x.kind # "prepared" /\ Len(x.list) <= x.defnpv_size

DefineMade(x, p, d, n, y) ==
  /\ y \in Stmts /\ OnlyDefines(x, y) /\ DefInv(y) /\ y.num_defnpv = n
  /\ y.whole = x.whole /\ y.ocol_namev = x.ocol_namev /\ y.params = x.params
  /\ y.defnpv_size = x.defnpv_size /\ y.odef = [x.odef EXCEPT ![p] = d]

LEMMA DefineSetIs ==
  ASSUME NEW x \in Stmts, NEW p \in Pos, NEW d \in Defines, NEW n \in 0 .. MaxPos,
         DefInv(x), GoodDefine(x, p, d, n)
  PROVE  DefineMade(x, p, d, n, DefineSet(x, p, d, n))
<1> DEFINE h == [x.defnpv EXCEPT ![p] = "own"]
           o == [x.odef EXCEPT ![p] = d]
           y == DefineSet(x, p, d, n)
<1>1. d \in [buf : Pointers, size : Words, ind : Pointers] /\ d.ind \in {"app", "lib"}
  BY DEF Defines, Pointers
<1>2. /\ h \in [Pos -> Handles] /\ \A i \in Pos : h[i] = IF i = p THEN "own" ELSE x.defnpv[i]
      /\ o \in [Pos -> [buf : Pointers, size : Words, ind : Pointers]]
  BY <1>1, StmtDefines DEF Handles
<1>3. \A i \in Pos : o[i] = IF i = p THEN d ELSE x.odef[i]
  BY StmtDefines
<1>4. y = [x EXCEPT !.defnpv = h, !.odef = o, !.num_defnpv = n]
  BY DEF Stmts, DefineSet
<1>5. \A i \in Pos : i \in Int
  BY SizesIs DEF Pos
<1>6. x.num_defnpv \in Int /\ n \in Int
  BY StmtInts, SizesIs
<1> HIDE DEF h, o, y
<1>7. /\ y \in Stmts /\ OnlyDefines(x, y) /\ y.num_defnpv = n
      /\ y.whole = x.whole /\ y.ocol_namev = x.ocol_namev /\ y.params = x.params
      /\ y.defnpv_size = x.defnpv_size /\ y.defnpv = h /\ y.odef = o
      /\ y.outv = x.outv /\ y.outv_size = x.outv_size
      /\ y.kind = x.kind /\ y.list = x.list
  BY <1>2, <1>4 DEF Stmts, OnlyDefines, SameBinds, SameStage, SameKind
<1>8. DefInv(y)
  <2>1. Counted(y)
    BY <1>7 DEF GoodDefine, Counted
  <2>2. DefnpvOwn(y)
    BY <1>2, <1>5, <1>6, <1>7 DEF GoodDefine, DefInv, DefnpvOwn
  <2>3. LibCounted(y)
    BY <1>3, <1>5, <1>6, <1>7 DEF GoodDefine, DefInv, LibCounted
  <2>4. BuffersFit(y)
    BY <1>3, <1>7 DEF GoodDefine, DefInv, BuffersFit
  <2>5. InPlace(y)
    BY <1>1, <1>3, <1>7 DEF GoodDefine, DefInv, InPlace
  <2> QED
    BY <2>1, <2>2, <2>3, <2>4, <2>5 DEF DefInv
<1> QED
  BY <1>7, <1>8 DEF DefineMade, y, o

\* sqlo_define_by_pos and its like, once the vector has grown: OCIDefineByPos, the
\* structure's strides, the count.
DefineOutcome(x, p, d, array, r) ==
  \/ r = Error(x)
  \/ array /\ ~NoArray /\ r = Error(DefineSet(x, p, d, x.num_defnpv))
  \/ r = Ok(DefineSet(x, p, d, Larger(x.num_defnpv, p)))

LEMMA DefineByPosCases ==
  ASSUME NEW x, NEW p, NEW d, NEW array \in BOOLEAN, NEW r \in DefineByPos(x, p, d, array),
         \A q \in AllocDefinep(x, p) : q.st \in Stmts
  PROVE  \E q \in AllocDefinep(x, p) :
           \/ q.ret # "ok" /\ r = q
           \/ q.ret = "ok" /\ DefineOutcome(q.st, p, d, array, r)
<1> DEFINE set(y) == [y EXCEPT !.defnpv[p] = "own", !.odef[p] = d]
           done(y) == [set(y) EXCEPT !.num_defnpv = Larger(@, p)]
<1>1. PICK q \in AllocDefinep(x, p) :
        \/ q.ret # "ok" /\ r = q
        \/ q.ret = "ok" /\ (r = Error(q.st) \/ (array /\ ~NoArray /\ r = Error(set(q.st))) \/ r = Ok(done(q.st)))
  BY DEF DefineByPos, Then, Fails, NoArray
<1>2. /\ set(q.st) = DefineSet(q.st, p, d, q.st.num_defnpv)
      /\ done(q.st) = DefineSet(q.st, p, d, Larger(q.st.num_defnpv, p))
  <2>1. q.st \in Stmts
    OBVIOUS
  <2> QED
    BY <2>1 DEF Stmts, DefineSet
<1> HIDE DEF set, done
<1> QED
  BY <1>1, <1>2 DEF DefineOutcome

\* A define of the library's: of the next column, once the vector is large enough.
LEMMA LibDefineIs ==
  ASSUME NEW x \in Stmts, NEW p \in 1 .. Len(x.list), NEW d \in Defines, DefInv(x), d.ind = "lib",
         x.num_defnpv = p - 1, Len(x.list) <= x.defnpv_size, x.kind # "prepared",
         NoBuffer => d.buf = "lib" /\ d.size <= x.outv[p],
         NEW r \in DefineByPos(x, p, d, FALSE)
  PROVE  r = Error(x) \/ (r.ret = "ok" /\ DefineMade(x, p, d, p, r.st))
<1>1. /\ p \in Pos /\ p \in 0 .. MaxPos /\ p <= x.defnpv_size /\ p <= Len(x.list) /\ p \in Int
      /\ Larger(p - 1, p) = p
  BY ListIs, SizesIs, StmtInts DEF Pos, Larger
<1>2. AllocDefinep(x, p) = {Ok(x)} /\ Ok(x).st = x /\ Ok(x).ret = "ok"
  BY <1>1 DEF AllocDefinep, Ok
<1>3. DefineOutcome(x, p, d, FALSE, r)
  <2>1. FALSE \in BOOLEAN /\ \A q \in AllocDefinep(x, p) : q = Ok(x) /\ q.st \in Stmts
    BY <1>2
  <2>2. PICK q \in AllocDefinep(x, p) :
          \/ q.ret # "ok" /\ r = q
          \/ q.ret = "ok" /\ DefineOutcome(q.st, p, d, FALSE, r)
    <3>1. \A q \in AllocDefinep(x, p) : q.st \in Stmts
      BY <2>1
    <3> QED
      BY <3>1, DefineByPosCases
  <2>3. q = Ok(x)
    BY <2>1
  <2> QED
    BY <1>2, <2>2, <2>3
<1>4. GoodDefine(x, p, d, p)
  BY <1>1 DEF GoodDefine
<1>5. DefineMade(x, p, d, p, DefineSet(x, p, d, p))
  BY <1>1, <1>4, DefineSetIs
<1>6. r = Error(x) \/ r = Ok(DefineSet(x, p, d, p))
  BY <1>1, <1>3 DEF DefineOutcome
<1> QED
  BY <1>5, <1>6 DEF Ok

\* A define by the application, which makes no promise to the library's columns.
LEMMA AppDefineIs ==
  ASSUME NEW x \in Stmts, NEW p \in 1 .. Len(x.list), NEW array \in BOOLEAN, DefInv(x),
         ~Mixed => x.kind = "prepared",
         NEW r, \/ r \in DefineByPos(x, p, AppDefine, array)
                \/ /\ IF AnyOrder THEN x.num_defnpv < MaxPos ELSE p = x.num_defnpv + 1
                   /\ r \in DefineNtable(x, p)
  PROVE  r.st \in Stmts /\ OnlyDefines(x, r.st) /\ r.ret \in {"ok", "error"} /\ DefInv(r.st)
<1>1. /\ p \in Pos /\ p \in 0 .. MaxPos /\ p <= Len(x.list) /\ p \in Int /\ MaxPos \in Int
      /\ x.num_defnpv \in Int /\ x.num_defnpv \in 0 .. MaxPos /\ Len(x.list) \in Int
  BY ListIs, SizesIs, StmtInts DEF Pos
<1>2. AppDefine \in Defines /\ AppDefine.ind = "app"
  BY SizesIs DEF AppDefine, Defines, Pointers, Words
<1>3. Roomy(x, p)
  BY DEF Roomy, DefInv, InPlace
<1>4. PICK q \in AllocDefinep(x, p) :
        \/ q.ret # "ok" /\ r = q
        \/ q.ret = "ok" /\ r = Error(q.st)
        \/ /\ q.ret = "ok" /\ ~NoArray
           /\ r = Error(DefineSet(q.st, p, AppDefine, x.num_defnpv))
        \/ q.ret = "ok" /\ r = Ok(DefineSet(q.st, p, AppDefine, Larger(x.num_defnpv, p)))
        \/ /\ q.ret = "ok" /\ IF AnyOrder THEN x.num_defnpv < MaxPos ELSE p = x.num_defnpv + 1
           /\ r = Ok(DefineSet(q.st, p, AppDefine, x.num_defnpv + 1))
  <2>1. CASE r \in DefineByPos(x, p, AppDefine, array)
    <3>1. \A q \in AllocDefinep(x, p) : DefnpGrown(x, p, q)
      BY <1>1, <1>3, AllocDefinepIs
    <3>2. \A q \in AllocDefinep(x, p) : q.st \in Stmts /\ q.st.num_defnpv = x.num_defnpv
      BY <3>1 DEF DefnpGrown
    <3>3. PICK q \in AllocDefinep(x, p) :
            \/ q.ret # "ok" /\ r = q
            \/ q.ret = "ok" /\ DefineOutcome(q.st, p, AppDefine, array, r)
      BY <2>1, <3>2, DefineByPosCases
    <3>4. q.st.num_defnpv = x.num_defnpv
      BY <3>2
    <3> QED
      BY <3>3, <3>4 DEF DefineOutcome
  <2>2. CASE /\ IF AnyOrder THEN x.num_defnpv < MaxPos ELSE p = x.num_defnpv + 1
             /\ r \in DefineNtable(x, p)
    <3>1. PICK q \in AllocDefinep(x, p) :
           \/ q.ret # "ok" /\ r = q
           \/ q.ret = "ok" /\ r = Error(q.st)
           \/ /\ q.ret = "ok"
              /\ r = Ok([q.st EXCEPT !.defnpv[p] = "own", !.odef[p] = AppDefine, !.num_defnpv = @ + 1])
      BY <2>2 DEF DefineNtable, Then, Fails
    <3>2. DefnpGrown(x, p, q)
      BY <1>1, <1>3, AllocDefinepIs
    <3>3. q.st \in Stmts /\ q.st.num_defnpv = x.num_defnpv
      BY <3>2 DEF DefnpGrown
    <3>4. [q.st EXCEPT !.defnpv[p] = "own", !.odef[p] = AppDefine, !.num_defnpv = @ + 1]
            = DefineSet(q.st, p, AppDefine, x.num_defnpv + 1)
      BY <3>3 DEF Stmts, DefineSet
    <3> QED
      BY <2>2, <3>1, <3>4
  <2> QED
    BY <2>1, <2>2
<1>5. DefnpGrown(x, p, q)
  BY <1>1, <1>3, AllocDefinepIs
<1>6. /\ q.st \in Stmts /\ OnlyDefines(x, q.st) /\ DefInv(q.st) /\ q.ret \in {"ok", "error"}
      /\ q.st.num_defnpv = x.num_defnpv /\ q.st.list = x.list
      /\ q.ret = "ok" => p <= q.st.defnpv_size
      /\ q.st.defnpv_size \in Int
  BY <1>5, StmtInts DEF DefnpGrown, OnlyDefines, SameStage, SameKind
<1>7. ASSUME NEW n \in 0 .. MaxPos, GoodDefine(q.st, p, AppDefine, n)
      PROVE  LET y == DefineSet(q.st, p, AppDefine, n)
             IN  y \in Stmts /\ OnlyDefines(x, y) /\ DefInv(y)
  <2>1. DefineMade(q.st, p, AppDefine, n, DefineSet(q.st, p, AppDefine, n))
    BY <1>1, <1>2, <1>6, <1>7, DefineSetIs
  <2> QED
    BY <1>6, <2>1 DEF DefineMade, OnlyDefines, SameBinds, SameStage, SameKind
<1>8. CASE q.ret # "ok" /\ r = q
  BY <1>6, <1>8
<1>9. CASE q.ret = "ok" /\ r = Error(q.st)
  BY <1>6, <1>9 DEF Error
<1>10. CASE q.ret = "ok" /\ ~NoArray /\ r = Error(DefineSet(q.st, p, AppDefine, x.num_defnpv))
  <2>1. GoodDefine(q.st, p, AppDefine, x.num_defnpv)
    BY <1>1, <1>2, <1>6, <1>10 DEF GoodDefine, DefInv, Counted
  <2> QED
    BY <1>1, <1>7, <1>10, <2>1 DEF Error
<1>11. CASE q.ret = "ok" /\ r = Ok(DefineSet(q.st, p, AppDefine, Larger(x.num_defnpv, p)))
  <2>1. Larger(x.num_defnpv, p) \in {x.num_defnpv, p}
    BY DEF Larger
  <2>2. Larger(x.num_defnpv, p) >= x.num_defnpv /\ Larger(x.num_defnpv, p) >= p
    BY <1>1 DEF Larger
  <2>3. GoodDefine(q.st, p, AppDefine, Larger(x.num_defnpv, p))
    BY <1>1, <1>2, <1>6, <1>11, <2>1, <2>2 DEF GoodDefine, DefInv, Counted
  <2> QED
    BY <1>1, <1>7, <1>11, <2>1, <2>3 DEF Ok
<1>12. CASE /\ q.ret = "ok" /\ IF AnyOrder THEN x.num_defnpv < MaxPos ELSE p = x.num_defnpv + 1
            /\ r = Ok(DefineSet(q.st, p, AppDefine, x.num_defnpv + 1))
  <2>1. x.num_defnpv + 1 \in 0 .. MaxPos
    BY <1>1, <1>12
  <2>2. GoodDefine(q.st, p, AppDefine, x.num_defnpv + 1)
    BY <1>1, <1>2, <1>6, <1>12 DEF GoodDefine
  <2> QED
    BY <1>7, <1>12, <2>1, <2>2 DEF Ok
<1> QED
  BY <1>4, <1>8, <1>9, <1>10, <1>11, <1>12

\* _alloc_ocol_buffer, of a column the library has no define of yet.
BufferMade(x, p, y) ==
  /\ y \in Stmts /\ OnlyDefines(x, y) /\ DefInv(y) /\ y.num_defnpv = x.num_defnpv
  /\ y.whole = x.whole /\ y.ocol_namev = x.ocol_namev /\ y.params = x.params
  /\ y.defnpv_size = x.defnpv_size
  /\ \A i \in Pos : i # p => y.odef[i] = x.odef[i]
  /\ NoBuffer => y.outv[p] # 0

LEMMA AllocOcolBufferIs ==
  ASSUME NEW x \in Stmts, NEW p \in Pos, NEW width \in 1 .. MaxLong, DefInv(x),
         x.odef[p].ind # "lib", NEW r \in AllocOcolBuffer(x, p, width)
  PROVE  BufferMade(x, p, r.st)
<1> DEFINE size == IF x.outv[p] = 0 THEN Larger(width, MinBuf)
                   ELSE IF width < MaxLong THEN 2 * width ELSE width
           d == [x.odef[p] EXCEPT !.buf = Moved(@)]
           o == [x.odef EXCEPT ![p] = d]
           a == [x EXCEPT !.outv_size[p] = width]
           b == [x EXCEPT !.outv[p] = size, !.outv_size[p] = size, !.odef[p].buf = Moved(@)]
           c == [x EXCEPT !.outv[p] = 0]
<1>1. \/ r = Ok(a) /\ x.outv[p] # 0 /\ width <= x.outv_size[p]
      \/ r = Ok(b)
      \/ r = Error(c) /\ ~NoBuffer
  BY DEF AllocOcolBuffer, Fails, NoBuffer
<1>2. /\ size \in Words /\ width \in Words /\ 0 \in Words /\ size # 0 /\ size >= 0
  BY SizesIs DEF Words, Larger
<1>3. /\ x.odef[p] \in [buf : Pointers, size : Words, ind : Pointers]
      /\ x.outv[p] \in Int /\ x.outv_size[p] \in Int
  BY StmtDefines, SizesIs DEF Words
<1>4. d \in [buf : Pointers, size : Words, ind : Pointers] /\ d.ind = x.odef[p].ind
  BY <1>3 DEF Pointers, Moved
<1> HIDE DEF size, d
<1>5. /\ o \in [Pos -> [buf : Pointers, size : Words, ind : Pointers]]
      /\ \A i \in Pos : o[i] = IF i = p THEN d ELSE x.odef[i]
  BY <1>4, StmtDefines
<1> HIDE DEF o
<1>6. CASE r = Ok(a) /\ x.outv[p] # 0 /\ width <= x.outv_size[p]
  <2> DEFINE s == [x.outv_size EXCEPT ![p] = width]
  <2>1. s \in [Pos -> Words] /\ \A i \in Pos : s[i] = IF i = p THEN width ELSE x.outv_size[i]
    BY <1>2, StmtDefines
  <2>2. a = [x EXCEPT !.outv_size = s]
    BY DEF Stmts
  <2> HIDE DEF s, a
  <2>3. /\ a \in Stmts /\ OnlyDefines(x, a) /\ a.num_defnpv = x.num_defnpv
        /\ a.whole = x.whole /\ a.ocol_namev = x.ocol_namev /\ a.params = x.params
        /\ a.defnpv_size = x.defnpv_size /\ a.defnpv = x.defnpv /\ a.odef = x.odef
        /\ a.outv = x.outv /\ a.outv_size = s /\ a.kind = x.kind /\ a.list = x.list
    BY <2>1, <2>2 DEF Stmts, OnlyDefines, SameBinds, SameStage, SameKind
  <2>4. width \in Int
    OBVIOUS
  <2>5. BuffersFit(a)
    BY <1>3, <1>6, <2>1, <2>3, <2>4 DEF DefInv, BuffersFit
  <2>6. DefInv(a)
    BY <2>3, <2>5 DEF DefInv, Counted, DefnpvOwn, LibCounted, InPlace
  <2> QED
    BY <1>6, <2>3, <2>6 DEF BufferMade, Ok
<1>7. CASE r = Ok(b)
  <2> DEFINE s == [x.outv_size EXCEPT ![p] = size]
             v == [x.outv EXCEPT ![p] = size]
  <2>1. /\ s \in [Pos -> Words] /\ \A i \in Pos : s[i] = IF i = p THEN size ELSE x.outv_size[i]
        /\ v \in [Pos -> Words]
    BY <1>2, StmtDefines
  <2>2. \A i \in Pos : v[i] = IF i = p THEN size ELSE x.outv[i]
    BY StmtDefines
  <2>3. b = [x EXCEPT !.outv = v, !.outv_size = s, !.odef = o]
    BY DEF Stmts, o, d
  <2> HIDE DEF s, v, b
  <2>4. /\ b \in Stmts /\ OnlyDefines(x, b) /\ b.num_defnpv = x.num_defnpv
        /\ b.whole = x.whole /\ b.ocol_namev = x.ocol_namev /\ b.params = x.params
        /\ b.defnpv_size = x.defnpv_size /\ b.defnpv = x.defnpv /\ b.odef = o
        /\ b.outv = v /\ b.outv_size = s /\ b.kind = x.kind /\ b.list = x.list
    BY <1>5, <2>1, <2>3 DEF Stmts, OnlyDefines, SameBinds, SameStage, SameKind
  <2>5. size \in Int
    BY <1>2, SizesIs DEF Words
  <2>6. LibCounted(b)
    BY <1>4, <1>5, <2>4 DEF DefInv, LibCounted
  <2>7. BuffersFit(b)
    BY <1>4, <1>5, <2>1, <2>2, <2>4, <2>5 DEF DefInv, BuffersFit
  <2>8. InPlace(b)
    BY <1>4, <1>5, <2>4 DEF DefInv, InPlace
  <2>9. DefInv(b)
    BY <2>4, <2>6, <2>7, <2>8 DEF DefInv, Counted, DefnpvOwn
  <2> QED
    BY <1>2, <1>5, <1>7, <2>2, <2>4, <2>9 DEF BufferMade, Ok
<1>8. CASE r = Error(c) /\ ~NoBuffer
  <2> DEFINE v == [x.outv EXCEPT ![p] = 0]
  <2>1. v \in [Pos -> Words]
    BY <1>2, StmtDefines
  <2>2. c = [x EXCEPT !.outv = v]
    BY DEF Stmts
  <2> HIDE DEF v, c
  <2>3. /\ c \in Stmts /\ OnlyDefines(x, c) /\ c.num_defnpv = x.num_defnpv
        /\ c.whole = x.whole /\ c.ocol_namev = x.ocol_namev /\ c.params = x.params
        /\ c.defnpv_size = x.defnpv_size /\ c.defnpv = x.defnpv /\ c.odef = x.odef
        /\ c.kind = x.kind /\ c.list = x.list
    BY <2>1, <2>2 DEF Stmts, OnlyDefines, SameBinds, SameStage, SameKind
  <2>4. DefInv(c)
    BY <1>8, <2>3 DEF DefInv, Counted, DefnpvOwn, LibCounted, InPlace, BuffersFit
  <2> QED
    BY <1>8, <2>3, <2>4 DEF BufferMade, Error
<1> QED
  BY <1>1, <1>6, <1>7, <1>8

-----------------------------------------------------------------------------
(* Names and descriptors of columns.                                       *)
Names == [Pos -> {"unset", "own", "stale"}]
OnlyNames(x, y) ==
  /\ y \in Stmts /\ OnlyDefines(x, y) /\ y.whole = x.whole
  /\ y.defnpv_size = x.defnpv_size /\ y.num_defnpv = x.num_defnpv /\ y.defnpv = x.defnpv
  /\ y.outv = x.outv /\ y.outv_size = x.outv_size /\ y.odef = x.odef
  /\ \A i \in Pos : y.ocol_namev[i] \in {x.ocol_namev[i], "own"}

LEMMA OnlyNamesTrans ==
  ASSUME NEW x, NEW y, NEW z, OnlyNames(x, y), OnlyNames(y, z)
  PROVE  OnlyNames(x, z)
<1>1. \A i \in Pos : z.ocol_namev[i] \in {x.ocol_namev[i], "own"}
  BY DEF OnlyNames
<1> QED
  BY <1>1 DEF OnlyNames, OnlyDefines, SameBinds, SameStage, SameKind

LEMMA OnlyNamesInv ==
  ASSUME NEW x, NEW y, OnlyNames(x, y), DefInv(x)
  PROVE  DefInv(y)
BY DEF OnlyNames, DefInv, OnlyDefines, SameStage, SameKind, Counted, DefnpvOwn, LibCounted,
       BuffersFit, InPlace

LEMMA DescribedIs ==
  ASSUME NEW x \in Stmts, NEW r \in Described(x)
  PROVE  OnlyNames(x, r.st) /\ r.st.ocol_namev = x.ocol_namev /\ r.ret \in {"ok", "error"}
<1>1. r = Ok(x) \/ r = Error(x) \/ r = Error([x EXCEPT !.params = TRUE])
  BY DEF Described, Fails
<1>2. r.st \in {x, [x EXCEPT !.params = TRUE]} /\ r.ret \in {"ok", "error"}
  BY <1>1 DEF Ok, Error
<1> QED
  BY <1>2, ZenonT(30) DEF Stmts, OnlyNames, OnlyDefines, SameBinds, SameStage, SameKind

LEMMA SetOcolNameIs ==
  ASSUME NEW x \in Stmts, NEW p \in Pos, NEW l, NEW r \in SetOcolName(x, p, l)
  PROVE  /\ OnlyNames(x, r.st) /\ r.ret \in {"ok", "error"}
         /\ r.ret = "ok" => r.st.ocol_namev[p] = "own"
         /\ r.ret = "error" => {l, "attr"} \cap Faults # {}
<1> DEFINE v == [x.ocol_namev EXCEPT ![p] = "own"]
           y == [x EXCEPT !.ocol_namev[p] = "own"]
           z == [x EXCEPT !.params = TRUE]
<1>1. r = Ok(y) \/ (r \in {Error(x), Error(y), Error(z)} /\ {l, "attr"} \cap Faults # {})
  BY DEF SetOcolName, NameFails, Named, Fails
<1>2. x.ocol_namev \in Names
  BY DEF Stmts, Names
<1>3. v \in Names /\ v[p] = "own" /\ \A i \in Pos : v[i] \in {x.ocol_namev[i], "own"}
  BY <1>2 DEF Names
<1>4. y = [x EXCEPT !.ocol_namev = v]
  BY DEF Stmts
<1> HIDE DEF v, y
<1>5. y \in Stmts /\ y.ocol_namev = v /\ OnlyNames(x, y)
  BY <1>3, <1>4 DEF Stmts, Names, OnlyNames, OnlyDefines, SameBinds, SameStage, SameKind
<1>6. OnlyNames(x, x) /\ OnlyNames(x, z)
  BY DEF Stmts, OnlyNames, OnlyDefines, SameBinds, SameStage, SameKind
<1> HIDE DEF z
<1> QED
  BY <1>1, <1>3, <1>5, <1>6 DEF Ok, Error

\* The five descriptions of a column and its name, of _define_ocol_by_pos.
LEMMA DescribeOcolIs ==
  ASSUME NEW x \in Stmts, NEW p \in Pos, NEW r \in DescribeOcol(x, p)
  PROVE  /\ OnlyNames(x, r.st) /\ r.ret \in {"ok", "error"}
         /\ r.ret = "ok" => r.st.ocol_namev[p] = "own"
<1> DEFINE Fine(R, q) == \A r2 \in R : /\ OnlyNames(x, r2.st) /\ r2.ret \in {"ok", "error"}
                                       /\ r2.ret = "ok" /\ q => r2.st.ocol_namev[p] = "own"
           A == GetOcolDbDataType(x)
           B == Then(A, LAMBDA y : SetOcolName(y, p, "name"))
           C == Then(B, GetOcolDbSize)
           D == Then(C, GetOcolDbPrec)
           E == Then(D, GetOcolDbScale)
           F == Then(E, GetOcolDbIsNull)
<1>1. Fine(A, FALSE)
  BY DescribedIs DEF GetOcolDbDataType
<1>2. Fine(B, TRUE)
  <2> HIDE DEF A
  <2> SUFFICES ASSUME NEW s \in B
               PROVE  /\ OnlyNames(x, s.st) /\ s.ret \in {"ok", "error"}
                      /\ s.ret = "ok" => s.st.ocol_namev[p] = "own"
    OBVIOUS
  <2>1. PICK q \in A : (q.ret # "ok" /\ s = q) \/ (q.ret = "ok" /\ s \in SetOcolName(q.st, p, "name"))
    BY DEF Then
  <2>2. OnlyNames(x, q.st) /\ q.ret \in {"ok", "error"} /\ q.st \in Stmts
    BY <1>1 DEF OnlyNames
  <2>3. CASE q.ret = "ok" /\ s \in SetOcolName(q.st, p, "name")
    BY <2>2, <2>3, SetOcolNameIs, OnlyNamesTrans
  <2> QED
    BY <2>1, <2>2, <2>3
<1>3. ASSUME NEW R, Fine(R, TRUE),
             NEW s, NEW q \in R, (q.ret # "ok" /\ s = q) \/ (q.ret = "ok" /\ s \in Described(q.st))
      PROVE  /\ OnlyNames(x, s.st) /\ s.ret \in {"ok", "error"}
             /\ s.ret = "ok" => s.st.ocol_namev[p] = "own"
  <2>1. OnlyNames(x, q.st) /\ q.ret \in {"ok", "error"} /\ q.st \in Stmts
    BY <1>3 DEF OnlyNames
  <2>2. CASE q.ret = "ok" /\ s \in Described(q.st)
    BY <1>3, <2>1, <2>2, DescribedIs, OnlyNamesTrans
  <2> QED
    BY <1>3, <2>1, <2>2
<1>4. Fine(C, TRUE)
  <2> HIDE DEF B
  <2>1. \A s \in C : \E q \in B : (q.ret # "ok" /\ s = q) \/ (q.ret = "ok" /\ s \in Described(q.st))
    BY DEF Then, GetOcolDbSize
  <2> QED
    BY <1>2, <1>3, <2>1
<1>5. Fine(D, TRUE)
  <2> HIDE DEF C
  <2>1. \A s \in D : \E q \in C : (q.ret # "ok" /\ s = q) \/ (q.ret = "ok" /\ s \in Described(q.st))
    BY DEF Then, GetOcolDbPrec
  <2> QED
    BY <1>4, <1>3, <2>1
<1>6. Fine(E, TRUE)
  <2> HIDE DEF D
  <2>1. \A s \in E : \E q \in D : (q.ret # "ok" /\ s = q) \/ (q.ret = "ok" /\ s \in Described(q.st))
    BY DEF Then, GetOcolDbScale
  <2> QED
    BY <1>5, <1>3, <2>1
<1>7. Fine(F, TRUE)
  <2> HIDE DEF E
  <2>1. \A s \in F : \E q \in E : (q.ret # "ok" /\ s = q) \/ (q.ret = "ok" /\ s \in Described(q.st))
    BY DEF Then, GetOcolDbIsNull
  <2> QED
    BY <1>6, <1>3, <2>1
<1>8. DescribeOcol(x, p) = F
  BY Zenon DEF DescribeOcol
<1> QED
  BY <1>7, <1>8

-----------------------------------------------------------------------------
(* The loop of _define_output: y is x after n columns.                     *)
DefinedTo(x, y, n) ==
  /\ y \in Stmts /\ OnlyDefines(x, y) /\ DefInv(y) /\ y.whole = x.whole
  /\ y.num_defnpv = n /\ Len(x.list) <= y.defnpv_size
  /\ \A i \in Pos : i <= n => /\ y.ocol_namev[i] = "own"
                              /\ NoBuffer => y.odef[i].buf = "lib"
DefineFailed(x, y) == y \in Stmts /\ OnlyDefines(x, y) /\ DefInv(y)

LEMMA OnlyDefinesTrans ==
  ASSUME NEW x, NEW y, NEW z, OnlyDefines(x, y), OnlyDefines(y, z)
  PROVE  OnlyDefines(x, z)
BY DEF OnlyDefines, SameBinds, SameStage, SameKind

LEMMA DefineNextIs ==
  ASSUME NEW x \in Stmts, NEW n \in 1 .. Len(x.list), x.kind # "prepared", NEW y,
         DefinedTo(x, y, n - 1), NEW r \in DefineOcolByPos(y, n)
  PROVE  /\ r.ret \in {"ok", "error"}
         /\ r.ret = "ok" => DefinedTo(x, r.st, n)
         /\ r.ret = "error" => DefineFailed(x, r.st)
<1>1. /\ y \in Stmts /\ OnlyDefines(x, y) /\ DefInv(y) /\ y.num_defnpv = n - 1
      /\ y.list = x.list /\ y.kind = x.kind /\ n \in Pos /\ n \in Int
  BY ListIs, SizesIs DEF DefinedTo, OnlyDefines, SameStage, SameKind, Pos
<1>2. PICK d \in DescribeOcol(y, n) :
        \/ d.ret # "ok" /\ r = d
        \/ d.ret = "ok" /\ d.st.list[n] = Unsupported /\ r = Error(d.st)
        \/ /\ d.ret = "ok" /\ d.st.list[n] # Unsupported
           /\ \E b \in AllocOcolBuffer(d.st, n, d.st.list[n]) :
                r \in DefineByPos(b.st, n, LibDefine(b.st, n), FALSE)
  <2>1. PICK d \in DescribeOcol(y, n) :
          \/ d.ret # "ok" /\ r = d
          \/ d.ret = "ok" /\ r \in IF d.st.list[n] = Unsupported THEN {Error(d.st)}
                                 ELSE Always(AllocOcolBuffer(d.st, n, d.st.list[n]),
                                             LAMBDA z : DefineByPos(z, n, LibDefine(z, n), FALSE))
    BY Zenon DEF DefineOcolByPos, Then
  <2>2. CASE d.ret = "ok" /\ d.st.list[n] # Unsupported
    <3>1. r \in Always(AllocOcolBuffer(d.st, n, d.st.list[n]),
                      LAMBDA z : DefineByPos(z, n, LibDefine(z, n), FALSE))
      BY <2>1, <2>2
    <3>2. \E b \in AllocOcolBuffer(d.st, n, d.st.list[n]) :
            r \in DefineByPos(b.st, n, LibDefine(b.st, n), FALSE)
      BY <3>1, Zenon DEF Always
    <3> QED
      BY <2>2, <3>2
  <2> QED
    BY <2>1, <2>2
<1>3. /\ OnlyNames(y, d.st) /\ d.ret \in {"ok", "error"}
      /\ d.ret = "ok" => d.st.ocol_namev[n] = "own"
  BY <1>1, DescribeOcolIs
<1>4. /\ d.st \in Stmts /\ OnlyDefines(x, d.st) /\ d.st.num_defnpv = n - 1 /\ d.st.odef = y.odef
      /\ d.st.whole = y.whole /\ d.st.defnpv_size = y.defnpv_size
      /\ d.st.list = x.list /\ d.st.kind = x.kind
      /\ \A i \in Pos : d.st.ocol_namev[i] \in {y.ocol_namev[i], "own"}
  <2>1. OnlyDefines(y, d.st) /\ d.st.list = y.list /\ d.st.kind = y.kind
    BY <1>3 DEF OnlyNames, OnlyDefines, SameStage, SameKind
  <2>2. OnlyDefines(x, d.st)
    BY <1>1, <2>1, OnlyDefinesTrans
  <2> QED
    BY <1>1, <1>3, <2>1, <2>2 DEF OnlyNames
<1>5. DefInv(d.st)
  BY <1>1, <1>3, OnlyNamesInv
<1>6. CASE d.ret # "ok" /\ r = d
  BY <1>3, <1>4, <1>5, <1>6 DEF DefineFailed
<1>7. CASE d.ret = "ok" /\ d.st.list[n] = Unsupported /\ r = Error(d.st)
  BY <1>4, <1>5, <1>7 DEF DefineFailed, Error
<1>8. ASSUME d.ret = "ok", d.st.list[n] # Unsupported,
             NEW b \in AllocOcolBuffer(d.st, n, d.st.list[n]),
             r \in DefineByPos(b.st, n, LibDefine(b.st, n), FALSE)
      PROVE  /\ r.ret \in {"ok", "error"}
             /\ r.ret = "ok" => DefinedTo(x, r.st, n)
             /\ r.ret = "error" => DefineFailed(x, r.st)
  <2>1. d.st.list[n] \in 1 .. MaxLong /\ n \in 1 .. Len(d.st.list)
    BY <1>4, <1>8, ListIs
  <2>2. d.st.odef[n].ind # "lib"
    BY <1>1, <1>4, <1>5 DEF DefInv, LibCounted
  <2>3. BufferMade(d.st, n, b.st)
    BY <1>1, <1>4, <1>5, <1>8, <2>1, <2>2, AllocOcolBufferIs
  <2>4. /\ b.st \in Stmts /\ OnlyDefines(x, b.st) /\ DefInv(b.st) /\ b.st.num_defnpv = n - 1
        /\ b.st.whole = y.whole /\ b.st.ocol_namev = d.st.ocol_namev
        /\ b.st.defnpv_size = y.defnpv_size
        /\ b.st.list = x.list /\ b.st.kind = x.kind
        /\ \A i \in Pos : i # n => b.st.odef[i] = y.odef[i]
        /\ NoBuffer => b.st.outv[n] # 0
    <3>1. OnlyDefines(d.st, b.st) /\ b.st.list = d.st.list /\ b.st.kind = d.st.kind
      BY <2>3 DEF BufferMade, OnlyDefines, SameStage, SameKind
    <3>2. OnlyDefines(x, b.st)
      BY <1>4, <3>1, OnlyDefinesTrans
    <3> QED
      BY <1>4, <2>3, <3>1, <3>2 DEF BufferMade
  <2> DEFINE f == LibDefine(b.st, n)
  <2>5. /\ f \in Defines /\ f.ind = "lib" /\ f.size = b.st.outv_size[n]
        /\ b.st.outv[n] # 0 => f.buf = "lib"
    BY <1>1, <2>4, StmtDefines DEF LibDefine, Defines, Pointers
  <2>6. NoBuffer => f.buf = "lib" /\ f.size <= b.st.outv[n]
    BY <1>1, <2>4, <2>5 DEF DefInv, BuffersFit
  <2> HIDE DEF f
  <2>7. r = Error(b.st) \/ (r.ret = "ok" /\ DefineMade(b.st, n, f, n, r.st))
    <3>1. n \in 1 .. Len(b.st.list) /\ Len(b.st.list) <= b.st.defnpv_size /\ b.st.kind # "prepared"
      BY <2>4 DEF DefinedTo
    <3>2. r \in DefineByPos(b.st, n, f, FALSE)
      BY <1>8 DEF f
    <3> QED
      BY <2>4, <2>5, <2>6, <3>1, <3>2, LibDefineIs
  <2>8. CASE r = Error(b.st)
    BY <2>4, <2>8 DEF DefineFailed, Error
  <2>9. CASE r.ret = "ok" /\ DefineMade(b.st, n, f, n, r.st)
    <3>1. OnlyDefines(x, r.st)
      BY <2>4, <2>9, OnlyDefinesTrans DEF DefineMade
    <3>2. \A i \in Pos : r.st.odef[i] = IF i = n THEN f ELSE b.st.odef[i]
      BY <2>4, <2>9, StmtDefines DEF DefineMade
    <3>3. \A i \in Pos : i <= n => /\ r.st.ocol_namev[i] = "own"
                                   /\ NoBuffer => r.st.odef[i].buf = "lib"
      <4> SUFFICES ASSUME NEW i \in Pos, i <= n
                   PROVE  r.st.ocol_namev[i] = "own" /\ (NoBuffer => r.st.odef[i].buf = "lib")
        OBVIOUS
      <4>1. r.st.ocol_namev = d.st.ocol_namev
        BY <2>4, <2>9 DEF DefineMade
      <4>2. CASE i = n
        BY <1>3, <1>8, <2>6, <3>2, <4>1, <4>2
      <4>3. CASE i # n
        <5>1. i <= n - 1
          BY <1>1, <4>3, SizesIs DEF Pos
        <5>2. y.ocol_namev[i] = "own" /\ (NoBuffer => y.odef[i].buf = "lib")
          BY <5>1 DEF DefinedTo
        <5> QED
          BY <1>4, <2>4, <3>2, <4>1, <4>3, <5>2
      <4> QED
        BY <4>2, <4>3
    <3> QED
      BY <2>4, <2>9, <3>1, <3>3 DEF DefineMade, DefinedTo
  <2> QED
    BY <2>7, <2>8, <2>9
<1> QED
  BY <1>2, <1>6, <1>7, <1>8

LEMMA DefineColumnsDefines ==
  ASSUME NEW x \in Stmts, DefInv(x), x.num_defnpv = 0, x.kind # "prepared",
         NEW r \in DefineColumns(x)
  PROVE  /\ r.ret \in {"ok", "error"}
         /\ r.ret = "ok" => DefinedTo(x, r.st, Len(x.list))
         /\ r.ret = "error" => DefineFailed(x, r.st)
<1> DEFINE k == Len(x.list)
<1>0. k \in Nat /\ k \in 0 .. MaxPos
  BY ListIs
<1> HIDE DEF k
<1>f. PICK f : LoopGives("define", "", f, AllocDefinep(x, k), k, DefineColumns(x))
  BY <1>0, DefineColumnsIs DEF k
<1>1. /\ DefineColumns(x) = f[k] /\ f[0] = AllocDefinep(x, k)
      /\ \A n \in 1 .. k : f[n] = DefineNext(f[n - 1], n)
  <2>1. /\ DefineColumns(x) = f[k] /\ f[0] = AllocDefinep(x, k)
        /\ \A n \in 1 .. k : f[n] = Turn("define", "", f[n - 1], n)
    BY <1>f DEF LoopGives
  <2>2. \A R, n : Turn("define", "", R, n) = DefineNext(R, n)
    BY DEF Turn
  <2> QED
    BY <2>1, <2>2
<1> DEFINE Fine(n) == \A q \in f[n] : /\ q.ret \in {"ok", "error"}
                                      /\ q.ret = "ok" => DefinedTo(x, q.st, n)
                                      /\ q.ret = "error" => DefineFailed(x, q.st)
           S == {n \in 0 .. k : Fine(n)}
<1>2. 0 \in S
  <2> SUFFICES ASSUME NEW q \in f[0]
               PROVE  /\ q.ret \in {"ok", "error"}
                      /\ q.ret = "ok" => DefinedTo(x, q.st, 0)
                      /\ q.ret = "error" => DefineFailed(x, q.st)
    BY <1>0
  <2>1. q \in AllocDefinep(x, k)
    BY <1>0, <1>1
  <2>2. \A i \in Pos : x.odef[i].ind # "lib" /\ ~(i <= 0)
    BY SizesIs DEF DefInv, LibCounted, Pos
  <2>3. DefnpGrown(x, k, q)
    BY <1>0, <2>1, <2>2, AllocDefinepIs DEF Roomy
  <2> QED
    BY <2>2, <2>3 DEF DefnpGrown, DefinedTo, DefineFailed, k
<1>3. ASSUME NEW n \in 1 .. k, n - 1 \in S
      PROVE  n \in S
  <2> SUFFICES ASSUME NEW q \in f[n]
               PROVE  /\ q.ret \in {"ok", "error"}
                      /\ q.ret = "ok" => DefinedTo(x, q.st, n)
                      /\ q.ret = "error" => DefineFailed(x, q.st)
    BY <1>0
  <2>1. f[n] = DefineNext(f[n - 1], n) /\ Fine(n - 1)
    BY <1>0, <1>1, <1>3
  <2>2. PICK p \in f[n - 1] :
          \/ p.ret # "ok" /\ q = p
          \/ p.ret = "ok" /\ q \in DefineOcolByPos(p.st, n)
    BY <2>1 DEF DefineNext, Then
  <2>3. CASE p.ret # "ok" /\ q = p
    BY <2>1, <2>2, <2>3
  <2>4. CASE p.ret = "ok" /\ q \in DefineOcolByPos(p.st, n)
    <3>1. n \in 1 .. Len(x.list) /\ DefinedTo(x, p.st, n - 1)
      BY <2>1, <2>2, <2>4 DEF k
    <3> QED
      BY <2>4, <3>1, DefineNextIs
  <2> QED
    BY <2>2, <2>3, <2>4
<1> HIDE DEF S
<1>4. 0 .. k \subseteq S
  BY <1>0, <1>2, <1>3, UpTo
<1>5. k \in S
  BY <1>0, <1>4
<1> QED
  BY <1>1, <1>5 DEF S, k

-----------------------------------------------------------------------------
(* _define_output, and the loop of _set_all_ocol_names.                    *)

\* Every column is defined, under its name.
AllDefined(x) ==
  /\ x.num_defnpv = Len(x.list)
  /\ \A i \in Pos : i <= Len(x.list) => /\ x.ocol_namev[i] = "own"
                                        /\ NoBuffer => x.odef[i].buf = "lib"

OutputDefined(x, r) ==
  /\ r.st \in Stmts /\ SameBinds(x, r.st) /\ SameKind(x, r.st) /\ DefInv(r.st)
  /\ r.ret \in {"ok", "error"} /\ r.st.phase \in {x.phase, "opened"}
  /\ x.kind = "ref" /\ x.num_defnpv = 0 => r.st.phase = "opened"
  /\ r.ret = "ok" /\ (x.num_defnpv = 0 \/ AllDefined(x)) => AllDefined(r.st)

LEMMA DefineOutputIs ==
  ASSUME NEW x \in Stmts, DefInv(x), x.kind # "prepared", NEW r \in DefineOutput(x)
  PROVE  OutputDefined(x, r)
<1> DEFINE o == [x EXCEPT !.phase = IF x.kind = "ref" THEN "opened" ELSE x.phase]
<1>1. CASE x.num_defnpv > 0
  <2>1. r = Ok(x)
    BY <1>1 DEF DefineOutput
  <2>2. x.num_defnpv # 0
    BY <1>1, StmtInts
  <2> QED
    BY <2>1, <2>2 DEF Ok, OutputDefined, SameBinds, SameKind
<1>2. CASE ~(x.num_defnpv > 0)
  <2>1. r \in DefineColumns(o) \/ (x.kind # "ref" /\ r = Error(x))
    BY <1>2 DEF DefineOutput, Fails
  <2>2. x.num_defnpv = 0
    BY <1>2, StmtInts
  <2>3. /\ o \in Stmts /\ SameBinds(x, o) /\ SameDefines(x, o) /\ SameKind(x, o)
        /\ o.phase \in {x.phase, "opened"} /\ (x.kind = "ref" => o.phase = "opened")
    BY DEF Stmts, SameBinds, SameDefines, SameKind
  <2>4. DefInv(o) /\ o.num_defnpv = 0 /\ o.kind # "prepared" /\ o.list = x.list
    <3>1. DefInv(o)
      BY <2>3, DefInvStays
    <3> QED
      BY <2>2, <2>3, <3>1 DEF SameDefines, SameKind
  <2> HIDE DEF o
  <2>5. CASE x.kind # "ref" /\ r = Error(x)
    BY <2>5 DEF Error, OutputDefined, SameBinds, SameKind
  <2>6. CASE r \in DefineColumns(o)
    <3>1. /\ r.ret \in {"ok", "error"}
          /\ r.ret = "ok" => DefinedTo(o, r.st, Len(o.list))
          /\ r.ret = "error" => DefineFailed(o, r.st)
      BY <2>3, <2>4, <2>6, DefineColumnsDefines
    <3>2. r.st \in Stmts /\ OnlyDefines(o, r.st) /\ DefInv(r.st)
      BY <3>1 DEF DefinedTo, DefineFailed
    <3>3. SameBinds(x, r.st) /\ SameKind(x, r.st) /\ r.st.phase = o.phase
      BY <2>3, <3>2 DEF OnlyDefines, SameBinds, SameStage, SameKind
    <3>4. r.ret = "ok" => AllDefined(r.st)
      BY <2>4, <3>1, <3>3 DEF DefinedTo, AllDefined, SameKind
    <3> QED
      BY <2>3, <3>1, <3>2, <3>3, <3>4 DEF OutputDefined
  <2> QED
    BY <2>1, <2>5, <2>6
<1> QED
  BY <1>1, <1>2

NamesSafe == {"names", "realloc", "attr"} \cap Faults = {}

\* What sqlo_ocol_names and its like leave of the defines.
NamesSet(x, y) ==
  /\ y \in Stmts /\ OnlyDefines(x, y) /\ DefInv(y) /\ y.num_defnpv = x.num_defnpv
  /\ \A i \in Pos : /\ y.odef[i].buf = x.odef[i].buf
                    /\ y.ocol_namev[i] \in {x.ocol_namev[i], "own"}

\* sqlo_ocol_names, which ignores an error, gives names of num_defnpv columns.
NamedTo(x, l, n, r) ==
  /\ NamesSet(x, r.st) /\ r.ret \in {"ok", "error"}
  /\ r.ret = "ok" => \A i \in Pos : i <= n => r.st.ocol_namev[i] = "own"
  /\ r.ret = "error" /\ NamesSafe /\ l = "names" => x.defnpv_size = 0

LEMMA SetAllOcolNamesSets ==
  ASSUME NEW x \in Stmts, DefInv(x), NEW l, NEW r \in SetAllOcolNames(x, l)
  PROVE  NamedTo(x, l, Len(x.list), r)
<1> DEFINE k == Len(x.list)
<1>0. k \in Nat /\ k \in 0 .. MaxPos /\ k = Len(x.list)
  BY ListIs
<1> HIDE DEF k
<1>f. PICK f : LoopGives("name", l, f, AllocDefinep(x, k), k, SetAllOcolNames(x, l))
  BY <1>0, SetAllOcolNamesIs
<1>1. /\ SetAllOcolNames(x, l) = f[k] /\ f[0] = AllocDefinep(x, k)
      /\ \A n \in 1 .. k : f[n] = NameNext(f[n - 1], n, l)
  <2>1. /\ SetAllOcolNames(x, l) = f[k] /\ f[0] = AllocDefinep(x, k)
        /\ \A n \in 1 .. k : f[n] = Turn("name", l, f[n - 1], n)
    BY <1>f DEF LoopGives
  <2>2. \A R, n : Turn("name", l, R, n) = NameNext(R, n, l)
    BY DEF Turn
  <2> QED
    BY <2>1, <2>2
<1> DEFINE Fine(n) == \A q \in f[n] : NamedTo(x, l, n, q)
           S == {n \in 0 .. k : Fine(n)}
<1>2. 0 \in S
  <2> SUFFICES ASSUME NEW q \in f[0]
               PROVE  NamedTo(x, l, 0, q)
    BY <1>0
  <2>1. q \in AllocDefinep(x, k)
    BY <1>0, <1>1
  <2>2. Roomy(x, k)
    BY <1>0 DEF DefInv, InPlace, Roomy
  <2>3. DefnpGrown(x, k, q)
    BY <1>0, <2>1, <2>2, AllocDefinepIs
  <2>4. q.ret = "error" /\ NamesSafe => x.defnpv_size = 0
    BY <2>3 DEF DefnpGrown, NamesSafe, GrowthLabel
  <2>5. \A i \in Pos : ~(i <= 0)
    BY SizesIs DEF Pos
  <2> QED
    BY <2>3, <2>4, <2>5 DEF DefnpGrown, NamedTo, NamesSet
<1>3. ASSUME NEW n \in 1 .. k, n - 1 \in S
      PROVE  n \in S
  <2> SUFFICES ASSUME NEW q \in f[n]
               PROVE  NamedTo(x, l, n, q)
    BY <1>0
  <2>1. f[n] = NameNext(f[n - 1], n, l) /\ Fine(n - 1)
    BY <1>0, <1>1, <1>3
  <2>2. PICK p \in f[n - 1] :
          \/ p.ret # "ok" /\ q = p
          \/ p.ret = "ok" /\ q \in SetOcolName(p.st, n, l)
    BY <2>1 DEF NameNext, Then
  <2>3. NamedTo(x, l, n - 1, p)
    BY <2>1
  <2>4. CASE p.ret # "ok" /\ q = p
    BY <2>3, <2>4 DEF NamedTo
  <2>5. CASE p.ret = "ok" /\ q \in SetOcolName(p.st, n, l)
    <3>1. n \in Pos /\ n \in Int /\ p.st \in Stmts /\ DefInv(p.st) /\ NamesSet(x, p.st)
      BY <1>0, <2>3, SizesIs DEF Pos, NamedTo, NamesSet
    <3>2. /\ OnlyNames(p.st, q.st) /\ q.ret \in {"ok", "error"}
          /\ q.ret = "ok" => q.st.ocol_namev[n] = "own"
          /\ q.ret = "error" => {l, "attr"} \cap Faults # {}
      BY <2>5, <3>1, SetOcolNameIs
    <3>3. DefInv(q.st)
      BY <3>1, <3>2, OnlyNamesInv
    <3>4. OnlyDefines(x, q.st)
      BY <3>1, <3>2, OnlyDefinesTrans DEF NamesSet, OnlyNames
    <3>5. NamesSet(x, q.st)
      BY <3>1, <3>2, <3>3, <3>4 DEF NamesSet, OnlyNames
    <3>6. q.ret = "ok" => \A i \in Pos : i <= n => q.st.ocol_namev[i] = "own"
      <4> SUFFICES ASSUME q.ret = "ok", NEW i \in Pos, i <= n
                   PROVE  q.st.ocol_namev[i] = "own"
        OBVIOUS
      <4>1. CASE i = n
        BY <3>2, <4>1
      <4>2. CASE i # n
        <5>1. i <= n - 1
          BY <3>1, <4>2, SizesIs DEF Pos
        <5>2. p.st.ocol_namev[i] = "own"
          BY <2>3, <2>5, <5>1 DEF NamedTo
        <5> QED
          BY <3>2, <5>2 DEF OnlyNames
      <4> QED
        BY <4>1, <4>2
    <3>7. q.ret = "error" /\ l = "names" => ~NamesSafe
      BY <3>2 DEF NamesSafe
    <3> QED
      BY <3>2, <3>5, <3>6, <3>7 DEF NamedTo
  <2> QED
    BY <2>2, <2>4, <2>5
<1> HIDE DEF S
<1>4. 0 .. k \subseteq S
  BY <1>0, <1>2, <1>3, UpTo
<1>5. k \in S
  BY <1>0, <1>4
<1> QED
  BY <1>0, <1>1, <1>5 DEF S

-----------------------------------------------------------------------------
(* The end of a statement.                                                 *)
Empty(x) ==
  /\ x.phase = "free" /\ x.kind = "open" /\ x.list = << >> /\ x.num_defnpv = 0
  /\ \A i \in Pos : x.obind[i] = "none" /\ x.odef[i] = NoDefine

Fit(x) == x \in Stmts /\ BindInv(x) /\ IndInv(x) /\ DefInv(x)

LEMMA BindpvResetIs ==
  ASSUME NEW x \in Stmts, BindInv(x)
  PROVE  LET y == BindpvReset(x)
         IN  /\ y \in Stmts /\ OnlyBinds(x, y) /\ BindInv(y) /\ y.obind = x.obind
             /\ y.bindpv_size = x.bindpv_size /\ y.whole = x.whole
             /\ NoArray => \A i \in Pos : y.bindpv[i] = "null"
<1> DEFINE v == Reset(x.bindpv, x.num_bindpv)
           y == BindpvReset(x)
<1>1. v \in [Pos -> Handles] /\ 0 \in 0 .. MaxPos
  BY SizesIs DEF Stmts, Reset, Handles
<1>2. NoArray => \A i \in Pos : v[i] = "null"
  BY StmtInts, SizesIs DEF BindInv, Reset, Pos
<1>3. y = [x EXCEPT !.bindpv = v, !.num_bindpv = 0]
  BY DEF BindpvReset
<1> HIDE DEF v, y
<1>4. /\ y \in Stmts /\ OnlyBinds(x, y) /\ y.obind = x.obind /\ y.bindpv = v /\ y.num_bindpv = 0
      /\ y.bindpv_size = x.bindpv_size /\ y.whole = x.whole
  BY <1>1, <1>3 DEF Stmts, OnlyBinds, SameDefines, SameStage, SameKind
<1>5. BindInv(y)
  BY <1>2, <1>4, SizesIs DEF BindInv, Stmts, Sizes
<1> QED
  BY <1>2, <1>4, <1>5 DEF y

LEMMA EmptyFits ==
  ASSUME NEW x \in Stmts, BindInv(x), Empty(x), BuffersFit(x), DefnpvOwn(x)
  PROVE  Fit(x)
<1>1. \A i \in Pos : x.obind[i] = "none" /\ x.odef[i].ind = "none"
  BY DEF Empty, NoDefine
<1>2. x.defnpv_size \in Nat /\ Len(x.list) \in Nat /\ x.num_defnpv = 0
  BY StmtDefines, SizesIs, ListIs DEF Empty, Sizes
<1>3. IndInv(x)
  BY <1>1 DEF IndInv
<1>4. Counted(x) /\ LibCounted(x) /\ InPlace(x)
  BY <1>1, <1>2 DEF Counted, LibCounted, InPlace
<1> QED
  BY <1>3, <1>4 DEF Fit, DefInv

LEMMA ClosedIs ==
  ASSUME NEW x \in Stmts, BindInv(x), DefInv(x)
  PROVE  Fit(Closed(x)) /\ Empty(Closed(x))
<1> DEFINE a == BindpvReset(x)
           L(i) == Long(a, i)
           ov == [i \in Pos |-> IF L(i) THEN 0 ELSE a.outv[i]]
           os == [i \in Pos |-> IF L(i) THEN 0 ELSE a.outv_size[i]]
           dv == Reset(a.defnpv, a.num_defnpv)
           b == [a EXCEPT !.outv = ov, !.outv_size = os, !.defnpv = dv, !.num_defnpv = 0]
           bv == [i \in Pos |-> IF b.bindpv[i] = "own" THEN "stale" ELSE b.bindpv[i]]
           ev == [i \in Pos |-> IF b.defnpv[i] = "own" THEN "stale" ELSE b.defnpv[i]]
           nv == [i \in Pos |-> IF b.ocol_namev[i] = "own" THEN "stale" ELSE b.ocol_namev[i]]
           ob == [i \in Pos |-> "none"]
           od == [i \in Pos |-> NoDefine]
           c == [b EXCEPT !.bindpv = bv, !.defnpv = ev, !.ocol_namev = nv, !.obind = ob, !.odef = od]
           d == [c EXCEPT !.phase = "free", !.kind = "open", !.list = << >>]
<1>1. Closed(x) = d
  BY DEF Closed, HandleFreed, CloseColumns
<1>2. /\ a \in Stmts /\ BindInv(a) /\ DefInv(a) /\ SameDefines(x, a)
      /\ NoArray => \A i \in Pos : a.bindpv[i] = "null"
  BY BindpvResetIs, DefInvStays DEF OnlyBinds, SameStage
<1> HIDE DEF a, L
<1>3. ov \in [Pos -> Words] /\ os \in [Pos -> Words] /\ dv \in [Pos -> Handles] /\ 0 \in 0 .. MaxPos
  BY <1>2, StmtDefines, SizesIs DEF Words, Reset, Handles
<1>4. NoBuffer => \A i \in Pos : os[i] <= ov[i]
  BY <1>2 DEF DefInv, BuffersFit
<1>5. ~AnyOrder /\ NoArray => \A i \in Pos : dv[i] = "null"
  BY <1>2, StmtInts, SizesIs DEF DefInv, DefnpvOwn, Reset, Pos
<1> HIDE DEF ov, os, dv
<1>6. /\ b \in Stmts /\ b.outv = ov /\ b.outv_size = os /\ b.defnpv = dv /\ b.num_defnpv = 0
      /\ b.bindpv = a.bindpv /\ b.num_bindpv = a.num_bindpv /\ b.bindpv_size = a.bindpv_size
  BY <1>2, <1>3 DEF Stmts
<1> HIDE DEF b
<1>7. /\ bv \in [Pos -> Handles] /\ ev \in [Pos -> Handles] /\ nv \in [Pos -> {"unset", "own", "stale"}]
      /\ ob \in [Pos -> Pointers] /\ od \in [Pos -> [buf : Pointers, size : Words, ind : Pointers]]
  BY <1>6, SizesIs DEF Stmts, Handles, Pointers, NoDefine, Words
<1>8. /\ NoArray => \A i \in Pos : bv[i] = "null"
      /\ ~AnyOrder /\ NoArray => \A i \in Pos : ev[i] = "null"
      /\ \A i \in Pos : ob[i] = "none" /\ od[i] = NoDefine
  BY <1>2, <1>5, <1>6
<1> HIDE DEF bv, ev, nv, ob, od
<1>9. /\ c \in Stmts /\ c.outv = ov /\ c.outv_size = os /\ c.num_defnpv = 0
      /\ c.bindpv = bv /\ c.defnpv = ev /\ c.obind = ob /\ c.odef = od
      /\ c.num_bindpv = a.num_bindpv /\ c.bindpv_size = a.bindpv_size
  BY <1>6, <1>7 DEF Stmts
<1> HIDE DEF c
<1>10. /\ d \in Stmts /\ d.outv = ov /\ d.outv_size = os /\ d.num_defnpv = 0
       /\ d.bindpv = bv /\ d.defnpv = ev /\ d.obind = ob /\ d.odef = od
       /\ d.num_bindpv = a.num_bindpv /\ d.bindpv_size = a.bindpv_size
       /\ d.phase = "free" /\ d.kind = "open" /\ d.list = << >>
  BY <1>9 DEF Stmts
<1> HIDE DEF d
<1>11. Empty(d)
  BY <1>8, <1>10 DEF Empty
<1>12. BindInv(d)
  BY <1>2, <1>8, <1>10 DEF BindInv
<1>13. BuffersFit(d)
  BY <1>4, <1>8, <1>10 DEF BuffersFit, NoDefine
<1>14. DefnpvOwn(d)
  BY <1>8, <1>10 DEF DefnpvOwn
<1> QED
  BY <1>1, <1>10, <1>11, <1>12, <1>13, <1>14, EmptyFits

LEMMA DeallocatedIs ==
  ASSUME NEW x \in Stmts
  PROVE  Fit(Deallocated(x)) /\ Empty(Deallocated(x))
<1> DEFINE y == Deallocated(x)
<1>1. /\ 0 \in Sizes /\ 0 \in Words /\ 0 \in 0 .. MaxPos /\ MaxPos \in Nat
  BY SizesIs DEF Sizes, Words
<1>2. NewStmt \in Stmts
  BY <1>1 DEF NewStmt, Stmts, Handles, Pointers, NoDefine
<1>3. /\ y \in Stmts /\ y.bindpv_size = 0 /\ y.num_bindpv = 0 /\ y.defnpv_size = 0
      /\ y.bindpv = [i \in Pos |-> "null"] /\ y.defnpv = [i \in Pos |-> "null"]
      /\ y.num_defnpv = 0 /\ y.obind = [i \in Pos |-> "none"]
      /\ y.odef = [i \in Pos |-> NoDefine]
      /\ y.outv = [i \in Pos |-> 0] /\ y.outv_size = [i \in Pos |-> 0]
      /\ y.phase = "free" /\ y.kind = "open" /\ y.list = << >>
  BY <1>2 DEF Deallocated, NewStmt, Stmts
<1> HIDE DEF y
<1>4. Empty(y)
  BY <1>3 DEF Empty
<1>5. BindInv(y) /\ DefnpvOwn(y)
  BY <1>3 DEF BindInv, DefnpvOwn
<1>6. BuffersFit(y)
  BY <1>3 DEF BuffersFit, NoDefine
<1> QED
  BY <1>3, <1>4, <1>5, <1>6, EmptyFits DEF y

LEMMA NewStmtIs == Fit(NewStmt) /\ Empty(NewStmt)
<1>1. 0 \in Sizes /\ 0 \in Words /\ 0 \in 0 .. MaxPos /\ MaxPos \in Nat
  BY SizesIs DEF Sizes, Words
<1>2. NewStmt \in Stmts
  BY <1>1 DEF NewStmt, Stmts, Handles, Pointers, NoDefine
<1>3. Deallocated(NewStmt) = NewStmt
  BY <1>2 DEF Deallocated, Stmts
<1> QED
  BY <1>2, <1>3, DeallocatedIs

-----------------------------------------------------------------------------
(* sqlo_open, sqlo_reopen and sqlo_execute.                                *)
LEMMA OutcomeIs ==
  ASSUME NEW x
  PROVE  /\ Ok(x).st = x /\ Ok(x).ret = "ok"
         /\ Error(x).st = x /\ Error(x).ret = "error" /\ "ok" # "error"
BY DEF Ok, Error

\* A statement takes a slot.
Taken(x, kind, list) == [x EXCEPT !.phase = "prepared", !.kind = kind, !.list = list]

LEMMA TakenIs ==
  ASSUME NEW x, Fit(x), Empty(x), NEW kind \in {"open", "prepared", "ref"},
         NEW list \in Lists
  PROVE  LET y == Taken(x, kind, list)
         IN  /\ Fit(y) /\ y.phase = "prepared" /\ y.kind = kind /\ y.list = list
             /\ y.num_defnpv = 0
<1> DEFINE y == Taken(x, kind, list)
<1>1. /\ y \in Stmts /\ SameBinds(x, y) /\ SameDefines(x, y)
      /\ y.phase = "prepared" /\ y.kind = kind /\ y.list = list
  BY DEF Fit, Stmts, SameBinds, SameDefines, Taken
<1> HIDE DEF y
<1>2. /\ y.num_defnpv = 0
      /\ \A i \in Pos : y.obind[i] = "none" /\ y.odef[i] = NoDefine /\ NoDefine.ind = "none"
  BY <1>1 DEF Empty, SameBinds, SameDefines, NoDefine
<1>3. y.defnpv_size \in Nat /\ Len(y.list) \in Nat
  BY <1>1, StmtDefines, SizesIs, ListIs DEF Sizes
<1>4. BindInv(y) /\ IndInv(y)
  BY <1>1, <1>2 DEF Fit, BindInv, IndInv, SameBinds
<1>5. Counted(y) /\ LibCounted(y) /\ InPlace(y)
  BY <1>2, <1>3 DEF Counted, LibCounted, InPlace
<1>6. DefnpvOwn(y) /\ BuffersFit(y)
  BY <1>1 DEF Fit, DefInv, DefnpvOwn, BuffersFit, SameDefines
<1> QED
  BY <1>1, <1>2, <1>4, <1>5, <1>6 DEF Fit, DefInv, y

\* The binds are left alone, and so what is true of them.
LEMMA BindsStay ==
  ASSUME NEW x, NEW y, SameBinds(x, y), BindInv(x), IndInv(x), y.kind = x.kind
  PROVE  BindInv(y) /\ IndInv(y)
BY DEF SameBinds, BindInv, IndInv

\* After an error the statement is closed.  Otherwise it is open, with every column
\* defined if none was, or all were.
Reopened(x, r) ==
  /\ Fit(r.st) /\ r.ret \in {"ok", "error"}
  /\ r.ret = "error" => Empty(r.st)
  /\ r.ret = "ok" => /\ r.st.phase = "opened" /\ SameKind(x, r.st)
                     /\ (x.num_defnpv = 0 /\ x.phase = "prepared") \/ AllDefined(x)
                          => AllDefined(r.st)

LEMMA ReopenIs ==
  ASSUME NEW x, Fit(x), x.kind = "open", NEW argc \in 0 .. MaxPos, NEW r \in Reopen(x, argc)
  PROVE  Reopened(x, r)
<1> DEFINE reset == IF argc > 0 THEN BindpvReset(x) ELSE x
           run(y) == IF y.list = << >> THEN {Ok(y)}
                     ELSE IF y.phase = "opened" THEN {Ok(y)} \union Fails("execute", y)
                     ELSE DefineOutput(y)
           A == BindArgv(reset, argc)
           B == Then(A, run)
           C == Then(B, Opened)
<1>1. r \in CloseAfterError(C)
  BY Zenon DEF Reopen
<1>2. reset \in Stmts /\ BindInv(reset) /\ IndInv(reset) /\ OnlyBinds(x, reset)
  <2>1. BindpvReset(x) \in Stmts /\ BindInv(BindpvReset(x)) /\ OnlyBinds(x, BindpvReset(x))
    BY BindpvResetIs DEF Fit
  <2>2. IndInv(BindpvReset(x))
    BY <2>1, BindpvResetIs DEF Fit, IndInv, OnlyBinds, SameStage, SameKind
  <2>3. OnlyBinds(x, x)
    BY DEF OnlyBinds, SameDefines, SameStage, SameKind
  <2> QED
    BY <2>1, <2>2, <2>3 DEF Fit
<1> HIDE DEF reset
<1>3. ASSUME NEW q \in A
      PROVE  /\ q.st \in Stmts /\ OnlyBinds(x, q.st) /\ BindInv(q.st) /\ DefInv(q.st)
             /\ q.ret \in {"ok", "error"}
             /\ q.ret = "ok" => IndInv(q.st)
  <2>1. /\ q.ret \in {"ok", "error"}
        /\ q.ret = "ok" => BoundTo(reset, q.st, argc, argc)
        /\ q.ret = "error" => BindFailed(reset, q.st)
    BY <1>2, <1>3, BindArgvBinds
  <2>2. q.st \in Stmts /\ OnlyBinds(reset, q.st) /\ BindInv(q.st)
    BY <2>1 DEF BoundTo, BindFailed
  <2>3. OnlyBinds(x, q.st) /\ q.st.kind = "open"
    BY <1>2, <2>2 DEF OnlyBinds, SameDefines, SameStage, SameKind
  <2>4. DefInv(q.st)
    BY <2>3, DefInvStays DEF Fit, OnlyBinds, SameStage
  <2>5. q.ret = "ok" => IndInv(q.st)
    BY <2>1, <2>3, SizesIs DEF BoundTo, IndUpTo, IndInv, Pos
  <2> QED
    BY <2>1, <2>2, <2>3, <2>4, <2>5
<1> HIDE DEF A
<1> DEFINE Fine(q, y) ==
      /\ y \in Stmts /\ BindInv(y) /\ DefInv(y) /\ q \in {"ok", "error"}
      /\ q = "ok" => /\ IndInv(y) /\ SameKind(x, y)
                     /\ (x.num_defnpv = 0 /\ x.phase = "prepared") \/ AllDefined(x) => AllDefined(y)
<1>4. ASSUME NEW q \in B
      PROVE  Fine(q.ret, q.st)
  <2>1. PICK p \in A : (p.ret # "ok" /\ q = p) \/ (p.ret = "ok" /\ q \in run(p.st))
    BY <1>4, Zenon DEF Then
  <2> HIDE DEF B
  <2>2. /\ p.st \in Stmts /\ OnlyBinds(x, p.st) /\ BindInv(p.st) /\ DefInv(p.st)
        /\ p.ret \in {"ok", "error"}
        /\ p.ret = "ok" => IndInv(p.st)
    BY <1>3
  <2>3. SameKind(x, p.st) /\ p.st.kind = "open" /\ SameDefines(x, p.st) /\ p.st.phase = x.phase
    BY <2>2 DEF OnlyBinds, SameStage, SameKind
  <2>4. AllDefined(x) => AllDefined(p.st)
    BY <2>3 DEF AllDefined, SameDefines, SameKind
  <2>5. CASE p.ret # "ok" /\ q = p
    BY <2>2, <2>5
  <2>6. CASE p.ret = "ok" /\ q = Ok(p.st) /\ p.st.list = << >>
    <3>1. p.st.num_defnpv = 0 => AllDefined(p.st)
      <4>1. Len(p.st.list) = 0 /\ \A i \in Pos : ~(i <= 0)
        <5>1. \A i \in Pos : ~(i <= 0)
          BY SizesIs DEF Pos
        <5>2. p.st.list = << >>
          BY <2>6
        <5> QED
          BY <5>1, <5>2
      <4> QED
        BY <4>1 DEF AllDefined
    <3>2. p.st.num_defnpv = x.num_defnpv
      BY <2>3 DEF SameDefines
    <3> QED
      BY <2>2, <2>3, <2>4, <2>6, <3>1, <3>2 DEF Ok
  <2>7. CASE p.ret = "ok" /\ p.st.phase = "opened" /\ q \in {Ok(p.st)} \union Fails("execute", p.st)
    <3>1. q.st = p.st /\ q.ret \in {"ok", "error"}
      <4>1. q = Ok(p.st) \/ q = Error(p.st)
        BY <2>7, Zenon DEF Fails
      <4> QED
        BY <4>1, OutcomeIs
    <3> QED
      BY <2>2, <2>3, <2>4, <2>7, <3>1
  <2>8. CASE p.ret = "ok" /\ q \in DefineOutput(p.st)
    <3>1. OutputDefined(p.st, q)
      BY <2>2, <2>3, <2>8, DefineOutputIs
    <3>2. /\ q.st \in Stmts /\ DefInv(q.st) /\ SameBinds(p.st, q.st) /\ SameKind(p.st, q.st)
          /\ q.ret \in {"ok", "error"}
      BY <3>1 DEF OutputDefined
    <3>3. BindInv(q.st) /\ IndInv(q.st)
      BY <2>2, <2>8, <3>2, BindsStay DEF SameKind
    <3>4. SameKind(x, q.st)
      BY <2>3, <3>2 DEF SameKind
    <3>5. q.ret = "ok" /\ (x.num_defnpv = 0 \/ AllDefined(x)) => AllDefined(q.st)
      BY <2>3, <2>4, <3>1 DEF OutputDefined, SameDefines
    <3> QED
      BY <3>2, <3>3, <3>4, <3>5
  <2> HIDE DEF Fine
  <2> QED
    BY <2>1, <2>5, <2>6, <2>7, <2>8
<1> HIDE DEF B
<1>5. ASSUME NEW q \in C
      PROVE  Fine(q.ret, q.st) /\ (q.ret = "ok" => q.st.phase = "opened")
  <2>1. PICK p \in B : (p.ret # "ok" /\ q = p) \/ (p.ret = "ok" /\ q \in Opened(p.st))
    BY <1>5, Zenon DEF Then
  <2> HIDE DEF C
  <2>2. Fine(p.ret, p.st)
    BY <1>4
  <2>3. CASE p.ret # "ok" /\ q = p
    BY <2>2, <2>3
  <2>4. CASE p.ret = "ok" /\ q \in Opened(p.st)
    <3> DEFINE y == [p.st EXCEPT !.phase = "opened"]
    <3>1. q.st = y /\ q.ret = "ok"
      <4>1. q = Ok(y)
        BY <2>4, Zenon DEF Opened
      <4> HIDE DEF y
      <4> QED
        BY <4>1 DEF Ok
    <3>2. /\ y \in Stmts /\ y.phase = "opened"
          /\ SameBinds(p.st, y) /\ SameDefines(p.st, y) /\ SameKind(p.st, y)
      BY <2>2 DEF Stmts, SameBinds, SameDefines, SameKind
    <3> HIDE DEF y
    <3>3. DefInv(y)
      BY <2>2, <3>2, DefInvStays
    <3>4. BindInv(y) /\ IndInv(y)
      BY <2>2, <2>4, <3>2, BindsStay DEF SameKind
    <3>5. AllDefined(p.st) => AllDefined(y)
      BY <3>2 DEF AllDefined, SameDefines, SameKind
    <3>6. SameKind(x, y)
      BY <2>2, <2>4, <3>2 DEF SameKind
    <3> QED
      BY <2>2, <2>4, <3>1, <3>2, <3>3, <3>4, <3>5, <3>6
  <2> QED
    BY <2>1, <2>3, <2>4
<1> HIDE DEF C
<1>6. CASE r \in C /\ r.ret = "ok"
  BY <1>5, <1>6 DEF Reopened, Fit
<1>7. ASSUME NEW q \in C, q.ret # "ok", r = Error(Closed(q.st))
      PROVE  Reopened(x, r)
  <2>1. Fit(Closed(q.st)) /\ Empty(Closed(q.st))
    BY <1>5, <1>7, ClosedIs
  <2>2. r.st = Closed(q.st) /\ r.ret = "error"
    BY <1>7 DEF Error
  <2> QED
    BY <2>1, <2>2 DEF Reopened
<1>8. (r \in C /\ r.ret = "ok") \/ \E q \in C : q.ret # "ok" /\ r = Error(Closed(q.st))
  BY <1>1 DEF CloseAfterError
<1> QED
  BY <1>6, <1>7, <1>8

-----------------------------------------------------------------------------
(* The invariant.  A statement that is free holds nothing of OCI's; a      *)
(* cursor that is reported as open has all its columns.  The last needs    *)
(* that a cursor whose define failed half way is not executed again, the   *)
(* names that no other failure than the ones of NamesSafe is ignored.      *)
FreeInv == st.phase = "free" => Empty(st) /\ ~up
StageInv ==
  ~Mixed /\ ~Retried =>
    /\ st.kind = "ref" /\ st.phase = "prepared" => st.num_defnpv = 0
    /\ up /\ st.kind # "prepared" => st.phase = "opened" /\ AllDefined(st)
NamesInv == ~AnyOrder /\ NamesSafe => NamesOwn

ColumnsInv ==
  /\ Fit(st) /\ told \in {"ok", "error", "names"} /\ up \in BOOLEAN
  /\ FreeInv /\ StageInv /\ NamesInv

\* No name is given but by sqlo_ocol_names and its like.
LEMMA NoNames ==
  ASSUME told' \in {"ok", "error"}
  PROVE  NamesInv' /\ told' \in {"ok", "error", "names"}
BY DEF NamesInv, NamesOwn

\* After the end of a statement.
LEMMA EndStep ==
  ASSUME NEW x, st' = x, Fit(x), Empty(x), up' = FALSE, told' \in {"ok", "error"}
  PROVE  ColumnsInv'
<1>1. FreeInv' /\ StageInv'
  BY DEF FreeInv, StageInv, Empty
<1> QED
  BY <1>1, NoNames DEF ColumnsInv

LEMMA InitInv == Init => ColumnsInv
<1> SUFFICES ASSUME Init PROVE ColumnsInv
  OBVIOUS
<1>1. st = NewStmt /\ told = "ok" /\ up = FALSE /\ Fit(st) /\ Empty(st)
  BY NewStmtIs DEF Init
<1>2. FreeInv /\ StageInv /\ NamesInv
  BY <1>1 DEF FreeInv, StageInv, NamesInv, NamesOwn, Empty
<1> QED
  BY <1>1, <1>2 DEF ColumnsInv

LEMMA ReopenedStep ==
  ASSUME ColumnsInv, NEW x, x.kind = "open", NEW r, Reopened(x, r),
         st' = r.st, told' = r.ret, up' = (r.ret = "ok"),
         ~Mixed /\ ~Retried => (x.num_defnpv = 0 /\ x.phase = "prepared") \/ AllDefined(x)
  PROVE  ColumnsInv'
<1>1. Fit(r.st) /\ r.ret \in {"ok", "error"}
  BY DEF Reopened
<1>2. CASE r.ret = "error"
  BY <1>1, <1>2, EndStep DEF Reopened
<1>3. CASE r.ret = "ok"
  <2>1. r.st.phase = "opened" /\ r.st.kind = "open"
    BY <1>3 DEF Reopened, SameKind
  <2>2. ~Mixed /\ ~Retried => AllDefined(r.st)
    BY <1>3 DEF Reopened
  <2>3. FreeInv' /\ StageInv'
    BY <2>1, <2>2 DEF FreeInv, StageInv
  <2> QED
    BY <1>1, <1>3, <2>3, NoNames DEF ColumnsInv
<1> QED
  BY <1>1, <1>2, <1>3

LEMMA OpenStep ==
  ASSUME ColumnsInv, OpenCall
  PROVE  ColumnsInv'
<1>0. PICK list \in Lists, argc \in 0 .. MaxPos : Opens(Open(st, list, argc))
  BY DEF OpenCall
<1>1. PICK r \in Open(st, list, argc) : st' = r.st /\ told' = r.ret /\ up' = (r.ret = "ok")
  BY <1>0 DEF Opens
<1> DEFINE x == Taken(st, "open", list)
<1>2. Fit(st) /\ Empty(st)
  BY DEF ColumnsInv, FreeInv, OpenCall
<1>3. Fit(x) /\ x.phase = "prepared" /\ x.kind = "open" /\ x.num_defnpv = 0
  <2>1. "open" \in {"open", "prepared", "ref"}
    OBVIOUS
  <2> QED
    BY <1>2, <2>1, TakenIs
<1>4. r \in Reopen(x, argc)
  BY DEF Open, Taken
<1> HIDE DEF x
<1>5. Reopened(x, r)
  BY <1>3, <1>4, ReopenIs
<1> QED
  BY <1>1, <1>3, <1>5, ReopenedStep

LEMMA ReopenStep ==
  ASSUME ColumnsInv, ReopenCall
  PROVE  ColumnsInv'
<1>0. PICK argc \in 0 .. MaxPos : Opens(Reopen(st, argc))
  BY DEF ReopenCall
<1>1. PICK r \in Reopen(st, argc) : st' = r.st /\ told' = r.ret /\ up' = (r.ret = "ok")
  BY <1>0 DEF Opens
<1>2. Fit(st) /\ st.kind = "open" /\ (~Mixed /\ ~Retried => AllDefined(st))
  BY DEF ColumnsInv, StageInv, ReopenCall
<1>3. Reopened(st, r)
  BY <1>2, ReopenIs
<1> QED
  BY <1>1, <1>2, <1>3, ReopenedStep

LEMMA PrepareStep ==
  ASSUME ColumnsInv, PrepareCall
  PROVE  ColumnsInv'
<1>1. PICK kind \in {"prepared", "ref"}, list \in Lists :
        st' = Taken(st, kind, list) /\ told' = "ok" /\ up' = up
  <2>1. PICK kind \in {"prepared", "ref"}, list \in Lists : Returns({Ok(Taken(st, kind, list))})
    BY DEF PrepareCall, Taken
  <2>2. st' = Taken(st, kind, list) /\ told' = "ok" /\ up' = up
    BY <2>1, OutcomeIs DEF Returns
  <2> QED
    BY <2>2
<1>2. Fit(st) /\ Empty(st) /\ ~up /\ up \in BOOLEAN
  BY DEF ColumnsInv, FreeInv, PrepareCall
<1>3. kind \in {"open", "prepared", "ref"}
  OBVIOUS
<1>4. Fit(st') /\ st'.phase = "prepared" /\ st'.num_defnpv = 0
  BY <1>1, <1>2, <1>3, TakenIs
<1>5. FreeInv' /\ StageInv'
  BY <1>1, <1>2, <1>4 DEF FreeInv, StageInv
<1> QED
  BY <1>1, <1>2, <1>4, <1>5, NoNames DEF ColumnsInv

\* A bind or a define of the application's, which unless Mixed is of a prepared
\* statement.
LEMMA AppStep ==
  ASSUME ColumnsInv, NEW x, st' = x, Fit(x), SameStage(st, x), st.phase # "free",
         ~Mixed => st.kind = "prepared", told' \in {"ok", "error"}, up' = up
  PROVE  ColumnsInv'
<1>1. FreeInv' /\ StageInv'
  BY DEF FreeInv, StageInv, SameStage, SameKind
<1> QED
  BY <1>1, NoNames DEF ColumnsInv

LEMMA BindStep ==
  ASSUME ColumnsInv, BindCalls
  PROVE  ColumnsInv'
<1>1. PICK p \in Pos, array \in BOOLEAN :
        \/ Returns(BindByPos(st, p, "app", array))
        \/ st.num_bindpv < MaxPos /\ Returns(BindByName(st, p, array))
  BY DEF BindCalls
<1>2. /\ st \in Stmts /\ BindInv(st) /\ IndInv(st) /\ DefInv(st) /\ st.phase # "free"
      /\ ~Mixed => st.kind = "prepared"
  BY DEF ColumnsInv, Fit, BindCalls, Usable, Own
<1>3. PICK n, r :
        /\ n \in Pos
        /\ \E q \in AllocBindp(st, n) :
             \/ q.ret # "ok" /\ r = q
             \/ q.ret = "ok" /\ r \in BindCall(q.st, n, p, "app", array)
        /\ st' = r.st /\ told' = r.ret /\ up' = up
  <2>1. CASE Returns(BindByPos(st, p, "app", array))
    <3>1. PICK r \in BindByPos(st, p, "app", array) : st' = r.st /\ told' = r.ret /\ up' = up
      BY <2>1 DEF Returns
    <3>2. \E q \in AllocBindp(st, p) :
            \/ q.ret # "ok" /\ r = q
            \/ q.ret = "ok" /\ r \in BindCall(q.st, p, p, "app", array)
      BY DEF BindByPos, Then
    <3> QED
      BY <3>1, <3>2
  <2>2. CASE st.num_bindpv < MaxPos /\ Returns(BindByName(st, p, array))
    <3> DEFINE m == st.num_bindpv + 1
    <3>1. m \in Pos /\ m \in 0 .. MaxPos
      BY <1>2, <2>2, StmtInts, SizesIs DEF Pos
    <3>2. PICK r \in BindByName(st, p, array) : st' = r.st /\ told' = r.ret /\ up' = up
      BY <2>2 DEF Returns
    <3>3. PICK q \in AllocBindp(st, m) :
            \/ q.ret # "ok" /\ r = q
            \/ q.ret = "ok" /\ r \in BindCall(q.st, q.st.num_bindpv + 1, p, "app", array)
      BY DEF BindByName, Then
    <3>4. BindpGrown(st, m, q)
      BY <1>2, <3>1, AllocBindpIs
    <3>5. q.st.num_bindpv + 1 = m
      BY <3>4 DEF BindpGrown
    <3> HIDE DEF m
    <3> QED
      BY <3>1, <3>2, <3>3, <3>5
  <2> QED
    BY <1>1, <2>1, <2>2
<1>4. /\ r.st \in Stmts /\ OnlyBinds(st, r.st) /\ r.ret \in {"ok", "error"} /\ BindInv(r.st)
      /\ IndInv(r.st)
  <2>1. ~Mixed => st.kind # "open"
    BY <1>2
  <2> QED
    BY <1>2, <1>3, <2>1, AppBindIs
<1>5. SameDefines(st, r.st) /\ SameStage(st, r.st) /\ SameKind(st, r.st)
  BY <1>4 DEF OnlyBinds, SameStage
<1>6. DefInv(r.st)
  BY <1>2, <1>5, DefInvStays
<1>7. Fit(r.st)
  BY <1>4, <1>6 DEF Fit
<1> QED
  BY <1>2, <1>3, <1>4, <1>5, <1>7, AppStep

LEMMA DefineStep ==
  ASSUME ColumnsInv, DefineCalls
  PROVE  ColumnsInv'
<1>1. PICK p \in 1 .. Len(st.list), array \in BOOLEAN :
        \/ Returns(DefineByPos(st, p, AppDefine, array))
        \/ /\ IF AnyOrder THEN st.num_defnpv < MaxPos ELSE p = st.num_defnpv + 1
           /\ Returns(DefineNtable(st, p))
  BY DEF DefineCalls
<1>2. /\ st \in Stmts /\ BindInv(st) /\ IndInv(st) /\ DefInv(st) /\ st.phase # "free"
      /\ ~Mixed => st.kind = "prepared"
  BY DEF ColumnsInv, Fit, DefineCalls, Usable, Own
<1>3. PICK r : /\ \/ r \in DefineByPos(st, p, AppDefine, array)
                  \/ /\ IF AnyOrder THEN st.num_defnpv < MaxPos ELSE p = st.num_defnpv + 1
                     /\ r \in DefineNtable(st, p)
               /\ st' = r.st /\ told' = r.ret /\ up' = up
  BY <1>1 DEF Returns
<1>4. r.st \in Stmts /\ OnlyDefines(st, r.st) /\ r.ret \in {"ok", "error"} /\ DefInv(r.st)
  BY <1>2, <1>3, AppDefineIs
<1>5. SameBinds(st, r.st) /\ SameStage(st, r.st) /\ r.st.kind = st.kind
  BY <1>4 DEF OnlyDefines, SameStage, SameKind
<1>6. BindInv(r.st) /\ IndInv(r.st)
  BY <1>2, <1>5, BindsStay
<1>7. Fit(r.st)
  BY <1>4, <1>6 DEF Fit
<1> QED
  BY <1>2, <1>3, <1>4, <1>5, <1>7, AppStep

LEMMA ExecuteStep ==
  ASSUME ColumnsInv, ExecuteCall
  PROVE  ColumnsInv'
<1>1. PICK r \in Execute(st) : st' = r.st /\ told' = r.ret /\ up' = (r.ret = "ok")
  BY DEF ExecuteCall, Opens
<1>2. /\ st \in Stmts /\ BindInv(st) /\ IndInv(st) /\ DefInv(st) /\ st.phase # "free"
      /\ st.kind \in {"prepared", "ref"}
  BY DEF ColumnsInv, Fit, Stmts, ExecuteCall, Usable
<1>3. CASE st.kind = "ref"
  <2>1. OutputDefined(st, r)
    BY <1>2, <1>3, DefineOutputIs DEF Execute
  <2>2. /\ r.st \in Stmts /\ DefInv(r.st) /\ SameBinds(st, r.st) /\ r.st.kind = "ref"
        /\ r.ret \in {"ok", "error"} /\ r.st.phase # "free"
    BY <1>2, <1>3, <2>1 DEF OutputDefined, SameKind
  <2>3. Fit(r.st)
    BY <1>2, <1>3, <2>2, BindsStay DEF Fit
  <2>4. ~Mixed /\ ~Retried => r.st.phase = "opened" /\ (r.ret = "ok" => AllDefined(r.st))
    BY <1>3, <2>1 DEF ColumnsInv, StageInv, ExecuteCall, OutputDefined
  <2>5. FreeInv' /\ StageInv'
    BY <1>1, <2>2, <2>4 DEF FreeInv, StageInv
  <2> QED
    BY <1>1, <2>2, <2>3, <2>5, NoNames DEF ColumnsInv
<1>4. CASE st.kind = "prepared"
  <2> DEFINE o == [st EXCEPT !.phase = "opened"]
             y == BindpvReset(o)
  <2>1. r = Error(st) \/ r = Ok(y)
    BY <1>4 DEF Execute, Fails
  <2>2. o \in Stmts /\ SameBinds(st, o) /\ SameDefines(st, o) /\ SameKind(st, o) /\ o.phase = "opened"
    BY <1>2 DEF Stmts, SameBinds, SameDefines, SameKind
  <2> HIDE DEF o
  <2>3. BindInv(o) /\ IndInv(o) /\ DefInv(o)
    <3>1. DefInv(o)
      BY <1>2, <2>2, DefInvStays
    <3> QED
      BY <1>2, <2>2, <3>1, BindsStay DEF SameKind
  <2>4. y \in Stmts /\ OnlyBinds(o, y) /\ BindInv(y) /\ y.obind = o.obind /\ y.bindpv_size = o.bindpv_size
    BY <2>2, <2>3, BindpvResetIs
  <2> HIDE DEF y
  <2>5. SameDefines(o, y) /\ SameKind(o, y) /\ y.phase = "opened" /\ y.kind = "prepared"
    BY <1>4, <2>2, <2>4 DEF OnlyBinds, SameStage, SameKind
  <2>6. Fit(y)
    <3>1. DefInv(y)
      BY <2>3, <2>5, DefInvStays
    <3>2. IndInv(y)
      BY <2>3, <2>4, <2>5 DEF IndInv, SameKind
    <3> QED
      BY <2>4, <3>1, <3>2 DEF Fit
  <2>7. /\ Fit(r.st) /\ r.st.kind = "prepared" /\ r.st.phase # "free" /\ r.ret \in {"ok", "error"}
    <3>1. CASE r = Error(st)
      BY <1>2, <1>4, <3>1, OutcomeIs DEF Fit
    <3>2. CASE r = Ok(y)
      BY <2>5, <2>6, <3>2, OutcomeIs
    <3> QED
      BY <2>1, <3>1, <3>2
  <2>8. FreeInv' /\ StageInv'
    BY <1>1, <2>7 DEF FreeInv, StageInv
  <2> QED
    BY <1>1, <2>7, <2>8, NoNames DEF ColumnsInv
<1> QED
  BY <1>2, <1>3, <1>4

LEMMA OcolNamesStep ==
  ASSUME ColumnsInv, OcolNamesCall
  PROVE  ColumnsInv'
<1>1. PICK l, r :
        /\ r \in SetAllOcolNames(st, l) /\ st' = r.st /\ up' = up
        /\ \/ told' = "names" /\ (l = "names" \/ r.ret = "ok")
           \/ told' = "error"
  <2>1. CASE \E r \in SetAllOcolNames(st, "names") : st' = r.st /\ told' = "names"
    BY <2>1 DEF OcolNamesCall
  <2>2. CASE \E r \in SetAllOcolNames(st, "name") :
               st' = r.st /\ told' = IF r.ret = "ok" THEN "names" ELSE "error"
    BY <2>2 DEF OcolNamesCall
  <2> QED
    BY <2>1, <2>2 DEF OcolNamesCall
<1>2. /\ st \in Stmts /\ BindInv(st) /\ IndInv(st) /\ DefInv(st) /\ st.phase # "free"
      /\ up \in BOOLEAN
  BY DEF ColumnsInv, Fit, OcolNamesCall, Usable
<1>3. NamedTo(st, l, Len(st.list), r)
  BY <1>1, <1>2, SetAllOcolNamesSets
<1>4. NamesSet(st, r.st) /\ r.ret \in {"ok", "error"}
  BY <1>3 DEF NamedTo
<1>5. /\ r.st \in Stmts /\ SameBinds(st, r.st) /\ SameStage(st, r.st) /\ SameKind(st, r.st)
      /\ DefInv(r.st) /\ r.st.num_defnpv = st.num_defnpv
  BY <1>4 DEF NamesSet, OnlyDefines, SameStage
<1>6. Fit(r.st)
  BY <1>2, <1>5, BindsStay DEF Fit, SameKind
<1>7. AllDefined(st) => AllDefined(r.st)
  BY <1>4, <1>5 DEF AllDefined, NamesSet, SameKind
<1>8. FreeInv' /\ StageInv'
  BY <1>1, <1>2, <1>5, <1>7 DEF FreeInv, StageInv, SameStage, SameKind, ColumnsInv
<1>9. NamesInv'
  <2> SUFFICES ASSUME ~AnyOrder, NamesSafe, told' = "names", NEW i \in 1 .. st.num_defnpv
               PROVE  r.st.ocol_namev[i] = "own"
    BY <1>1, <1>5 DEF NamesInv, NamesOwn
  <2>1. /\ st.num_defnpv <= st.defnpv_size /\ st.num_defnpv <= Len(st.list) /\ i \in Pos
        /\ i <= Len(st.list)
    BY <1>2, StmtInts, ListIs, SizesIs DEF DefInv, Counted, Pos
  <2>2. CASE r.ret = "ok"
    BY <1>3, <2>1, <2>2 DEF NamedTo
  <2>3. CASE r.ret = "error"
    <3>1. l = "names"
      BY <1>1, <2>3
    <3>2. st.defnpv_size = 0
      BY <1>3, <2>3, <3>1 DEF NamedTo
    <3> QED
      BY <1>2, <2>1, <3>2, StmtInts
  <2> QED
    BY <1>4, <2>2, <2>3
<1> QED
  BY <1>1, <1>2, <1>6, <1>8, <1>9 DEF ColumnsInv

LEMMA DescribeStep ==
  ASSUME ColumnsInv, DescribeCalls
  PROVE  ColumnsInv'
<1>1. \A r \in Run(st) : r.st = st /\ r.ret \in {"ok", "error"}
  BY OutcomeIs DEF Run, Fails
<1>2. \A pos \in 1 .. MaxPos : \A r \in GetOcolDtype(st, pos) : r.st = st /\ r.ret \in {"ok", "error"}
  BY <1>1, OutcomeIs DEF GetOcolDtype, Then, Fails
<1>3. st' = st /\ told' \in {"ok", "error"} /\ up' = up
  BY <1>1, <1>2 DEF DescribeCalls, Returns, Ncols
<1>4. FreeInv' /\ StageInv'
  BY <1>3 DEF ColumnsInv, FreeInv, StageInv
<1> QED
  BY <1>3, <1>4, NoNames DEF ColumnsInv

LEMMA CloseStep ==
  ASSUME ColumnsInv, CloseCall \/ EndSession
  PROVE  ColumnsInv'
<1>1. Fit(Closed(st)) /\ Empty(Closed(st))
  BY ClosedIs DEF ColumnsInv, Fit
<1>2. Fit(Deallocated(Closed(st))) /\ Empty(Deallocated(Closed(st)))
  BY <1>1, DeallocatedIs DEF Fit
<1> QED
  BY <1>1, <1>2, EndStep DEF CloseCall, EndSession, Ends

LEMMA InvHolds == Spec => []ColumnsInv
<1>1. ASSUME ColumnsInv, [Next]_vars
      PROVE  ColumnsInv'
  <2>1. CASE OpenCall
    BY <1>1, <2>1, OpenStep
  <2>2. CASE ReopenCall
    BY <1>1, <2>2, ReopenStep
  <2>3. CASE PrepareCall
    BY <1>1, <2>3, PrepareStep
  <2>4. CASE BindCalls
    BY <1>1, <2>4, BindStep
  <2>5. CASE DefineCalls
    BY <1>1, <2>5, DefineStep
  <2>6. CASE ExecuteCall
    BY <1>1, <2>6, ExecuteStep
  <2>7. CASE OcolNamesCall
    BY <1>1, <2>7, OcolNamesStep
  <2>8. CASE DescribeCalls
    BY <1>1, <2>8, DescribeStep
  <2>9. CASE CloseCall \/ EndSession
    BY <1>1, <2>9, CloseStep
  <2>10. CASE UNCHANGED vars
    BY <1>1, <2>10 DEF vars, ColumnsInv, FreeInv, StageInv, NamesInv, NamesOwn
  <2> QED
    BY <1>1, <2>1, <2>2, <2>3, <2>4, <2>5, <2>6, <2>7, <2>8, <2>9, <2>10 DEF Next
<1> QED
  BY <1>1, InitInv, PTL DEF Spec

-----------------------------------------------------------------------------
(* The theorems.                                                           *)

\* The vectors, their counts and what OCI holds stay in their ranges.
THEOREM TypeCorrect == Spec => []TypeOK
<1>1. ColumnsInv => TypeOK
  BY DEF ColumnsInv, Fit, TypeOK
<1> QED
  BY <1>1, InvHolds, PTL

\* The assertions of _alloc_bindp, _define_by_pos and sqlo_define_ntable hold, as
\* long as the application defines nested tables in order, and once.
THEOREM CountsStay ==
  ASSUME ~AnyOrder
  PROVE  Spec => []CountsWithin
<1>1. ColumnsInv => CountsWithin
  BY DEF ColumnsInv, Fit, BindInv, DefInv, Counted, CountsWithin
<1> QED
  BY <1>1, InvHolds, PTL

\* After any sequence of statements through the same slot no vector holds a handle
\* of an earlier one, if no structure's stride is refused: the bind or define is then
\* made and not counted.
THEOREM HandlesBelong ==
  ASSUME ~AnyOrder, NoArray
  PROVE  Spec => []HandlesOwn
<1>1. ColumnsInv => HandlesOwn
  BY DEF ColumnsInv, Fit, BindInv, DefInv, DefnpvOwn, HandlesOwn
<1> QED
  BY <1>1, InvHolds, PTL

\* OCI's indicators are not moved under it by the growth of a vector, if the
\* application keeps the statements of sqlo_open and its own binds apart.
THEOREM IndicatorsStay ==
  ASSUME ~Mixed
  PROVE  Spec => []IndicatorsLive
<1>1. ColumnsInv => IndicatorsLive
  BY DEF ColumnsInv, Fit, IndInv, DefInv, InPlace, IndicatorsLive
<1> QED
  BY <1>1, InvHolds, PTL

\* OCI never writes a column past its buffer, or to one that is gone, if the buffers
\* can be allocated.
THEOREM BuffersSuffice ==
  ASSUME NoBuffer
  PROVE  Spec => []BuffersHold
<1>1. ColumnsInv => BuffersHold
  BY DEF ColumnsInv, Fit, DefInv, BuffersFit, BuffersHold
<1> QED
  BY <1>1, InvHolds, PTL

\* A cursor that is reported as open has all of its columns defined, under its own
\* names, however the calls before it failed.
THEOREM OpenHasColumns ==
  ASSUME ~Mixed, ~Retried, NoBuffer
  PROVE  Spec => []OpenIsComplete
<1>1. ColumnsInv => OpenIsComplete
  <2> SUFFICES ASSUME ColumnsInv, up, st.kind # "prepared"
               PROVE  /\ st.phase = "opened" /\ st.num_defnpv = Len(st.list)
                      /\ \A i \in 1 .. Len(st.list) : st.odef[i].buf = "lib" /\ st.ocol_namev[i] = "own"
    BY DEF OpenIsComplete
  <2>1. st.phase = "opened" /\ AllDefined(st) /\ st \in Stmts
    BY DEF ColumnsInv, StageInv, Fit
  <2>2. \A i \in 1 .. Len(st.list) : i \in Pos /\ i <= Len(st.list)
    BY <2>1, ListIs, SizesIs DEF Pos
  <2> QED
    BY <2>1, <2>2 DEF AllDefined
<1> QED
  BY <1>1, InvHolds, PTL

\* The names sqlo_ocol_names gives are those of this statement, though it does not
\* look whether they could be set.
THEOREM NamesBelong ==
  ASSUME ~AnyOrder, NamesSafe
  PROVE  Spec => []NamesOwn
<1>1. ColumnsInv => NamesOwn
  BY DEF ColumnsInv, NamesInv
<1> QED
  BY <1>1, InvHolds, PTL
=============================================================================
