------------------------------ MODULE Columns -------------------------------
(***************************************************************************)
(* The bind and define vectors of one statement structure of sqlora.c, and *)
(* what OCI has been told about them.  sqlo_close gives the slot back but  *)
(* keeps its memory for the next statement, so the vectors go through many *)
(* statements, grow, and are moved by realloc, while OCI holds pointers to *)
(* buffers, indicators and handles of the statement that is open.          *)
(*                                                                         *)
(* A function of the library is an operator that gives the set of its      *)
(* outcomes [st, ret].  A label in Faults is a call that may fail.         *)
(***************************************************************************)
EXTENDS Integers, Sequences

CONSTANTS
  MaxPos,       \* positions of placeholders and of columns are 1 .. MaxPos
  MinVec,       \* MIN_BINDP and MIN_DEFNP
  MinBuf,       \* MIN_OBUF_SIZE
  MaxLong,      \* _max_long_size, the buffer of a LONG column
  Unsupported,  \* the width of a column _calc_obuf_size has no buffer for
  Lists,        \* the select lists: for each column the buffer it needs
  Faults,       \* the labels of the calls that may fail
  AnyOrder,     \* nested tables are defined in any order, and more than once
  Mixed,        \* sqlo_open is mixed with the functions that bind and define
  Retried       \* a sqlo_execute of a REF CURSOR that failed is repeated

Pos   == 1 .. MaxPos
Sizes == 0 .. 2 * MaxPos
Words == 0 .. 2 * MaxLong

ASSUME SizeAssumption == {MaxPos, MinVec, MinBuf, MaxLong} \subseteq Nat \ {0}
ASSUME MinAssumption  == MinVec <= 2 * MaxPos /\ MinBuf <= 2 * MaxLong
ASSUME WidthAssumption ==
  /\ Unsupported \notin 1 .. MaxLong
  /\ \A l \in Lists : l \in Seq(1 .. MaxLong \union {Unsupported}) /\ Len(l) <= MaxPos
ASSUME StyleAssumption == {AnyOrder, Mixed, Retried} \subseteq BOOLEAN

VARIABLES
  st,     \* the statement structure, and OCI's side of it
  told,   \* what the last call returned
  up      \* whether the application was told that the statement is open

vars == <<st, told, up>>

\* An entry of a vector of OCI handles: NULL, a handle of the statement that is
\* open, or one that was freed with an earlier statement.
Handles == {"null", "own", "stale"}

\* A pointer OCI holds: none, to the application's memory, to the library's, or
\* to memory of the library that has been freed or moved.
Pointers == {"none", "app", "lib", "gone"}

\* outv: the bytes allocated for a column's buffer, 0 for a NULL pointer; outv_size
\* is what the library believes.  ocol_namev: whose name an entry points to.
\* obind, odef: OCI's indicators of the placeholders and its defines.
\* whole: no vector with a size is NULL.  params: whether a descriptor of a column was
\* left allocated.
NoDefine == [buf |-> "none", size |-> 0, ind |-> "none"]
NewStmt ==
  [phase |-> "free", kind |-> "open", list |-> << >>, whole |-> TRUE, params |-> FALSE,
   bindpv_size |-> 0, num_bindpv |-> 0, bindpv |-> [i \in Pos |-> "null"],
   defnpv_size |-> 0, num_defnpv |-> 0, defnpv |-> [i \in Pos |-> "null"],
   outv |-> [i \in Pos |-> 0], outv_size |-> [i \in Pos |-> 0],
   ocol_namev |-> [i \in Pos |-> "unset"],
   obind |-> [i \in Pos |-> "none"], odef |-> [i \in Pos |-> NoDefine]]

Init == st = NewStmt /\ told = "ok" /\ up = FALSE

-----------------------------------------------------------------------------
(* Outcomes.                                                               *)

Ok(x)    == [st |-> x, ret |-> "ok"]
Error(x) == [st |-> x, ret |-> "error"]
Fails(l, x) == IF l \in Faults THEN {Error(x)} ELSE {}

Then(R, F(_)) == {r \in R : r.ret # "ok"} \union UNION {F(r.st) : r \in {q \in R : q.ret = "ok"}}
Always(R, F(_)) == UNION {F(r.st) : r \in R}

Larger(m, n) == IF m < n THEN n ELSE m

-----------------------------------------------------------------------------
(* The vectors.                                                            *)

Grown(n) == IF n <= MinVec THEN MinVec ELSE 2 * n
Moved(p) == IF p = "lib" THEN "gone" ELSE p

\* An empty vector is allocated, one that is too small is reallocated: then its
\* elements, to which OCI has pointers, move, and after a failure it is NULL.
GrowthLabel(size) == IF size = 0 THEN "malloc" ELSE "realloc"

\* Mutant: off by one in the comparison of sizes.
AllocBindpLate(x, n) ==
  IF n <= x.bindpv_size + 1 THEN {Ok(x)}
  ELSE {Ok([x EXCEPT !.bindpv_size = Grown(n),
                     !.obind = [i \in Pos |-> Moved(@[i])]])}

AllocBindp(x, n) ==
  IF n <= x.bindpv_size THEN {Ok(x)}
  ELSE {Ok([x EXCEPT !.bindpv_size = Grown(n),
                     !.bindpv = [i \in Pos |-> IF i > x.bindpv_size THEN "null" ELSE @[i]],
                     !.obind = [i \in Pos |-> Moved(@[i])]])}
       \union Fails(GrowthLabel(x.bindpv_size), [x EXCEPT !.whole = x.bindpv_size = 0])

\* The new elements of every vector are cleared, except those of ocol_namev.
AllocDefinep(x, n) ==
  IF n <= x.defnpv_size THEN {Ok(x)}
  ELSE {Ok([x EXCEPT !.defnpv_size = Grown(n),
                     !.defnpv = [i \in Pos |-> IF i > x.defnpv_size THEN "null" ELSE @[i]],
                     !.odef = [i \in Pos |-> [x.odef[i] EXCEPT !.ind = Moved(@)]]])}
       \union Fails(GrowthLabel(x.defnpv_size), [x EXCEPT !.whole = x.defnpv_size = 0])

Reset(h, n) == [i \in Pos |-> IF i <= n THEN "null" ELSE h[i]]

\* Mutant: only the count is reset.
BindpvResetCount(x) == [x EXCEPT !.num_bindpv = 0]

BindpvReset(x) == [x EXCEPT !.bindpv = Reset(@, x.num_bindpv), !.num_bindpv = 0]

\* The statement's OCI handle is freed, and with it all that belongs to it.
HandleFreed(x) ==
  [x EXCEPT !.bindpv = [i \in Pos |-> IF @[i] = "own" THEN "stale" ELSE @[i]],
            !.defnpv = [i \in Pos |-> IF @[i] = "own" THEN "stale" ELSE @[i]],
            !.ocol_namev = [i \in Pos |-> IF @[i] = "own" THEN "stale" ELSE @[i]],
            !.obind = [i \in Pos |-> "none"], !.odef = [i \in Pos |-> NoDefine]]

Long(x, i) == i <= x.num_defnpv /\ x.outv_size[i] >= MaxLong
\* Mutant: the count survives the close.
CloseColumnsCounted(x) ==
  [x EXCEPT !.outv = [i \in Pos |-> IF Long(x, i) THEN 0 ELSE @[i]],
            !.outv_size = [i \in Pos |-> IF Long(x, i) THEN 0 ELSE @[i]],
            !.defnpv = Reset(@, x.num_defnpv)]

CloseColumns(x) ==
  [x EXCEPT !.outv = [i \in Pos |-> IF Long(x, i) THEN 0 ELSE @[i]],
            !.outv_size = [i \in Pos |-> IF Long(x, i) THEN 0 ELSE @[i]],
            !.defnpv = Reset(@, x.num_defnpv), !.num_defnpv = 0]

\* sqlo_close.
Closed(x) ==
  [HandleFreed(CloseColumns(BindpvReset(x))) EXCEPT
     !.phase = "free", !.kind = "open", !.list = << >>]

\* _dealloc_bindp and _dealloc_definep, after sqlo_close.
Deallocated(x) == [NewStmt EXCEPT !.whole = x.whole, !.params = x.params]

-----------------------------------------------------------------------------
(* Binds.                                                                  *)

\* OCIBindByPos or OCIBindByName of placeholder p through bindpv[i], with the
\* structure's strides set for an array.
BindCall(x, i, p, ind, array) ==
  LET bound == [x EXCEPT !.bindpv[i] = "own", !.obind[p] = ind] IN
  Fails("bind", x)
    \union (IF array THEN Fails("array", bound) ELSE {})
    \union {Ok([bound EXCEPT !.num_bindpv = Larger(@, i)])}

BindByPos(x, p, ind, array) ==
  Then(AllocBindp(x, p), LAMBDA y : BindCall(y, p, p, ind, array))

BindByName(x, p, array) ==
  Then(AllocBindp(x, x.num_bindpv + 1),
       LAMBDA y : BindCall(y, y.num_bindpv + 1, p, "app", array))

\* The indicators of the values of sqlo_open are the library's.
BindNext(R, n) == Then(R, LAMBDA y : BindByPos(y, n, "lib", FALSE))
BindArgv(x, argc) ==
  LET bind[n \in 0 .. argc] ==
        IF n = 0 THEN AllocBindp(x, argc) ELSE BindNext(bind[n - 1], n)
  IN bind[argc]

-----------------------------------------------------------------------------
(* Defines.                                                                *)

DefineByPos(x, p, define, array) ==
  Then(AllocDefinep(x, p),
       LAMBDA y :
         LET defined == [y EXCEPT !.defnpv[p] = "own", !.odef[p] = define] IN
         Fails("define", y)
           \union (IF array THEN Fails("array", defined) ELSE {})
           \union {Ok([defined EXCEPT !.num_defnpv = Larger(@, p)])})

AppDefine == [buf |-> "app", size |-> 0, ind |-> "app"]

\* The define of a nested table counts the defines, where the others keep the
\* highest position.
DefineNtable(x, p) ==
  Then(AllocDefinep(x, p),
       LAMBDA y :
         Fails("define", y)
           \union {Ok([y EXCEPT !.defnpv[p] = "own", !.odef[p] = AppDefine, !.num_defnpv = @ + 1])})

\* Mutant: a buffer that is there is taken for large enough.
AllocOcolBufferOnce(x, p, width) ==
  IF x.outv[p] # 0 THEN {Ok([x EXCEPT !.outv_size[p] = width])}
  ELSE {Ok([x EXCEPT !.outv[p] = Larger(width, MinBuf), !.outv_size[p] = Larger(width, MinBuf)])}

\* A buffer that is too small is reallocated to twice what is needed, unless the
\* column is a LONG; the size of one that is large enough is set to what is needed.
AllocOcolBuffer(x, p, width) ==
  LET size == IF x.outv[p] = 0 THEN Larger(width, MinBuf)
              ELSE IF width < MaxLong THEN 2 * width ELSE width
  IN IF x.outv[p] # 0 /\ width <= x.outv_size[p]
     THEN {Ok([x EXCEPT !.outv_size[p] = width])}
     ELSE {Ok([x EXCEPT !.outv[p] = size, !.outv_size[p] = size, !.odef[p].buf = Moved(@)])}
            \union Fails("buffer", [x EXCEPT !.outv[p] = 0])

\* A column is described through a descriptor, which OCIParamGet allocates and
\* OCIDescriptorFree frees.  If OCIAttrGet fails between them, it is not freed.
Described(x) ==
  {Ok(x)} \union Fails("param", x) \union Fails("attr", [x EXCEPT !.params = TRUE])

GetOcolDbDataType(x) == Described(x)
GetOcolDbSize(x)     == Described(x)
GetOcolDbPrec(x)     == Described(x)
GetOcolDbScale(x)    == Described(x)
GetOcolDbIsNull(x)   == Described(x)

Named(x, p, name) == [x EXCEPT !.ocol_namev[p] = name]

\* What can fail around the name: OCIParamGet, after which nothing has changed;
\* OCIAttrGet and the allocation of the name (l), which do not free the
\* descriptor; and OCIDescriptorFree, when the name is set.
NameFails(x, p, l) ==
  Fails(l, x) \union Fails(l, Named(x, p, "own"))
    \union UNION {Fails(e, [x EXCEPT !.params = TRUE]) : e \in {l, "attr"}}

\* Mutant: a name that is there is kept.
SetOcolNameOnce(x, p, l) ==
  LET kept == IF x.ocol_namev[p] = "unset" THEN "own" ELSE x.ocol_namev[p]
  IN {Ok(Named(x, p, kept))} \union NameFails(x, p, l)

SetOcolName(x, p, l) == {Ok(Named(x, p, "own"))} \union NameFails(x, p, l)

\* The library's define of a column; whether the buffer could be allocated is not
\* looked at.
LibDefine(x, p) ==
  [buf |-> IF x.outv[p] = 0 THEN "none" ELSE "lib", size |-> x.outv_size[p], ind |-> "lib"]
DescribeOcol(x, p) ==
  LET name  == Then(GetOcolDbDataType(x), LAMBDA y : SetOcolName(y, p, "name"))
      size  == Then(name, GetOcolDbSize)
      prec  == Then(size, GetOcolDbPrec)
      scale == Then(prec, GetOcolDbScale)
  IN Then(scale, GetOcolDbIsNull)

DefineOcolByPos(x, p) ==
  Then(DescribeOcol(x, p),
       LAMBDA y :
         IF y.list[p] = Unsupported THEN {Error(y)}
         ELSE Always(AllocOcolBuffer(y, p, y.list[p]),
                     LAMBDA z : DefineByPos(z, p, LibDefine(z, p), FALSE)))

DefineNext(R, n) == Then(R, LAMBDA y : DefineOcolByPos(y, n))

\* Mutant: the vectors grow as the columns are defined.
DefineColumnsGrowing(x) ==
  LET define[n \in 0 .. Len(x.list)] ==
        IF n = 0 THEN {Ok(x)} ELSE DefineNext(define[n - 1], n)
  IN define[Len(x.list)]

DefineColumns(x) ==
  LET define[n \in 0 .. Len(x.list)] ==
        IF n = 0 THEN AllocDefinep(x, Len(x.list)) ELSE DefineNext(define[n - 1], n)
  IN define[Len(x.list)]

\* A REF CURSOR has been executed by its parent and is open before its columns are
\* defined.
DefineOutput(x) ==
  IF x.num_defnpv > 0 THEN {Ok(x)}
  ELSE LET opened == [x EXCEPT !.phase = IF x.kind = "ref" THEN "opened" ELSE @] IN
       (IF x.kind = "ref" THEN {} ELSE Fails("execute", x)) \union DefineColumns(opened)

NameNext(R, n, l) == Then(R, LAMBDA y : SetOcolName(y, n, l))
SetAllOcolNames(x, l) ==
  LET name[n \in 0 .. Len(x.list)] ==
        IF n = 0 THEN AllocDefinep(x, Len(x.list)) ELSE NameNext(name[n - 1], n, l)
  IN name[Len(x.list)]

-----------------------------------------------------------------------------
(* The functions of the library.                                           *)

CloseAfterError(R) == {r \in R : r.ret = "ok"} \union {Error(Closed(r.st)) : r \in {q \in R : q.ret # "ok"}}

Opened(x) == {Ok([x EXCEPT !.phase = "opened"])}

\* _sqlo_reopen: the values are bound again, and the statement runs; the columns are
\* defined the first time.
Reopen(x, argc) ==
  LET reset == IF argc > 0 THEN BindpvReset(x) ELSE x
      run(y) == IF y.list = << >> THEN {Ok(y)}
                ELSE IF y.phase = "opened" THEN {Ok(y)} \union Fails("execute", y)
                ELSE DefineOutput(y)
  IN CloseAfterError(Then(Then(BindArgv(reset, argc), run), Opened))

Open(x, list, argc) ==
  Reopen([x EXCEPT !.phase = "prepared", !.kind = "open", !.list = list], argc)

\* A REF CURSOR defines its columns; any other statement runs, and after that its
\* binds are made anew.
Execute(x) ==
  IF x.kind = "ref" THEN DefineOutput(x)
  ELSE Fails("execute", x) \union {Ok(BindpvReset([x EXCEPT !.phase = "opened"]))}

\* sqlo_ncols and sqlo_get_ocol_dtype execute a statement that has not run to have its
\* columns described.
Run(x) == {Ok(x)} \union (IF x.phase = "prepared" /\ x.kind # "ref" THEN Fails("execute", x) ELSE {})

Ncols(x) == Run(x)

\* sqlo_get_ocol_dtype frees its descriptor after an error, too.
GetOcolDtype(x, pos) ==
  Then(Run(x), LAMBDA y : IF pos > Len(y.list) THEN {Error(y)}
                          ELSE {Ok(y)} \union Fails("param", y) \union Fails("dtype", y))

-----------------------------------------------------------------------------
(* The application.  A statement is opened by sqlo_open, or prepared and   *)
(* bound and defined by the application, or a REF CURSOR; unless Mixed, it *)
(* keeps to the functions of its kind.                                     *)

Returns(R) == \E r \in R : st' = r.st /\ told' = r.ret /\ up' = up
Opens(R)   == \E r \in R : st' = r.st /\ told' = r.ret /\ up' = (r.ret = "ok")
Ends(x)    == st' = x /\ told' = "ok" /\ up' = FALSE

Usable == st.phase # "free" /\ st.whole

OpenCall ==
  /\ st.phase = "free" /\ st.whole
  /\ \E list \in Lists, argc \in 0 .. MaxPos : Opens(Open(st, list, argc))

ReopenCall ==
  /\ Usable /\ up /\ st.kind = "open"
  /\ \E argc \in 0 .. MaxPos : Opens(Reopen(st, argc))

\* sqlo_prepare, or the slot that sqlo_bind_ref_cursor takes for a REF CURSOR.
PrepareCall ==
  /\ st.phase = "free" /\ st.whole
  /\ \E kind \in {"prepared", "ref"}, list \in Lists :
       /\ kind = "ref" => list # << >>
       /\ Returns({Ok([st EXCEPT !.phase = "prepared", !.kind = kind, !.list = list])})

Own == st.kind = "prepared" \/ Mixed

BindCalls ==
  /\ Usable /\ Own
  /\ \E p \in Pos, array \in BOOLEAN :
       \/ Returns(BindByPos(st, p, "app", array))
       \/ st.num_bindpv < MaxPos /\ Returns(BindByName(st, p, array))

DefineCalls ==
  /\ Usable /\ Own
  /\ \E p \in 1 .. Len(st.list), array \in BOOLEAN :
       \/ Returns(DefineByPos(st, p, AppDefine, array))
       \/ /\ IF AnyOrder THEN st.num_defnpv < MaxPos ELSE p = st.num_defnpv + 1
          /\ Returns(DefineNtable(st, p))

ExecuteCall ==
  /\ Usable /\ st.kind # "open"
  /\ st.kind = "ref" => st.phase = "prepared" \/ Retried
  /\ Opens(Execute(st))

\* sqlo_ocol_names, sqlo_ocol_name_lens and sqlo_print do not look at the answer of
\* _set_all_ocol_names, sqlo_ocol_names2 does.
OcolNamesCall ==
  /\ Usable /\ up /\ st.list # << >> /\ up' = up
  /\ \/ \E r \in SetAllOcolNames(st, "names") : st' = r.st /\ told' = "names"
     \/ \E r \in SetAllOcolNames(st, "name") :
          st' = r.st /\ told' = IF r.ret = "ok" THEN "names" ELSE "error"

DescribeCalls ==
  /\ Usable
  /\ \/ Returns(Ncols(st))
     \/ \E pos \in 1 .. MaxPos : Returns(GetOcolDtype(st, pos))

CloseCall == Usable /\ Ends(Closed(st))

\* The connection ends: _close_all_db_cursors.
EndSession == Usable /\ Ends(Deallocated(Closed(st)))

Next == \/ OpenCall \/ ReopenCall \/ PrepareCall \/ BindCalls \/ DefineCalls
        \/ ExecuteCall \/ OcolNamesCall \/ DescribeCalls \/ CloseCall \/ EndSession

Spec == Init /\ [][Next]_vars

-----------------------------------------------------------------------------
(* Properties.                                                             *)

Stmts ==
  [phase : {"free", "prepared", "opened"}, kind : {"open", "prepared", "ref"},
   list : Lists \union {<< >>}, whole : BOOLEAN, params : BOOLEAN,
   bindpv_size : Sizes, num_bindpv : 0 .. MaxPos, bindpv : [Pos -> Handles],
   defnpv_size : Sizes, num_defnpv : 0 .. MaxPos, defnpv : [Pos -> Handles],
   outv : [Pos -> Words], outv_size : [Pos -> Words],
   ocol_namev : [Pos -> {"unset", "own", "stale"}], obind : [Pos -> Pointers],
   odef : [Pos -> [buf : Pointers, size : Words, ind : Pointers]]]

TypeOK == st \in Stmts /\ told \in {"ok", "error", "names"} /\ up \in BOOLEAN

\* A handle that is left in a vector belongs to the statement that is open: the
\* next OCIBindByPos or OCIDefineByPos of that position passes it to OCI, which
\* would work on the freed handle of an earlier statement.
HandlesOwn == \A i \in Pos : st.bindpv[i] # "stale" /\ st.defnpv[i] # "stale"

\* The buffer OCI writes a column to is there, and at least as long as OCI was told.
BuffersHold ==
  \A i \in Pos : st.odef[i].ind = "lib" => st.odef[i].buf = "lib" /\ st.odef[i].size <= st.outv[i]

\* No vector was moved after OCI had been given the address of one of its elements.
IndicatorsLive == \A i \in Pos : st.obind[i] # "gone" /\ st.odef[i].ind # "gone"

\* The library has defined every column of a cursor that it reports as open, and no
\* other: sqlo_values gives that many values, under the names of this statement.
OpenIsComplete ==
  up /\ st.kind # "prepared" =>
    /\ st.phase = "opened" /\ st.num_defnpv = Len(st.list)
    /\ \A i \in 1 .. Len(st.list) : st.odef[i].buf = "lib" /\ st.ocol_namev[i] = "own"

\* The assertions of _alloc_bindp, _define_by_pos and sqlo_define_ntable, by which
\* sqlo_close clears only what is there.
CountsWithin == st.num_bindpv <= st.bindpv_size /\ st.num_defnpv <= st.defnpv_size

\* The assertions of _dealloc_bindp and _dealloc_definep: a vector with a size is
\* not NULL.
VectorsWhole == st.whole

\* No function leaves a descriptor of a column allocated: the library keeps no pointer
\* to it, so that it could not be freed before the environment is.
ParamsFreed == ~st.params

\* The names given to the application, num_defnpv of them, are this statement's.
NamesOwn == told = "names" => \A i \in 1 .. st.num_defnpv : st.ocol_namev[i] = "own"
=============================================================================
