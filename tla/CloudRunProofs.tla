--------------------------- MODULE CloudRunProofs ---------------------------
(***************************************************************************)
(* Proofs about the cloud run and about the data path before it.            *)
(*                                                                          *)
(* The data path runs a plan of any length over records of any number.  What *)
(* its folds compute is shown by induction, in the form of the least        *)
(* counterexample: a set of numbers that is not empty has a least member.   *)
(***************************************************************************)
EXTENDS CloudRun, FiniteSetTheorems, SequenceTheorems, WellFoundedInduction, TLAPS

-----------------------------------------------------------------------------
(* Induction. *)

\* A set of natural numbers that is not empty has a least member: among the
\* finite sets 0 .. n, ordered by inclusion, there is a minimal one.
LEMMA LeastNumber ==
    ASSUME NEW T, T \subseteq Nat, T # {}
    PROVE  \E m \in T : \A k \in T : m <= k
<1> DEFINE U == {0 .. n : n \in T}
<1>1. IsWellFoundedOn(StrictSubsetOrdering(Nat), FiniteSubsetsOf(Nat))
  BY FS_StrictSubsetOrderingWellFounded
<1>2. \A n \in Nat : IsFiniteSet(0 .. n)
  BY FS_Interval
<1>3. U \subseteq FiniteSubsetsOf(Nat)
  BY <1>2 DEF FiniteSubsetsOf
<1>4. U # {}
  OBVIOUS
<1> HIDE DEF U
<1>5. PICK x \in U : \A y \in U : <<y, x>> \notin StrictSubsetOrdering(Nat)
  BY <1>1, <1>3, <1>4, WFMin
<1>6. PICK m \in T : x = 0 .. m
  BY DEF U
<1>7. ASSUME NEW k \in T, k < m PROVE FALSE
  <2>1. 0 .. k \in U
    BY DEF U
  <2>2. 0 .. k \subseteq Nat /\ 0 .. m \subseteq Nat
    OBVIOUS
  <2>3. 0 .. k \subseteq 0 .. m /\ 0 .. k # 0 .. m
    BY <1>7
  <2>4. <<0 .. k, x>> \in StrictSubsetOrdering(Nat)
    BY <2>2, <2>3, <1>6 DEF StrictSubsetOrdering
  <2> QED BY <1>5, <2>1, <2>4
<1> QED BY <1>7

\* A list of answers without a refusal is "ok" throughout; else its first
\* refusal is one of them.
LEMMA FirstRefusalIsOne ==
    ASSUME NEW codes, DOMAIN codes \subseteq Nat
    PROVE  IF FirstRefusal(codes) = "ok" THEN \A k \in DOMAIN codes : codes[k] = "ok"
           ELSE \E k \in DOMAIN codes : codes[k] = FirstRefusal(codes)
<1> DEFINE T == {k \in DOMAIN codes : codes[k] # "ok"}
<1>1. CASE T = {}
  BY <1>1 DEF FirstRefusal
<1>2. CASE T # {}
  <2>1. T \subseteq Nat
    OBVIOUS
  <2>2. PICK m \in T : \A k \in T : m <= k
    BY <1>2, <2>1, LeastNumber
  <2> DEFINE c == CHOOSE k \in DOMAIN codes :
                    codes[k] # "ok" /\ \A j \in DOMAIN codes : codes[j] # "ok" => k <= j
  <2>3. c \in DOMAIN codes /\ codes[c] # "ok"
    BY <2>2
  <2>4. FirstRefusal(codes) = codes[c]
    BY <1>2 DEF FirstRefusal
  <2> HIDE DEF c
  <2> QED BY <2>3, <2>4
<1> QED BY <1>1, <1>2

\* f holds what the interpreter has after each of the first n operations.
Handled(f, ops, rows, n) ==
    f = [k \in 0 .. n |-> IF k = 0 THEN Fine(rows) ELSE Handle(f[k-1], ops[k])]

\* There is such a function, for every list of operations.
LEMMA HandledExists ==
    ASSUME NEW ops, NEW rows, NEW n \in Nat
    PROVE  \E f : Handled(f, ops, rows, n)
<1> DEFINE T == {m \in Nat : ~ \E f : Handled(f, ops, rows, m)}
<1> SUFFICES ASSUME T # {} PROVE FALSE
  OBVIOUS
<1>1. PICK m \in T : \A k \in T : m <= k
  BY LeastNumber
<1>2. CASE m = 0
  <2>1. Handled([k \in 0 .. 0 |-> Fine(rows)], ops, rows, 0)
    BY DEF Handled
  <2> QED BY <2>1, <1>2
<1>3. CASE m # 0
  <2>1. m - 1 \in Nat /\ m - 1 \notin T
    BY <1>1, <1>3
  <2>2. PICK f : Handled(f, ops, rows, m - 1)
    BY <2>1
  <2> DEFINE g == [k \in 0 .. m |-> IF k = m THEN Handle(f[m-1], ops[m]) ELSE f[k]]
  <2>3. \A k \in 0 .. m - 1 : g[k] = f[k]
    BY <2>1
  <2>4. \A k \in 0 .. m : g[k] = IF k = 0 THEN Fine(rows) ELSE Handle(g[k-1], ops[k])
    BY <2>1, <2>2, <2>3, <1>3 DEF Handled
  <2>5. Handled(g, ops, rows, m)
    BY <2>4 DEF Handled
  <2> QED BY <2>5
<1> QED BY <1>2, <1>3

\* The interpreter finishes what the last of its steps holds.
LEMMA ExecutePlanFolds ==
    ASSUME NEW draft, NEW rows, Len(draft.ops) \in Nat
    PROVE  \E f : /\ Handled(f, draft.ops, rows, Len(draft.ops))
                  /\ ExecutePlan(draft, rows) = FinishRows(f[Len(draft.ops)], draft.outputs)
<1>1. PICK f : Handled(f, draft.ops, rows, Len(draft.ops))
  BY HandledExists
<1> DEFINE g == CHOOSE h : h = [k \in 0 .. Len(draft.ops) |->
                     IF k = 0 THEN Fine(rows) ELSE Handle(h[k-1], draft.ops[k])]
<1>2. Handled(g, draft.ops, rows, Len(draft.ops))
  BY <1>1 DEF Handled
<1>3. ExecutePlan(draft, rows) = FinishRows(g[Len(draft.ops)], draft.outputs)
  BY DEF ExecutePlan
<1> QED BY <1>2, <1>3

-----------------------------------------------------------------------------
(* What the casts preserve. *)

\* A value the interpreter may hold: what it parsed reads as what it is.
GoodValue(v) ==
    v = Null \/ /\ v.x \in Texts
                /\ v.t \in {"int", "float"} => "decimal" \in Reads[v.x]
                /\ v.t = "bool" => "boolean" \in Reads[v.x]
                /\ v.t = "decimal" => "decimal" \in Reads[v.x] /\ v.x \notin NonFinite
                /\ v.t = "date" => "date" \in Reads[v.x] /\ Written["date"][v.x] = v.x
                /\ v.t = "timestamp" => "timestamp" \in Reads[v.x]

GoodCell(c) ==
    c = [protection |-> c.protection, value |-> c.value] /\ GoodValue(c.value)

GoodRows(rows) ==
    /\ DOMAIN rows \subseteq Nat
    /\ \A i \in DOMAIN rows : \A f \in DOMAIN rows[i] : GoodCell(rows[i][f])

\* A decoded scalar is such a value.
LEMMA DecodedIsGood ==
    ASSUME NEW v, v.t \in ScalarTypes, DecodedValue(v)
    PROVE  GoodValue(v)
BY DEF ScalarTypes, DecodedValue, GoodValue

\* A cast makes such a value of such a value.
LEMMA CastValueGood ==
    ASSUME NEW v, NEW type \in Types, GoodValue(v), v # Null, Castable(v, type),
           type = "decimal" => v.x \notin NonFinite
    PROVE  GoodValue(CastValue(v, type))
<1>0. /\ v.x \in Texts
      /\ v.t \in {"int", "float"} => "decimal" \in Reads[v.x]
      /\ v.t = "bool" => "boolean" \in Reads[v.x]
      /\ v.t = "decimal" => "decimal" \in Reads[v.x] /\ v.x \notin NonFinite
      /\ v.t = "date" => "date" \in Reads[v.x] /\ Written["date"][v.x] = v.x
      /\ v.t = "timestamp" => "timestamp" \in Reads[v.x]
  BY DEF GoodValue
<1>1. PICK w : w = CastValue(v, type)
  OBVIOUS
<1>2. w.t = PyType(type)
  BY <1>1 DEF CastValue, Plain
<1>3. CASE type = "decimal"
  <2>1. w.t = "decimal" /\ w.x = Written["decimal"][v.x]
    BY <1>1, <1>3 DEF CastValue, CastText, Plain, PyType
  <2>2. "decimal" \in Reads[v.x]
    BY <1>0, <1>3 DEF Castable
  <2> QED BY <2>1, <2>2, <1>0, <1>1, <1>3, TextAssumption DEF GoodValue
<1>4. CASE type = "date"
  <2>1. w.t = "date" /\ w.x = Written["date"][v.x]
    BY <1>1, <1>4 DEF CastValue, CastText, Plain, PyType
  <2>2. "date" \in Reads[v.x]
    BY <1>0, <1>4 DEF Castable
  <2> QED BY <2>1, <2>2, <1>0, <1>1, TextAssumption DEF GoodValue
<1>5. CASE type = "timestamp"
  <2>1. w.t = "timestamp" /\ w.x = Written["timestamp"][v.x]
    BY <1>1, <1>5 DEF CastValue, CastText, Plain, PyType
  <2>2. "timestamp" \in Reads[v.x]
    BY <1>0, <1>5 DEF Castable
  <2> QED BY <2>1, <2>2, <1>0, <1>1, TextAssumption DEF GoodValue
<1>6. CASE type = "integer"
  <2>1. w.t = "int" /\ w.x = Normal[v.x]
    BY <1>1, <1>6 DEF CastValue, CastText, Plain, PyType
  <2>2. "decimal" \in Reads[v.x]
    BY <1>0, <1>6, TextAssumption DEF Castable
  <2> QED BY <2>1, <2>2, <1>0, <1>1, TextAssumption DEF GoodValue
<1>7. CASE type = "boolean"
  <2>1. w.t = "bool" /\ w.x \in {"true", "false"}
    BY <1>1, <1>7 DEF CastValue, CastText, Plain, PyType, Truth
  <2> QED BY <2>1, <1>1, TextAssumption DEF GoodValue
<1>8. CASE type \in {"string", "bytes"}
  <2>1. w.t \in {"str", "bytes"} /\ w.x = v.x
    BY <1>1, <1>8 DEF CastValue, CastText, Plain, PyType
  <2> QED BY <2>1, <1>0, <1>1 DEF GoodValue
<1> QED BY <1>3, <1>4, <1>5, <1>6, <1>7, <1>8 DEF Types

\* Every cell that claims to hold a token holds one.
Tokens(rows) ==
    \A i \in DOMAIN rows : \A f \in DOMAIN rows[i] :
      rows[i][f].protection = "tokenized" => rows[i][f].value.mac # <<>>

\* What the interpreter holds between two operations: as many records as it
\* began with, in them such values, and tokens if there were tokens.
Sound(acc, first) ==
    acc.code = "ok" =>
      /\ DOMAIN acc.rows = DOMAIN first /\ GoodRows(acc.rows)
      /\ Tokens(first) => Tokens(acc.rows)

\* What a cast that is not refused, and one that is, say of its cells.
LEMMA CastAnswers ==
    ASSUME NEW rows, DOMAIN rows \subseteq Nat, NEW o, RequireField(rows, o.field)
    PROVE  \/ /\ \A i \in DOMAIN rows : CastRefusal(rows[i][o.field], o) = "ok"
              /\ Cast(rows, o) = Fine([i \in DOMAIN rows |->
                                    [rows[i] EXCEPT ![o.field] = CastCell(@, o)]])
           \/ \E i \in DOMAIN rows :
                /\ CastRefusal(rows[i][o.field], o) # "ok"
                /\ Cast(rows, o) = Refused(CastRefusal(rows[i][o.field], o))
<1> DEFINE codes == [i \in DOMAIN rows |-> CastRefusal(rows[i][o.field], o)]
<1>1. PICK refusal : refusal = FirstRefusal(codes)
  OBVIOUS
<1>2. Cast(rows, o) = IF refusal # "ok" THEN Refused(refusal)
                      ELSE Fine([i \in DOMAIN rows |-> [rows[i] EXCEPT ![o.field] = CastCell(@, o)]])
  BY <1>1 DEF Cast
<1>3. DOMAIN codes = DOMAIN rows /\ \A i \in DOMAIN rows : codes[i] = CastRefusal(rows[i][o.field], o)
  OBVIOUS
<1> HIDE DEF codes
<1>4. IF refusal = "ok" THEN \A k \in DOMAIN codes : codes[k] = "ok"
      ELSE \E k \in DOMAIN codes : codes[k] = refusal
  BY <1>1, <1>3, FirstRefusalIsOne
<1>5. CASE refusal = "ok"
  BY <1>2, <1>3, <1>4, <1>5
<1>6. CASE refusal # "ok"
  <2>1. PICK i \in DOMAIN rows : CastRefusal(rows[i][o.field], o) = refusal
    BY <1>3, <1>4, <1>6
  <2>2. Cast(rows, o) = Refused(refusal)
    BY ONLY <1>2, <1>6
  <2> QED BY ONLY <1>6, <2>1, <2>2
<1> QED BY <1>5, <1>6

\* One operation keeps it.
LEMMA HandleSound ==
    ASSUME NEW acc, NEW o, NEW first, Sound(acc, first), o.op = "cast" => o.type \in Types
    PROVE  Sound(Handle(acc, o), first)
<1>1. PICK out : out = Handle(acc, o)
  OBVIOUS
<1>2. CASE acc.code # "ok"
  BY <1>1, <1>2 DEF Handle
<1>3. CASE acc.code = "ok" /\ o.op = "rename"
  <2>1. out = Rename(acc.rows, o)
    BY <1>1, <1>3 DEF Handle
  <2>2. SUFFICES ASSUME out.code = "ok" PROVE
           /\ DOMAIN out.rows = DOMAIN first /\ GoodRows(out.rows)
           /\ Tokens(first) => Tokens(out.rows)
    BY <1>1 DEF Sound
  <2>3. /\ RequireField(acc.rows, o.field)
        /\ out = Fine([i \in DOMAIN acc.rows |->
                    [f \in (DOMAIN acc.rows[i] \ {o.field}) \cup {o.to} |->
                        IF f = o.to THEN acc.rows[i][o.field] ELSE acc.rows[i][f]]])
    BY <2>1, <2>2 DEF Rename, Refused
  <2>4. out.rows = [i \in DOMAIN acc.rows |->
                    [f \in (DOMAIN acc.rows[i] \ {o.field}) \cup {o.to} |->
                        IF f = o.to THEN acc.rows[i][o.field] ELSE acc.rows[i][f]]]
    BY ONLY <2>3 DEF Fine
  <2>5. /\ DOMAIN acc.rows = DOMAIN first /\ GoodRows(acc.rows)
        /\ Tokens(first) => Tokens(acc.rows)
    BY <1>3 DEF Sound
  <2>6. DOMAIN out.rows = DOMAIN acc.rows
    BY ONLY <2>4
  <2>7. ASSUME NEW i \in DOMAIN acc.rows, NEW f \in DOMAIN out.rows[i]
        PROVE  \E g \in DOMAIN acc.rows[i] : out.rows[i][f] = acc.rows[i][g]
    <3>1. o.field \in DOMAIN acc.rows[i]
      BY ONLY <2>3, <2>7 DEF RequireField
    <3> QED BY ONLY <2>4, <2>7, <3>1
  <2>8. GoodRows(out.rows)
    BY ONLY <2>5, <2>6, <2>7 DEF GoodRows
  <2>9. Tokens(acc.rows) => Tokens(out.rows)
    BY ONLY <2>6, <2>7 DEF Tokens
  <2> QED BY ONLY <2>5, <2>6, <2>8, <2>9
<1>4. CASE acc.code = "ok" /\ o.op = "drop"
  <2>1. out = Drop(acc.rows, o)
    BY <1>1, <1>4 DEF Handle
  <2>2. SUFFICES ASSUME out.code = "ok" PROVE
           /\ DOMAIN out.rows = DOMAIN first /\ GoodRows(out.rows)
           /\ Tokens(first) => Tokens(out.rows)
    BY <1>1 DEF Sound
  <2>3. out = Fine([i \in DOMAIN acc.rows |->
                [f \in DOMAIN acc.rows[i] \ {o.field} |-> acc.rows[i][f]]])
    BY <2>1, <2>2 DEF Drop, Refused
  <2> QED BY <2>3, <1>4 DEF Sound, Fine, GoodRows, Tokens
<1>5. CASE acc.code = "ok" /\ o.op = "cast"
  <2>1. out = Cast(acc.rows, o)
    BY <1>1, <1>5 DEF Handle
  <2>2. SUFFICES ASSUME out.code = "ok" PROVE
           /\ DOMAIN out.rows = DOMAIN first /\ GoodRows(out.rows)
           /\ Tokens(first) => Tokens(out.rows)
    BY <1>1 DEF Sound
  <2>3. /\ RequireField(acc.rows, o.field)
        /\ \A i \in DOMAIN acc.rows : CastRefusal(acc.rows[i][o.field], o) = "ok"
        /\ out = Fine([i \in DOMAIN acc.rows |->
                     [acc.rows[i] EXCEPT ![o.field] = CastCell(@, o)]])
    <3>1. RequireField(acc.rows, o.field)
      BY <2>1, <2>2 DEF Cast, Refused
    <3>2. DOMAIN acc.rows \subseteq Nat
      BY <1>5 DEF Sound, GoodRows
    <3>3. PICK rows : rows = acc.rows
      OBVIOUS
    <3>4. \A code : Refused(code).code = code
      BY DEF Refused
    <3> QED BY <3>1, <3>2, <3>3, <3>4, <2>1, <2>2, CastAnswers
  <2>4. ASSUME NEW i \in DOMAIN acc.rows PROVE GoodCell(CastCell(acc.rows[i][o.field], o))
    <3>1. PICK c : c = acc.rows[i][o.field]
      OBVIOUS
    <3>2. GoodCell(c) /\ CastRefusal(c, o) = "ok"
      BY <3>1, <2>3, <1>5 DEF Sound, GoodRows, RequireField
    <3>3. CASE c.value = Null \/ c.protection = "tokenized"
      BY <3>1, <3>2, <3>3 DEF CastCell
    <3>4. CASE ~(c.value = Null \/ c.protection = "tokenized") /\ Castable(c.value, o.type)
      <4>1. o.type = "decimal" => c.value.x \notin NonFinite
        BY <3>2, <3>4 DEF CastRefusal
      <4>2. GoodValue(CastValue(c.value, o.type))
        BY <4>1, <3>2, <3>4, <1>5, CastValueGood DEF GoodCell
      <4>3. CastCell(c, o) = [c EXCEPT !.value = CastValue(@, o.type)]
        BY <3>4 DEF CastCell
      <4>4. CastCell(c, o) = [protection |-> c.protection, value |-> CastValue(c.value, o.type)]
        BY <4>3, <3>2 DEF GoodCell
      <4> QED BY <4>2, <4>4, <3>1 DEF GoodCell
    <3>5. CASE ~(c.value = Null \/ c.protection = "tokenized") /\ ~Castable(c.value, o.type)
      <4>1. CastCell(c, o) = [c EXCEPT !.value = Null]
        BY <3>5 DEF CastCell
      <4>2. CastCell(c, o) = [protection |-> c.protection, value |-> Null]
        BY <4>1, <3>2 DEF GoodCell
      <4>3. GoodCell(CastCell(c, o))
        BY ONLY <4>2 DEF GoodCell, GoodValue
      <4> QED BY ONLY <3>1, <4>3
    <3> QED BY <3>3, <3>4, <3>5
  <2>5. out.rows = [i \in DOMAIN acc.rows |->
                       [acc.rows[i] EXCEPT ![o.field] = CastCell(@, o)]]
    BY <2>3 DEF Fine
  <2>7. ASSUME NEW i \in DOMAIN acc.rows
        PROVE  LET c == acc.rows[i][o.field]
                   n == CastCell(c, o)
               IN  n.protection = "tokenized" => n = c
    <3>1. PICK c : c = acc.rows[i][o.field]
      OBVIOUS
    <3>2. GoodCell(c)
      BY <3>1, <2>3, <1>5 DEF Sound, GoodRows, RequireField
    <3>3. CASE c.value = Null \/ c.protection = "tokenized"
      BY <3>1, <3>3 DEF CastCell
    <3>4. CASE ~(c.value = Null \/ c.protection = "tokenized")
      <4>1. PICK v : CastCell(c, o) = [c EXCEPT !.value = v]
        BY <3>4 DEF CastCell
      <4>2. CastCell(c, o).protection = c.protection
        BY <4>1, <3>2 DEF GoodCell
      <4> QED BY <4>2, <3>1, <3>4
    <3> QED BY <3>3, <3>4
  <2>6. ASSUME NEW i \in DOMAIN acc.rows, NEW f \in DOMAIN out.rows[i]
        PROVE  /\ GoodCell(out.rows[i][f])
               /\ out.rows[i][f].protection = "tokenized" => out.rows[i][f] = acc.rows[i][f]
    <3>1. f \in DOMAIN acc.rows[i] /\ out.rows[i][f] =
              IF f = o.field THEN CastCell(acc.rows[i][o.field], o) ELSE acc.rows[i][f]
      BY <2>5
    <3> QED BY <3>1, <2>4, <2>7, <1>5 DEF Sound, GoodRows
  <2>8. \A i \in DOMAIN acc.rows : DOMAIN out.rows[i] = DOMAIN acc.rows[i]
    BY <2>5
  <2>9. DOMAIN out.rows = DOMAIN acc.rows
    BY <2>5
  <2>10. DOMAIN acc.rows = DOMAIN first /\ (Tokens(first) => Tokens(acc.rows))
    BY <1>5 DEF Sound
  <2>11. GoodRows(out.rows)
    <3>1. DOMAIN out.rows \subseteq Nat
      BY <2>9, <1>5 DEF Sound, GoodRows
    <3> QED BY <3>1, <2>6, <2>9 DEF GoodRows
  <2>12. Tokens(acc.rows) => Tokens(out.rows)
    BY <2>6, <2>8, <2>9 DEF Tokens
  <2> QED BY <2>9, <2>10, <2>11, <2>12
<1>6. CASE acc.code = "ok" /\ o.op \notin {"rename", "drop", "cast"}
  BY <1>1, <1>6 DEF Handle, Refused, Sound
<1> QED BY <1>2, <1>3, <1>4, <1>5, <1>6

\* So do all operations of a plan.
LEMMA HandledSound ==
    ASSUME NEW draft, PlanTyped(draft), NEW rows, GoodRows(rows),
           NEW f, Handled(f, draft.ops, rows, Len(draft.ops))
    PROVE  \A k \in 0 .. Len(draft.ops) : Sound(f[k], rows)
<1> DEFINE T == {m \in 0 .. Len(draft.ops) : ~Sound(f[m], rows)}
<1> SUFFICES ASSUME T # {} PROVE FALSE
  OBVIOUS
<1>0. Len(draft.ops) \in Nat /\ DOMAIN draft.ops = 1 .. Len(draft.ops)
  BY DEF PlanTyped, List
<1>1. PICK m \in T : \A k \in T : m <= k
  <2>1. T \subseteq Nat
    BY <1>0
  <2> QED BY <2>1, LeastNumber
<1>2. CASE m = 0
  <2>1. f[0] = Fine(rows)
    BY <1>0 DEF Handled
  <2> QED BY <2>1, <1>2 DEF Sound, Fine
<1>3. CASE m # 0
  <2>1. m - 1 \in 0 .. Len(draft.ops) /\ m - 1 \notin T /\ m \in DOMAIN draft.ops
    BY <1>0, <1>1, <1>3
  <2>2. f[m] = Handle(f[m-1], draft.ops[m])
    BY <1>0, <1>3 DEF Handled
  <2>3. draft.ops[m].op = "cast" => draft.ops[m].type \in Types
    BY <2>1 DEF PlanTyped
  <2>4. Sound(f[m-1], rows)
    BY <2>1
  <2> QED BY <2>2, <2>3, <2>4, HandleSound
<1> QED BY <1>2, <1>3

\* What FinishRows lets pass.
Finished(rows, outputs) ==
    /\ GoodRows(rows) /\ Distinct(outputs)
    /\ \A i \in DOMAIN rows :
          /\ DOMAIN rows[i] = Names(outputs)
          /\ \A k \in DOMAIN outputs :
                CellRefusal(rows[i][outputs[k].name], outputs[k]) = "ok"

\* What the rows answer to the declared output when they pass, and when they do
\* not.
LEMMA FinishAnswers ==
    ASSUME NEW acc, acc.code = "ok", DOMAIN acc.rows \subseteq Nat,
           NEW outputs, List(outputs), Distinct(outputs)
    PROVE  \/ /\ FinishRows(acc, outputs) = acc
              /\ \A i \in DOMAIN acc.rows :
                    /\ DOMAIN acc.rows[i] = Names(outputs)
                    /\ \A k \in DOMAIN outputs :
                         CellRefusal(acc.rows[i][outputs[k].name], outputs[k]) = "ok"
           \/ \E i \in DOMAIN acc.rows :
                \/ /\ DOMAIN acc.rows[i] # Names(outputs)
                   /\ FinishRows(acc, outputs) = Refused("output_field_mismatch")
                \/ \E k \in DOMAIN outputs :
                     LET refusal == CellRefusal(acc.rows[i][outputs[k].name], outputs[k])
                     IN  /\ DOMAIN acc.rows[i] = Names(outputs) /\ refusal # "ok"
                         /\ FinishRows(acc, outputs) = Refused(refusal)
<1> DEFINE rows == acc.rows
           cells(i) == [k \in DOMAIN outputs |-> CellRefusal(rows[i][outputs[k].name], outputs[k])]
           codes == [i \in DOMAIN rows |-> RowRefusal(rows[i], outputs)]
<1>1. PICK refusal : refusal = FirstRefusal(codes)
  OBVIOUS
<1>2. FinishRows(acc, outputs) = IF refusal # "ok" THEN Refused(refusal) ELSE acc
  BY <1>1 DEF FinishRows
<1>3. IF refusal = "ok" THEN \A i \in DOMAIN rows : RowRefusal(rows[i], outputs) = "ok"
      ELSE \E i \in DOMAIN rows : RowRefusal(rows[i], outputs) = refusal
  <2>1. DOMAIN codes = DOMAIN rows /\ \A i \in DOMAIN rows : codes[i] = RowRefusal(rows[i], outputs)
    OBVIOUS
  <2> HIDE DEF codes
  <2> QED BY <1>1, <2>1, FirstRefusalIsOne
<1>4. ASSUME NEW i \in DOMAIN rows, DOMAIN rows[i] = Names(outputs)
      PROVE  IF RowRefusal(rows[i], outputs) = "ok"
             THEN \A k \in DOMAIN outputs : CellRefusal(rows[i][outputs[k].name], outputs[k]) = "ok"
             ELSE \E k \in DOMAIN outputs : CellRefusal(rows[i][outputs[k].name], outputs[k])
                                               = RowRefusal(rows[i], outputs)
  <2>1. RowRefusal(rows[i], outputs) = FirstRefusal(cells(i))
    BY <1>4 DEF RowRefusal
  <2>2. /\ DOMAIN cells(i) = DOMAIN outputs /\ DOMAIN outputs \subseteq Nat
        /\ \A k \in DOMAIN outputs :
              cells(i)[k] = CellRefusal(rows[i][outputs[k].name], outputs[k])
    BY DEF List
  <2>3. PICK list : list = cells(i)
    OBVIOUS
  <2> HIDE DEF cells
  <2> QED BY <2>1, <2>2, <2>3, FirstRefusalIsOne
<1>5. \A i : DOMAIN rows[i] # Names(outputs) =>
               RowRefusal(rows[i], outputs) = "output_field_mismatch"
  BY DEF RowRefusal
<1> HIDE DEF codes, cells
<1>6. CASE refusal = "ok"
  <2>1. FinishRows(acc, outputs) = acc
    BY ONLY <1>2, <1>6
  <2> QED BY <2>1, <1>3, <1>4, <1>5, <1>6
<1>7. CASE refusal # "ok"
  <2>1. FinishRows(acc, outputs) = Refused(refusal)
    BY ONLY <1>2, <1>7
  <2>2. PICK i \in DOMAIN rows : RowRefusal(rows[i], outputs) = refusal
    BY <1>3, <1>7
  <2>3. CASE DOMAIN rows[i] # Names(outputs)
    BY <2>1, <2>2, <2>3, <1>5
  <2>4. CASE DOMAIN rows[i] = Names(outputs)
    <3>1. PICK k \in DOMAIN outputs : CellRefusal(rows[i][outputs[k].name], outputs[k]) = refusal
      BY <2>2, <2>4, <1>4, <1>7
    <3> QED BY <2>1, <2>4, <3>1, <1>7
  <2> QED BY <2>3, <2>4
<1> QED BY <1>6, <1>7

\* A plan that executes gives as many rows as it got, of the declared fields
\* and types.
LEMMA ExecutePlanFinishes ==
    ASSUME NEW draft, PlanTyped(draft), NEW rows, GoodRows(rows),
           ExecutePlan(draft, rows).code = "ok"
    PROVE  LET out == ExecutePlan(draft, rows)
           IN  /\ DOMAIN out.rows = DOMAIN rows /\ Finished(out.rows, draft.outputs)
               /\ Tokens(rows) => Tokens(out.rows)
<1>0. Len(draft.ops) \in Nat
  BY DEF PlanTyped, List
<1>1. PICK f : /\ Handled(f, draft.ops, rows, Len(draft.ops))
               /\ ExecutePlan(draft, rows) = FinishRows(f[Len(draft.ops)], draft.outputs)
  BY <1>0, ExecutePlanFolds
<1>2. PICK acc : acc = f[Len(draft.ops)]
  OBVIOUS
<1>3. Sound(acc, rows)
  BY <1>0, <1>1, <1>2, HandledSound
<1>4. ExecutePlan(draft, rows) = acc /\ acc.code = "ok"
  <2>1. ExecutePlan(draft, rows) = FinishRows(acc, draft.outputs)
    BY <1>1, <1>2
  <2> QED BY ONLY <2>1, ExecutePlan(draft, rows).code = "ok" DEF FinishRows, Refused
<1>5. Distinct(draft.outputs)
  BY <1>1, <1>2, <1>4 DEF FinishRows, Refused
<1>6. ASSUME NEW i \in DOMAIN acc.rows
      PROVE  /\ DOMAIN acc.rows[i] = Names(draft.outputs)
             /\ \A k \in DOMAIN draft.outputs :
                   CellRefusal(acc.rows[i][draft.outputs[k].name], draft.outputs[k]) = "ok"
  <2>1. FinishRows(acc, draft.outputs).code = "ok"
    BY <1>1, <1>2, <1>4
  <2>2. DOMAIN acc.rows \subseteq Nat /\ List(draft.outputs)
    BY <1>3, <1>4 DEF Sound, GoodRows, PlanTyped
  <2>3. \A code : Refused(code).code = code
    BY DEF Refused
  <2> QED BY <1>4, <1>5, <2>1, <2>2, <2>3, FinishAnswers
<1> QED BY <1>3, <1>4, <1>5, <1>6 DEF Sound, Finished

\* Fields are told apart by their names: no two columns share one.
LEMMA OneColumn ==
    ASSUME NEW outputs, List(outputs), Distinct(outputs), NEW k \in DOMAIN outputs
    PROVE  ColumnOf(outputs, outputs[k].name) = outputs[k]
<1> DEFINE S == 1 .. Len(outputs)
           g == [m \in S |-> outputs[m].name]
<1>1. Len(outputs) \in Nat /\ DOMAIN outputs = S
  BY DEF List
<1>2. IsFiniteSet(S) /\ Cardinality(S) = Len(outputs)
  <2>1. PICK n \in Nat : n = Len(outputs)
    BY <1>1
  <2>2. IsFiniteSet(1 .. n) /\ Cardinality(1 .. n) = IF 1 > n THEN 0 ELSE n - 1 + 1
    BY FS_Interval
  <2> QED BY <2>1, <2>2
<1>3. g \in Surjection(S, Names(outputs))
  BY <1>1 DEF Surjection, Names
<1>4. g \in Injection(S, Names(outputs))
  BY <1>2, <1>3, FS_SurjSameCardinalityImpliesInj DEF Distinct
<1>5. \A m, n \in S : outputs[m].name = outputs[n].name => m = n
  BY <1>4 DEF Injection, IsInjective
<1> QED BY <1>1, <1>5 DEF ColumnOf

\* The job takes every value of a bundle that was built.
LEMMA BundledValueValid ==
    ASSUME NEW v, GoodValue(v), NEW o, o.type \in Types,
           IF v = Null THEN o.nullable ELSE MatchesType(v, o.type),
           InDomain(v, o.type),
           JsonValue(v, o.type) = DigestableValue(v)
    PROVE  ValidValue(JsonValue(v, o.type), o.type, o.nullable)
<1>1. PICK w : w = JsonValue(v, o.type)
  OBVIOUS
<1>2. CASE v = Null
  <2>0. v.t = "none" /\ w = DigestableValue(v)
    BY <1>1, <1>2 DEF Null
  <2>1. w.j = "null"
    BY <2>0 DEF DigestableValue, Json
  <2> QED BY <1>1, <1>2, <2>1 DEF ValidValue
<1>3. CASE v # Null
  <2>0. /\ v.t \in {"int", "float"} => "decimal" \in Reads[v.x]
        /\ v.t = "decimal" => "decimal" \in Reads[v.x] /\ v.x \notin NonFinite
        /\ v.t = "date" => "date" \in Reads[v.x] /\ Written["date"][v.x] = v.x
        /\ v.t = "timestamp" => "timestamp" \in Reads[v.x]
    BY <1>3 DEF GoodValue
  <2>1. w.x = v.x /\ w = DigestableValue(v)
    BY <1>1 DEF DigestableValue, Json
  <2>2. MatchesType(v, o.type)
    BY <1>3
  <2>3. CASE o.type = "decimal"
    <3>1. w.j = "string"
      BY <1>1, <1>3, <2>3 DEF JsonValue, Json
    <3>2. v.t = "decimal"
      BY <3>1, <2>1, <2>2, <2>3 DEF DigestableValue, Json, MatchesType
    <3>3. w.x \notin Huge
      BY <1>3, <2>1, <2>3 DEF InDomain
    <3> QED BY <3>1, <3>2, <3>3, <2>0, <2>1, <2>3, <1>1 DEF ValidValue
  <2>4. CASE o.type = "integer"
    <3>1. w.j = "number"
      BY <2>1, <2>2, <2>4 DEF DigestableValue, Json, MatchesType, PyType
    <3>2. w.x \notin Huge
      BY <1>3, <2>1, <2>4 DEF InDomain
    <3> QED BY <3>1, <3>2, <2>4, <1>1 DEF ValidValue
  <2>5. CASE o.type \in {"string", "boolean", "bytes"}
    <3>1. w.j = IF o.type = "string" THEN "string"
                ELSE IF o.type = "boolean" THEN "bool" ELSE "base64"
      BY <2>1, <2>2, <2>5 DEF DigestableValue, Json, MatchesType, PyType
    <3> QED BY <3>1, <2>5, <1>1 DEF ValidValue
  <2>6. CASE o.type \in {"date", "timestamp"}
    <3>1. w.j = "string" /\ v.t = o.type
      BY <2>1, <2>2, <2>6 DEF DigestableValue, Json, MatchesType, PyType
    <3> QED BY <3>1, <2>0, <2>1, <2>6, <1>1 DEF ValidValue
  <2> QED BY <2>3, <2>4, <2>5, <2>6 DEF Types
<1> QED BY <1>2, <1>3

\* The job takes every bundle that was built, and it has as many rows as were
\* executed.
LEMMA BundleLoads ==
    ASSUME NEW rows, NEW outputs, Finished(rows, outputs), List(outputs),
           \A k \in DOMAIN outputs : outputs[k].type \in Types,
           CanonicalRows(rows, outputs).code = "ok"
    PROVE  LET out == CanonicalRows(rows, outputs)
           IN  DOMAIN out.rows = DOMAIN rows /\ ValidateBundleDocument(out.rows, outputs)
<1>1. PICK made : made = BundledRows(rows, outputs)
  OBVIOUS
<1>2. /\ OutputDeclarations(outputs)
      /\ ~\E i \in DOMAIN rows : \E f \in DOMAIN rows[i] :
            ~InDomain(rows[i][f].value, ColumnOf(outputs, f).type)
      /\ made = DigestedRows(rows)
      /\ CanonicalRows(rows, outputs) = Fine(made)
  BY <1>1 DEF CanonicalRows, Refused
<1>3. CanonicalRows(rows, outputs).rows = made
  BY <1>2 DEF Fine
<1>4. DOMAIN made = DOMAIN rows /\ \A i \in DOMAIN rows : DOMAIN made[i] = DOMAIN rows[i]
  BY <1>1 DEF BundledRows
<1>5. \A i \in DOMAIN rows : \A f \in DOMAIN rows[i] :
         made[i][f].value = JsonValue(rows[i][f].value, ColumnOf(outputs, f).type)
  BY <1>1 DEF BundledRows
<1>6. \A i \in DOMAIN rows : \A f \in DOMAIN rows[i] :
         made[i][f].value = DigestableValue(rows[i][f].value)
  BY <1>2 DEF DigestedRows
<1>7. ASSUME NEW i \in DOMAIN rows, NEW k \in DOMAIN outputs
      PROVE  ValidValue(made[i][outputs[k].name].value, outputs[k].type, outputs[k].nullable)
  <2>1. PICK f : f = outputs[k].name
    OBVIOUS
  <2>2. f \in DOMAIN rows[i]
    BY <2>1 DEF Finished, Names
  <2>3. ColumnOf(outputs, f) = outputs[k]
    BY <2>1, OneColumn DEF Finished
  <2>4. PICK v : v = rows[i][f].value
    OBVIOUS
  <2>5. GoodValue(v)
    BY <2>2, <2>4 DEF Finished, GoodRows, GoodCell
  <2>6. IF v = Null THEN outputs[k].nullable ELSE MatchesType(v, outputs[k].type)
    <3>1. CellRefusal(rows[i][f], outputs[k]) = "ok"
      BY <2>1 DEF Finished
    <3> QED BY <3>1, <2>4 DEF CellRefusal
  <2>7. InDomain(v, outputs[k].type)
    BY <1>2, <2>2, <2>3, <2>4
  <2>8. JsonValue(v, outputs[k].type) = DigestableValue(v)
    BY <1>5, <1>6, <2>2, <2>3, <2>4
  <2>9. ValidValue(JsonValue(v, outputs[k].type), outputs[k].type, outputs[k].nullable)
    BY <2>5, <2>6, <2>7, <2>8, BundledValueValid
  <2> QED BY <2>9, <1>5, <2>1, <2>2, <2>3, <2>4
<1>8. BigquerySchema(outputs)
  BY <1>2 DEF OutputDeclarations, BigquerySchema
<1> QED BY <1>3, <1>4, <1>7, <1>8 DEF ValidateBundleDocument, Finished

-----------------------------------------------------------------------------
(* The planner's gate and the interpreter. *)

\* f holds the fields the gate expects after each of the first n operations.
Expected(f, ops, rows, n) ==
    f = [k \in 0 .. n |-> IF k = 0 THEN Fine(BatchFieldNames(rows))
                          ELSE DraftStep(f[k-1], ops[k])]

\* The fields expected after each operation of a draft form a function.
LEMMA ExpectedExists ==
    ASSUME NEW ops, NEW rows, NEW n \in Nat
    PROVE  \E f : Expected(f, ops, rows, n)
<1> DEFINE T == {m \in Nat : ~ \E f : Expected(f, ops, rows, m)}
<1> SUFFICES ASSUME T # {} PROVE FALSE
  OBVIOUS
<1>1. PICK m \in T : \A k \in T : m <= k
  BY LeastNumber
<1>2. CASE m = 0
  <2>1. Expected([k \in 0 .. 0 |-> Fine(BatchFieldNames(rows))], ops, rows, 0)
    BY DEF Expected
  <2> QED BY <2>1, <1>2
<1>3. CASE m # 0
  <2>1. m - 1 \in Nat /\ m - 1 \notin T
    BY <1>1, <1>3
  <2>2. PICK f : Expected(f, ops, rows, m - 1)
    BY <2>1
  <2> DEFINE g == [k \in 0 .. m |-> IF k = m THEN DraftStep(f[m-1], ops[m]) ELSE f[k]]
  <2>3. \A k \in 0 .. m - 1 : g[k] = f[k]
    BY <2>1
  <2>4. \A k \in 0 .. m : g[k] = IF k = 0 THEN Fine(BatchFieldNames(rows))
                                 ELSE DraftStep(g[k-1], ops[k])
    BY <2>1, <2>2, <2>3, <1>3 DEF Expected
  <2>5. Expected(g, ops, rows, m)
    BY <2>4 DEF Expected
  <2> QED BY <2>5
<1> QED BY <1>2, <1>3

\* DraftFields is the last value of that function.
LEMMA DraftFieldsFolds ==
    ASSUME NEW draft, NEW rows, Len(draft.ops) \in Nat
    PROVE  \E f : /\ Expected(f, draft.ops, rows, Len(draft.ops))
                  /\ DraftFields(draft, rows) = f[Len(draft.ops)]
<1>1. PICK f : Expected(f, draft.ops, rows, Len(draft.ops))
  BY ExpectedExists
<1> DEFINE g == CHOOSE h : h = [k \in 0 .. Len(draft.ops) |->
                     IF k = 0 THEN Fine(BatchFieldNames(rows))
                     ELSE DraftStep(h[k-1], draft.ops[k])]
<1>2. Expected(g, draft.ops, rows, Len(draft.ops))
  BY <1>1 DEF Expected
<1>3. DraftFields(draft, rows) = g[Len(draft.ops)]
  BY DEF DraftFields
<1> QED BY <1>2, <1>3

\* What a cast may answer.
CastRefusals == {"tokenized_type_change", "invalid_cast", "nonfinite_numeric"}

\* As long as the gate accepts, the interpreter has refused a cast or holds
\* records, one at least, of exactly the fields the gate expects.
Agree(d, h) ==
    d.code = "ok" =>
      \/ h.code \in CastRefusals
      \/ /\ h.code = "ok" /\ DOMAIN h.rows # {} /\ DOMAIN h.rows \subseteq Nat
         /\ \A i \in DOMAIN h.rows : DOMAIN h.rows[i] = d.rows

\* One operation keeps the planner's view of the fields and the interpreter's
\* the same.
LEMMA StepsAgree ==
    ASSUME NEW d, NEW h, NEW o, Agree(d, h)
    PROVE  Agree(DraftStep(d, o), Handle(h, o))
<1>1. SUFFICES ASSUME DraftStep(d, o).code = "ok"
               PROVE  Agree(DraftStep(d, o), Handle(h, o))
  BY DEF Agree
<1>2. /\ d.code = "ok" /\ o.op \in {"rename", "cast", "drop"} /\ o.field \in d.rows
      /\ o.op = "rename" => o.to \notin d.rows
  BY <1>1 DEF DraftStep, Refused
<1>3. CASE h.code \in CastRefusals
  <2>1. Handle(h, o) = h
    BY <1>3 DEF Handle, CastRefusals
  <2> QED BY <2>1, <1>3 DEF Agree
<1>4. CASE h.code \notin CastRefusals
  <2>1. /\ h.code = "ok" /\ DOMAIN h.rows # {} /\ DOMAIN h.rows \subseteq Nat
        /\ \A i \in DOMAIN h.rows : DOMAIN h.rows[i] = d.rows
    BY <1>2, <1>4 DEF Agree
  <2>2. RequireField(h.rows, o.field)
    <3>1. h.rows # <<>>
      BY <2>1
    <3> QED BY <3>1, <2>1, <1>2 DEF RequireField
  <2>3. CASE o.op = "rename"
    <3>1. DraftStep(d, o).rows = (d.rows \ {o.field}) \cup {o.to}
      BY <1>2, <2>3 DEF DraftStep, Fine
    <3>2. Handle(h, o) = Fine([i \in DOMAIN h.rows |->
                    [f \in (DOMAIN h.rows[i] \ {o.field}) \cup {o.to} |->
                        IF f = o.to THEN h.rows[i][o.field] ELSE h.rows[i][f]]])
      BY <1>2, <2>1, <2>2, <2>3 DEF Handle, Rename
    <3> QED BY <3>1, <3>2, <2>1 DEF Agree, Fine
  <2>4. CASE o.op = "drop"
    <3>1. DraftStep(d, o).rows = d.rows \ {o.field}
      BY <1>2, <2>4 DEF DraftStep, Fine
    <3>2. Handle(h, o) = Fine([i \in DOMAIN h.rows |->
                    [f \in DOMAIN h.rows[i] \ {o.field} |-> h.rows[i][f]]])
      BY <2>1, <2>2, <2>4 DEF Handle, Drop
    <3> QED BY <3>1, <3>2, <2>1 DEF Agree, Fine
  <2>5. CASE o.op = "cast"
    <3>1. DraftStep(d, o) = d
      BY <1>2, <2>5 DEF DraftStep
    <3>2. Handle(h, o) = Cast(h.rows, o)
      BY <2>1, <2>5 DEF Handle
    <3>3. PICK rows : rows = h.rows
      OBVIOUS
    <3>4. \/ \E code \in CastRefusals : Handle(h, o) = Refused(code)
          \/ Handle(h, o) = Fine([i \in DOMAIN h.rows |->
                               [h.rows[i] EXCEPT ![o.field] = CastCell(@, o)]])
      <4>1. \A c : CastRefusal(c, o) \in {"ok"} \cup CastRefusals
        BY DEF CastRefusal, CastRefusals
      <4> QED BY <4>1, <2>1, <2>2, <3>2, <3>3, CastAnswers
    <3> QED BY <3>1, <3>4, <2>1 DEF Agree, Fine, Refused
  <2> QED BY <1>2, <2>3, <2>4, <2>5
<1> QED BY <1>3, <1>4

\* A draft the planner admits comes to its end, or to a cast that is refused,
\* and never fails on its operations or on the names of its fields.
LEMMA AdmittedDraftExecutes ==
    ASSUME NEW draft, PlanTyped(draft), NEW rows, DOMAIN rows # {}, DOMAIN rows \subseteq Nat,
           \A i \in DOMAIN rows : DOMAIN rows[i] = DOMAIN rows[1],
           ValidateCloudDraft(draft, rows),
           NEW h, Handled(h, draft.ops, rows, Len(draft.ops))
    PROVE  LET end == h[Len(draft.ops)]
           IN  /\ Distinct(draft.outputs)
               /\ \/ end.code \in CastRefusals
                  \/ /\ end.code = "ok" /\ DOMAIN end.rows \subseteq Nat
                     /\ \A i \in DOMAIN end.rows : DOMAIN end.rows[i] = Names(draft.outputs)
<1> DEFINE n == Len(draft.ops)
<1>0. n \in Nat
  BY DEF PlanTyped, List
<1>1. Handled(h, draft.ops, rows, n)
  OBVIOUS
<1>2. PICK d : Expected(d, draft.ops, rows, n) /\ DraftFields(draft, rows) = d[n]
  BY <1>0, DraftFieldsFolds
<1> HIDE DEF n
<1>3. \A k \in 0 .. n : Agree(d[k], h[k])
  <2> DEFINE T == {m \in 0 .. n : ~Agree(d[m], h[m])}
  <2> SUFFICES ASSUME T # {} PROVE FALSE
    OBVIOUS
  <2>1. PICK m \in T : \A k \in T : m <= k
    <3>1. T \subseteq Nat
      BY <1>0
    <3> QED BY <3>1, LeastNumber
  <2>2. CASE m = 0
    <3>1. d[0] = Fine(DOMAIN rows[1]) /\ h[0] = Fine(rows)
      BY <1>0, <1>1, <1>2 DEF Handled, Expected, BatchFieldNames
    <3>2. Agree(d[0], h[0])
      BY <3>1 DEF Agree, Fine
    <3> QED BY <3>2, <2>2
  <2>3. CASE m # 0
    <3>1. m - 1 \in 0 .. n /\ m - 1 \notin T
      BY <1>0, <2>1, <2>3
    <3>2. d[m] = DraftStep(d[m-1], draft.ops[m]) /\ h[m] = Handle(h[m-1], draft.ops[m])
      BY <1>0, <1>1, <1>2, <2>3 DEF Handled, Expected
    <3>3. Agree(d[m-1], h[m-1])
      BY <3>1
    <3>4. Agree(d[m], h[m])
      BY <3>2, <3>3, StepsAgree
    <3> QED BY <3>4
  <2> QED BY <2>2, <2>3
<1>4. /\ d[n].code = "ok" /\ d[n].rows = Names(draft.outputs) /\ Distinct(draft.outputs)
  BY <1>2 DEF ValidateCloudDraft
<1>5. PICK acc : acc = h[n]
  OBVIOUS
<1>6. Agree(d[n], acc)
  BY <1>0, <1>3, <1>5
<1> QED BY <1>4, <1>5, <1>6 DEF Agree, n

-----------------------------------------------------------------------------
(* The edge. *)

\* What the edge hands over: records of the same fields, one at least, with
\* good values and tokens.
Handover(rows) ==
    /\ DOMAIN rows # {}
    /\ \A i \in DOMAIN rows : DOMAIN rows[i] = DOMAIN rows[1]
    /\ GoodRows(rows) /\ Tokens(rows)

\* What the edge lets through is fit for the planner; its last check never
\* refuses.
LEMMA EdgeHandsOver ==
    ASSUME NEW d \in Decodings, NEW reviewed \in BOOLEAN
    PROVE  LET out == EdgeArtifacts(d, reviewed)
           IN  /\ out.code # "sanitized_output"
               /\ out.code = "ok" => Handover(out.rows)
<1>0. /\ Len(d) \in Nat /\ DOMAIN d = 1 .. Len(d)
      /\ \A i \in DOMAIN d : \A f \in DOMAIN d[i] : DecodedValue(d[i][f].value)
  BY DataAssumption DEF List
<1>1. PICK s : s = Sanitized(d)
  OBVIOUS
<1>2. CASE s.code # "ok"
  <2>1. s.code = "redaction"
    BY <1>1, <1>2 DEF Sanitized, Refused, Fine
  <2> QED BY <2>1, <1>1 DEF EdgeArtifacts
<1>3. CASE s.code = "ok"
  <2>1. s.rows = [i \in DOMAIN d |-> [f \in DOMAIN d[i] |-> Sanitize(i, f, d[i][f])]]
    BY <1>1, <1>3 DEF Sanitized, Refused, Fine
  <2>2. ASSUME NEW i \in DOMAIN d, NEW f \in DOMAIN d[i]
        PROVE  s.rows[i][f] =
                 IF d[i][f].category = "public"
                 THEN [protection |-> "sanitized", value |-> d[i][f].value]
                 ELSE [protection |-> "tokenized", value |-> Token(i, f, d[i][f].value)]
    BY <2>1 DEF Sanitize
  <2>3. \A i, f, v : Token(i, f, v).t = "str" /\ Token(i, f, v).mac # <<>> /\ Token(i, f, v).x = v.x
    BY DEF Token
  <2>4. Len(s.rows) = Len(d) /\ DOMAIN s.rows = DOMAIN d
    BY <2>1, <1>0
  <2>5. \A i \in DOMAIN d : DOMAIN s.rows[i] = DOMAIN d[i]
    BY <2>1
  <2>6. ValidSanitizedOutput(d, s.rows)
    <3>1. ASSUME NEW i \in DOMAIN d, NEW f \in DOMAIN d[i], d[i][f].category # "public"
          PROVE  /\ s.rows[i][f].protection = "tokenized"
                 /\ s.rows[i][f].value.t = "str" /\ s.rows[i][f].value.mac # <<>>
      <4>1. PICK w : w = Token(i, f, d[i][f].value)
        OBVIOUS
      <4>2. s.rows[i][f] = [protection |-> "tokenized", value |-> w]
        BY <4>1, <3>1, <2>2
      <4>3. w.t = "str" /\ w.mac # <<>>
        BY <4>1, <2>3
      <4> QED BY <4>2, <4>3
    <3> QED BY <2>2, <3>1, <2>4, <2>5 DEF ValidSanitizedOutput
  <2>7. EdgeArtifacts(d, reviewed).code # "sanitized_output"
    BY <1>1, <1>3, <2>6 DEF EdgeArtifacts, Refused
  <2>8. ASSUME EdgeArtifacts(d, reviewed).code = "ok"
        PROVE  Uniform(d) /\ EdgeArtifacts(d, reviewed) = s
    BY <1>1, <1>3, <2>8 DEF EdgeArtifacts, Refused
  <2>9. ASSUME Uniform(d) PROVE Handover(s.rows)
    <3>1. 1 \in DOMAIN d
      BY <2>9, <1>0 DEF Uniform
    <3>2. ASSUME NEW i \in DOMAIN d PROVE DOMAIN d[i] = DOMAIN d[1]
      <4>1. SchemaDescriptor(d[i]) = SchemaDescriptor(d[1])
        BY <2>9 DEF Uniform
      <4>2. DOMAIN SchemaDescriptor(d[i]) = DOMAIN d[i] /\ DOMAIN SchemaDescriptor(d[1]) = DOMAIN d[1]
        BY DEF SchemaDescriptor
      <4> QED BY <4>1, <4>2
    <3>3. ASSUME NEW i \in DOMAIN d, NEW f \in DOMAIN d[i]
          PROVE  /\ GoodCell(s.rows[i][f])
                 /\ s.rows[i][f].protection = "tokenized" => s.rows[i][f].value.mac # <<>>
      <4>1. d[i][f].value.t \in ScalarTypes /\ DecodedValue(d[i][f].value)
        BY <1>0, <2>9 DEF Uniform
      <4>2. CASE d[i][f].category = "public"
        <5>1. PICK v : v = d[i][f].value
          OBVIOUS
        <5>2. GoodValue(v)
          BY <5>1, <4>1, DecodedIsGood
        <5>3. s.rows[i][f] = [protection |-> "sanitized", value |-> v]
          BY <5>1, <4>2, <2>2
        <5> QED BY <5>2, <5>3 DEF GoodCell
      <4>3. CASE d[i][f].category # "public"
        <5>1. GoodValue(Token(i, f, d[i][f].value))
          BY <2>3, <4>1 DEF GoodValue, DecodedValue
        <5>2. PICK w : w = Token(i, f, d[i][f].value)
          OBVIOUS
        <5>3. s.rows[i][f] = [protection |-> "tokenized", value |-> w] /\ w.mac # <<>>
          BY <5>2, <4>3, <2>2, <2>3
        <5> QED BY <5>1, <5>2, <5>3 DEF GoodCell
      <4> QED BY <4>2, <4>3
    <3>4. DOMAIN s.rows \subseteq Nat
      BY <1>0, <2>4
    <3> QED BY <3>1, <3>2, <3>3, <3>4, <2>4, <2>5 DEF Handover, GoodRows, Tokens
  <2> QED BY <2>7, <2>8, <2>9
<1> QED BY <1>2, <1>3

-----------------------------------------------------------------------------
(* The stages of a source. *)

\* What every stage may rely on.
StageSound(k) ==
    /\ k = [at |-> k.at, decoded |-> k.decoded, draft |-> k.draft, out |-> k.out]
    /\ k.at \in {"edge", "planned", "executed", "bundled", "loaded"}
    /\ k.at = "edge" =>
         /\ k.out.code # "sanitized_output"
         /\ k.out.code = "ok" => Handover(k.out.rows)
    /\ k.at # "edge" => k.draft \in Candidates
    /\ k.at = "planned" =>
         k.out.code = "ok" /\ Handover(k.out.rows) /\ ValidateCloudDraft(k.draft, k.out.rows)
    /\ k.at = "executed" /\ k.out.code = "ok" =>
         Finished(k.out.rows, k.draft.outputs) /\ Tokens(k.out.rows)
    /\ k.at = "bundled" =>
         /\ k.out.code # "cloud_token"
         /\ k.out.code = "ok" => ValidateBundleDocument(k.out.rows, k.draft.outputs)
    /\ k.at = "loaded" => k.out.code = "ok"

DeskInv == desk \in {Empty, Saved} \/ StageSound(desk)

\* A stage writes where the source is and what came out, and nothing else.
LEMMA StageStep ==
    ASSUME NEW k, StageSound(k), NEW at, NEW out
    PROVE  [k EXCEPT !.at = at, !.out = out] =
             [at |-> at, decoded |-> k.decoded, draft |-> k.draft, out |-> out]
<1>1. PICK decoded, draft : decoded = k.decoded /\ draft = k.draft
  OBVIOUS
<1>2. PICK at0, out0 : k = [at |-> at0, decoded |-> decoded, draft |-> draft, out |-> out0]
  BY <1>1 DEF StageSound
<1>3. PICK k1 : k1 = [k EXCEPT !.at = at]
  OBVIOUS
<1>4. k1 = [at |-> at, decoded |-> decoded, draft |-> draft, out |-> out0]
  BY <1>2, <1>3
<1>5. [k1 EXCEPT !.out = out] = [at |-> at, decoded |-> decoded, draft |-> draft, out |-> out]
  BY <1>4
<1>6. [k EXCEPT !.at = at, !.out = out] = [k1 EXCEPT !.out = out]
  BY <1>3
<1> QED BY <1>1, <1>5, <1>6

\* A source that goes on from a stage left it sound and unrefused.
LEMMA GoingIsStaged ==
    ASSUME DeskInv, NEW at \in {"edge", "planned", "executed", "bundled"}, Going(at)
    PROVE  StageSound(desk) /\ desk.at = at /\ desk.out.code = "ok"
BY DEF DeskInv, Going, Empty, Saved

\* Every step keeps what is said of the source on the desk.
LEMMA DeskStep ==
    ASSUME DeskInv, [Next]_vars
    PROVE  DeskInv'
<1>1. CASE UNCHANGED desk
  BY <1>1 DEF DeskInv, StageSound
<1>2. CASE Save
  BY <1>2 DEF Save, DeskInv
<1>3. CASE Edge
  <2>1. PICK d \in Decodings, reviewed \in BOOLEAN :
          desk' = [at |-> "edge", decoded |-> d, draft |-> Empty,
                   out |-> EdgeArtifacts(d, reviewed)]
    BY <1>3 DEF Edge
  <2>2. PICK out : out = EdgeArtifacts(d, reviewed)
    OBVIOUS
  <2>3. out.code # "sanitized_output" /\ (out.code = "ok" => Handover(out.rows))
    BY <2>2, EdgeHandsOver
  <2> QED BY <2>1, <2>2, <2>3 DEF DeskInv, StageSound
<1>4. CASE Plan
  <2>1. StageSound(desk) /\ desk.at = "edge" /\ desk.out.code = "ok"
    BY <1>4, GoingIsStaged DEF Plan
  <2>2. PICK draft \in Candidates :
          /\ ValidateCloudDraft(draft, desk.out.rows)
          /\ desk' = [desk EXCEPT !.at = "planned", !.draft = draft]
    BY <1>4 DEF Plan
  <2>3. desk' = [at |-> "planned", decoded |-> desk.decoded, draft |-> draft, out |-> desk.out]
    BY <2>1, <2>2 DEF StageSound
  <2>4. Handover(desk.out.rows)
    BY <2>1 DEF StageSound
  <2> QED BY <2>1, <2>2, <2>3, <2>4 DEF DeskInv, StageSound
<1>5. CASE Execute
  <2>1. StageSound(desk) /\ desk.at = "planned" /\ desk.out.code = "ok"
    BY <1>5, GoingIsStaged DEF Execute
  <2>2. PICK out : out = ExecutePlan(desk.draft, desk.out.rows)
    OBVIOUS
  <2>3. desk' = [at |-> "executed", decoded |-> desk.decoded, draft |-> desk.draft, out |-> out]
    BY <1>5, <2>1, <2>2, StageStep DEF Execute, Stage
  <2>4. /\ Handover(desk.out.rows) /\ ValidateCloudDraft(desk.draft, desk.out.rows)
        /\ desk.draft \in Candidates
    BY <2>1 DEF StageSound
  <2>5. PlanTyped(desk.draft)
    BY <2>4, DataAssumption
  <2>6. out.code = "ok" => Finished(out.rows, desk.draft.outputs) /\ Tokens(out.rows)
    BY <2>2, <2>4, <2>5, ExecutePlanFinishes DEF Handover
  <2> QED BY <2>3, <2>4, <2>6 DEF DeskInv, StageSound
<1>6. CASE Package
  <2>1. StageSound(desk) /\ desk.at = "executed" /\ desk.out.code = "ok"
    BY <1>6, GoingIsStaged DEF Package
  <2>2. PICK out : out = CanonicalRows(desk.out.rows, desk.draft.outputs)
    OBVIOUS
  <2>3. desk' = [at |-> "bundled", decoded |-> desk.decoded, draft |-> desk.draft, out |-> out]
    BY <1>6, <2>1, <2>2, StageStep DEF Package, Stage
  <2>4. /\ Finished(desk.out.rows, desk.draft.outputs) /\ Tokens(desk.out.rows)
        /\ desk.draft \in Candidates
    BY <2>1 DEF StageSound
  <2>5. PlanTyped(desk.draft)
    BY <2>4, DataAssumption
  <2>6. out.code # "cloud_token"
    BY <2>2, <2>4 DEF CanonicalRows, Refused, Fine, Tokens
  <2>7. out.code = "ok" => ValidateBundleDocument(out.rows, desk.draft.outputs)
    BY <2>2, <2>4, <2>5, BundleLoads DEF PlanTyped
  <2> QED BY <2>3, <2>4, <2>6, <2>7 DEF DeskInv, StageSound
<1>7. CASE Receive
  <2>1. StageSound(desk) /\ desk.at = "bundled" /\ desk.out.code = "ok"
    BY <1>7, GoingIsStaged DEF Receive
  <2>2. ValidateBundleDocument(desk.out.rows, desk.draft.outputs)
    BY <2>1 DEF StageSound
  <2>3. desk' = [at |-> "loaded", decoded |-> desk.decoded, draft |-> desk.draft, out |-> desk.out]
    BY <1>7, <2>1, <2>2, StageStep DEF Receive, Stage
  <2>4. desk.draft \in Candidates
    BY <2>1 DEF StageSound
  <2> QED BY <2>1, <2>3, <2>4 DEF DeskInv, StageSound
<1> QED
  <2>1. Next \/ UNCHANGED desk
    BY DEF vars
  <2>2. Prepare \/ UNCHANGED desk
    BY <2>1 DEF Next
  <2> QED BY <2>2, <1>1, <1>2, <1>3, <1>4, <1>5, <1>6, <1>7 DEF Prepare, DataPath

-----------------------------------------------------------------------------
(* Where the fields come from. *)

\* l holds the lineage of a record after each of the first n operations.
Lined(l, ops, record, n) ==
    l = [k \in 0 .. n |-> IF k = 0 THEN FirstLineage(record) ELSE LineageStep(l[k-1], ops[k])]

\* The lineage of a record's fields through a draft forms a function.
LEMMA LinedExists ==
    ASSUME NEW ops, NEW record, NEW n \in Nat
    PROVE  \E l : Lined(l, ops, record, n)
<1> DEFINE T == {m \in Nat : ~ \E l : Lined(l, ops, record, m)}
<1> SUFFICES ASSUME T # {} PROVE FALSE
  OBVIOUS
<1>1. PICK m \in T : \A k \in T : m <= k
  BY LeastNumber
<1>2. CASE m = 0
  <2>1. Lined([k \in 0 .. 0 |-> FirstLineage(record)], ops, record, 0)
    BY DEF Lined
  <2> QED BY <2>1, <1>2
<1>3. CASE m # 0
  <2>1. m - 1 \in Nat /\ m - 1 \notin T
    BY <1>1, <1>3
  <2>2. PICK l : Lined(l, ops, record, m - 1)
    BY <2>1
  <2> DEFINE g == [k \in 0 .. m |-> IF k = m THEN LineageStep(l[m-1], ops[m]) ELSE l[k]]
  <2>3. \A k \in 0 .. m - 1 : g[k] = l[k]
    BY <2>1
  <2>4. \A k \in 0 .. m : g[k] = IF k = 0 THEN FirstLineage(record)
                                 ELSE LineageStep(g[k-1], ops[k])
    BY <2>1, <2>2, <2>3, <1>3 DEF Lined
  <2>5. Lined(g, ops, record, m)
    BY <2>4 DEF Lined
  <2> QED BY <2>5
<1> QED BY <1>2, <1>3

\* Lineages is that function.
LEMMA LineageFolds ==
    ASSUME NEW draft, NEW record, Len(draft.ops) \in Nat
    PROVE  Lined(Lineages(draft, record), draft.ops, record, Len(draft.ops))
<1>1. PICK l : Lined(l, draft.ops, record, Len(draft.ops))
  BY LinedExists
<1> DEFINE g == CHOOSE h : h = [k \in 0 .. Len(draft.ops) |->
                     IF k = 0 THEN FirstLineage(record)
                     ELSE LineageStep(h[k-1], draft.ops[k])]
<1>2. Lined(g, draft.ops, record, Len(draft.ops))
  BY <1>1 DEF Lined
<1>3. Lineages(draft, record) = g
  BY DEF Lineages
<1> QED BY <1>2, <1>3

\* A cell of record i carries the decoded field its lineage names: the token of
\* it, or its value put through the casts, clean, or null.
Carries(c, i, record, from) ==
    IF record[from.from].category = "public"
    THEN /\ c.protection # "tokenized" /\ c.value.mac = <<>> /\ c.value.x \notin Residual
         /\ c.value = Null \/ (c.value.t = from.value.t /\ c.value.x = from.value.x)
    ELSE c = [protection |-> "tokenized", value |-> Token(i, from.from, record[from.from].value)]

CarriedRow(row, i, record, lineage) ==
    \A f \in DOMAIN row :
      /\ f \in DOMAIN lineage /\ lineage[f].from \in DOMAIN record
      /\ lineage[f] = [from |-> lineage[f].from, value |-> lineage[f].value]
      /\ Carries(row[f], i, record, lineage[f])

\* A cast makes no address of what is none.
LEMMA CastTextClean ==
    ASSUME NEW v, NEW type \in Types, GoodValue(v), v # Null, Castable(v, type),
           v.x \notin Residual
    PROVE  CastText(v.x, type) \notin Residual
<1>0. /\ v.x \in Texts
      /\ v.t \in {"int", "float"} => "decimal" \in Reads[v.x]
      /\ v.t = "decimal" => "decimal" \in Reads[v.x]
      /\ v.t = "date" => "date" \in Reads[v.x]
      /\ v.t = "timestamp" => "timestamp" \in Reads[v.x]
  BY DEF GoodValue
<1>1. CASE type \in {"decimal", "date", "timestamp"}
  <2>1. type \in Reads[v.x]
    BY <1>0, <1>1 DEF Castable
  <2>2. CastText(v.x, type) = Written[type][v.x]
    BY <1>1 DEF CastText
  <2>3. PICK x \in Texts : x = v.x
    BY <1>0
  <2>4. type \in Reads[x] => Written[type][x] \notin Residual
    BY <1>1, TextAssumption
  <2> QED BY <2>1, <2>2, <2>3, <2>4
<1>2. CASE type = "integer"
  <2>1. "decimal" \in Reads[v.x]
    BY <1>0, <1>2, TextAssumption DEF Castable
  <2> QED BY <1>0, <1>2, <2>1, TextAssumption DEF CastText
<1>3. CASE type = "boolean"
  BY <1>3, TextAssumption DEF CastText, Truth
<1>4. CASE type \in {"string", "bytes"}
  BY <1>4 DEF CastText
<1> QED BY <1>1, <1>2, <1>3, <1>4 DEF Types

\* A cast keeps what a cell carries.
LEMMA CastCarries ==
    ASSUME NEW c, GoodCell(c), NEW i, NEW record, NEW g, NEW u,
           Carries(c, i, record, [from |-> g, value |-> u]), NEW o, o.type \in Types
    PROVE  Carries(CastCell(c, o), i, record, [from |-> g, value |-> CastValue(u, o.type)])
<1>1. PICK from, next : /\ from = [from |-> g, value |-> u]
                        /\ next = [from |-> g, value |-> CastValue(u, o.type)]
  OBVIOUS
<1>2. PICK made : made = CastValue(u, o.type)
  OBVIOUS
<1>3. made.t = PyType(o.type) /\ made.x = CastText(u.x, o.type)
  BY <1>2 DEF CastValue, Plain
<1>4. from.from = g /\ from.value = u /\ next.from = g /\ next.value = made
  BY <1>1, <1>2
<1>5. Carries(c, i, record, from)
  BY <1>1
<1>6. Carries(CastCell(c, o), i, record, next)
  <2>1. CASE record[g].category # "public"
    <3>1. c = [protection |-> "tokenized", value |-> Token(i, g, record[g].value)]
      BY <1>4, <1>5, <2>1 DEF Carries
    <3>2. CastCell(c, o) = c
      BY <3>1 DEF CastCell
    <3> QED BY <3>1, <3>2, <1>4, <2>1 DEF Carries
  <2>2. CASE record[g].category = "public"
    <3>1. /\ c.protection # "tokenized" /\ c.value.mac = <<>> /\ c.value.x \notin Residual
          /\ c.value = Null \/ (c.value.t = u.t /\ c.value.x = u.x)
      BY <1>4, <1>5, <2>2 DEF Carries
    <3>2. CASE c.value = Null
      <4>1. CastCell(c, o) = c
        BY <3>2 DEF CastCell
      <4> QED BY <4>1, <3>1, <3>2, <1>4, <2>2 DEF Carries
    <3>3. CASE c.value # Null
      <4>1. PICK v : v = IF Castable(c.value, o.type) THEN CastValue(c.value, o.type) ELSE Null
        OBVIOUS
      <4>2. CastCell(c, o) = [c EXCEPT !.value = v]
        BY <3>1, <3>3, <4>1 DEF CastCell
      <4>3. CastCell(c, o) = [protection |-> c.protection, value |-> v]
        BY <4>2 DEF GoodCell
      <4>4. CASE Castable(c.value, o.type)
        <5>1. v.mac = <<>> /\ v.t = PyType(o.type) /\ v.x = CastText(c.value.x, o.type)
          BY <4>1, <4>4 DEF CastValue, Plain
        <5>2. v.x \notin Residual
          BY <5>1, <4>4, <3>1, <3>3, CastTextClean DEF GoodCell
        <5>3. v.t = made.t /\ v.x = made.x
          BY <5>1, <3>1, <3>3, <1>3
        <5> QED BY <5>1, <5>2, <5>3, <4>3, <3>1, <1>4, <2>2 DEF Carries
      <4>5. CASE ~Castable(c.value, o.type)
        <5>1. v = Null /\ v.mac = <<>> /\ v.x \notin Residual
          BY <4>1, <4>5, TextAssumption DEF Null
        <5> QED BY <5>1, <4>3, <3>1, <1>4, <2>2 DEF Carries
      <4> QED BY <4>4, <4>5
    <3> QED BY <3>2, <3>3
  <2> QED BY <2>1, <2>2
<1> QED BY <1>1, <1>6

\* One operation keeps what a row carries.
LEMMA HandleCarries ==
    ASSUME NEW acc, NEW o, o.op = "cast" => o.type \in Types,
           acc.code = "ok", GoodRows(acc.rows), Handle(acc, o).code = "ok",
           NEW i \in DOMAIN acc.rows, NEW record, NEW lineage,
           CarriedRow(acc.rows[i], i, record, lineage)
    PROVE  CarriedRow(Handle(acc, o).rows[i], i, record, LineageStep(lineage, o))
<1>1. PICK row : row = acc.rows[i]
  OBVIOUS
<1>2. CASE o.op = "rename"
  <2>1. /\ RequireField(acc.rows, o.field)
        /\ Handle(acc, o) = Fine([j \in DOMAIN acc.rows |->
                    [f \in (DOMAIN acc.rows[j] \ {o.field}) \cup {o.to} |->
                        IF f = o.to THEN acc.rows[j][o.field] ELSE acc.rows[j][f]]])
    BY <1>2 DEF Handle, Rename, Refused
  <2>2. Handle(acc, o).rows[i] = [f \in (DOMAIN row \ {o.field}) \cup {o.to} |->
                                    IF f = o.to THEN row[o.field] ELSE row[f]]
    BY <2>1, <1>1 DEF Fine
  <2>3. o.field \in DOMAIN row
    BY <2>1, <1>1 DEF RequireField
  <2>4. LineageStep(lineage, o) = [f \in DOMAIN lineage \cup {o.to} |->
                                     IF f = o.to THEN lineage[o.field] ELSE lineage[f]]
    BY <1>2 DEF LineageStep
  <2>5. PICK row2, lineage2 : row2 = Handle(acc, o).rows[i] /\ lineage2 = LineageStep(lineage, o)
    OBVIOUS
  <2>6. ASSUME NEW f \in DOMAIN row2
        PROVE  /\ f \in DOMAIN lineage2 /\ lineage2[f].from \in DOMAIN record
               /\ lineage2[f] = [from |-> lineage2[f].from, value |-> lineage2[f].value]
               /\ Carries(row2[f], i, record, lineage2[f])
    <3>1. PICK e : e = IF f = o.to THEN o.field ELSE f
      OBVIOUS
    <3>2. e \in DOMAIN row /\ row2[f] = row[e]
      BY <2>2, <2>3, <2>5, <3>1
    <3>3. /\ e \in DOMAIN lineage /\ lineage[e].from \in DOMAIN record
          /\ lineage[e] = [from |-> lineage[e].from, value |-> lineage[e].value]
          /\ Carries(row[e], i, record, lineage[e])
      BY <1>1, <3>2 DEF CarriedRow
    <3>4. f \in DOMAIN lineage2 /\ lineage2[f] = lineage[e]
      BY <2>4, <2>5, <3>1, <3>3
    <3> QED BY <3>2, <3>3, <3>4
  <2> QED BY <2>5, <2>6 DEF CarriedRow
<1>3. CASE o.op = "drop"
  <2>1. Handle(acc, o) = Fine([j \in DOMAIN acc.rows |->
                    [f \in DOMAIN acc.rows[j] \ {o.field} |-> acc.rows[j][f]]])
    BY <1>3 DEF Handle, Drop, Refused
  <2>2. Handle(acc, o).rows[i] = [f \in DOMAIN row \ {o.field} |-> row[f]]
    BY <2>1, <1>1 DEF Fine
  <2>3. LineageStep(lineage, o) = lineage
    BY <1>3 DEF LineageStep
  <2> QED BY <1>1, <2>2, <2>3 DEF CarriedRow
<1>4. CASE o.op = "cast"
  <2>1. /\ RequireField(acc.rows, o.field)
        /\ Handle(acc, o) = Fine([j \in DOMAIN acc.rows |->
                     [acc.rows[j] EXCEPT ![o.field] = CastCell(@, o)]])
    BY <1>4 DEF Handle, Cast, Refused
  <2>2. Handle(acc, o).rows[i] = [row EXCEPT ![o.field] = CastCell(@, o)]
    BY <2>1, <1>1 DEF Fine
  <2>3. o.field \in DOMAIN row /\ GoodCell(row[o.field])
    BY <2>1, <1>1 DEF RequireField, GoodRows
  <2>4. LineageStep(lineage, o) = [lineage EXCEPT ![o.field].value = CastValue(@, o.type)]
    BY <1>4 DEF LineageStep
  <2>5. PICK g, u : g = lineage[o.field].from /\ u = lineage[o.field].value
    OBVIOUS
  <2>6. /\ o.field \in DOMAIN lineage /\ g \in DOMAIN record
        /\ lineage[o.field] = [from |-> g, value |-> u]
        /\ Carries(row[o.field], i, record, lineage[o.field])
    BY <1>1, <2>3, <2>5 DEF CarriedRow
  <2>7. PICK next : next = [from |-> g, value |-> CastValue(u, o.type)]
    OBVIOUS
  <2>8. Carries(CastCell(row[o.field], o), i, record, next)
    BY <2>3, <2>6, <2>7, <1>4, CastCarries
  <2>9. LineageStep(lineage, o) = [f \in DOMAIN lineage |->
                                     IF f = o.field THEN next ELSE lineage[f]]
    <3>1. PICK w : w = CastValue(u, o.type)
      OBVIOUS
    <3>2. lineage[o.field].value = u
      BY <2>5
    <3>3. LineageStep(lineage, o) = [lineage EXCEPT ![o.field] = [@ EXCEPT !.value = w]]
      BY <2>4, <3>1, <3>2
    <3>4. [lineage[o.field] EXCEPT !.value = w] = next
      BY <2>6, <2>7, <3>1
    <3> QED BY <3>3, <3>4
  <2>10. Handle(acc, o).rows[i] = [f \in DOMAIN row |->
                                     IF f = o.field THEN CastCell(row[o.field], o) ELSE row[f]]
    BY <2>2, <2>3
  <2>11. next.from \in DOMAIN record /\ next = [from |-> next.from, value |-> next.value]
    BY <2>6, <2>7
  <2>12. PICK row2, lineage2 : row2 = Handle(acc, o).rows[i] /\ lineage2 = LineageStep(lineage, o)
    OBVIOUS
  <2>13. ASSUME NEW f \in DOMAIN row2
         PROVE  /\ f \in DOMAIN lineage2 /\ lineage2[f].from \in DOMAIN record
                /\ lineage2[f] = [from |-> lineage2[f].from, value |-> lineage2[f].value]
                /\ Carries(row2[f], i, record, lineage2[f])
    <3>1. /\ f \in DOMAIN row /\ f \in DOMAIN lineage /\ lineage[f].from \in DOMAIN record
          /\ lineage[f] = [from |-> lineage[f].from, value |-> lineage[f].value]
          /\ Carries(row[f], i, record, lineage[f])
      BY <1>1, <2>10, <2>12, <2>13 DEF CarriedRow
    <3>2. f \in DOMAIN lineage2 /\ lineage2[f] = IF f = o.field THEN next ELSE lineage[f]
      BY ONLY <2>9, <2>12, <3>1
    <3>3. row2[f] = IF f = o.field THEN CastCell(row[o.field], o) ELSE row[f]
      BY ONLY <2>10, <2>12, <3>1
    <3>4. CASE f = o.field
      BY ONLY <3>2, <3>3, <3>4, <2>8, <2>11
    <3>5. CASE f # o.field
      BY ONLY <3>1, <3>2, <3>3, <3>5
    <3> QED BY ONLY <3>4, <3>5
  <2> QED BY ONLY <2>12, <2>13 DEF CarriedRow
<1>5. o.op \in {"rename", "drop", "cast"}
  BY DEF Handle, Refused
<1> QED BY <1>2, <1>3, <1>4, <1>5

\* So do all operations of a plan: at each of them a record's row carries the
\* record's fields.
LEMMA HandledCarries ==
    ASSUME NEW draft, PlanTyped(draft), NEW rows, GoodRows(rows),
           NEW h, Handled(h, draft.ops, rows, Len(draft.ops)),
           NEW i \in DOMAIN rows, NEW record,
           CarriedRow(rows[i], i, record, FirstLineage(record))
    PROVE  \A k \in 0 .. Len(draft.ops) : h[k].code = "ok" =>
              CarriedRow(h[k].rows[i], i, record, Lineages(draft, record)[k])
<1> DEFINE n == Len(draft.ops)
<1>0. n \in Nat /\ DOMAIN draft.ops = 1 .. n
  BY DEF PlanTyped, List
<1>1. Handled(h, draft.ops, rows, n)
  OBVIOUS
<1>2. PICK l : Lined(l, draft.ops, record, n) /\ Lineages(draft, record) = l
  BY <1>0, LineageFolds
<1>3. \A k \in 0 .. n : Sound(h[k], rows)
  BY <1>1, HandledSound
<1> HIDE DEF n
<1> DEFINE P(k) == h[k].code = "ok" => CarriedRow(h[k].rows[i], i, record, l[k])
<1>4. \A k \in 0 .. n : P(k)
  <2> DEFINE T == {m \in 0 .. n : ~P(m)}
  <2> SUFFICES ASSUME T # {} PROVE FALSE
    OBVIOUS
  <2>1. PICK m \in T : \A k \in T : m <= k
    <3>1. T \subseteq Nat
      BY <1>0
    <3> QED BY <3>1, LeastNumber
  <2>2. CASE m = 0
    <3>1. h[0] = Fine(rows) /\ l[0] = FirstLineage(record)
      BY <1>0, <1>1, <1>2 DEF Handled, Lined
    <3>2. P(0)
      BY <3>1 DEF Fine
    <3> QED BY <3>2, <2>2
  <2>3. CASE m # 0
    <3>1. m - 1 \in 0 .. n /\ m - 1 \notin T /\ m \in DOMAIN draft.ops
      BY <1>0, <2>1, <2>3
    <3>2. h[m] = Handle(h[m-1], draft.ops[m]) /\ l[m] = LineageStep(l[m-1], draft.ops[m])
      BY <1>0, <1>1, <1>2, <2>3 DEF Handled, Lined
    <3>3. P(m-1)
      BY <3>1
    <3>4. ASSUME h[m].code = "ok" PROVE CarriedRow(h[m].rows[i], i, record, l[m])
      <4>1. PICK acc : acc = h[m-1]
        OBVIOUS
      <4>2. acc.code = "ok"
        BY <3>2, <3>4, <4>1 DEF Handle
      <4>3. GoodRows(acc.rows) /\ i \in DOMAIN acc.rows
        BY <1>3, <3>1, <4>1, <4>2 DEF Sound
      <4>4. CarriedRow(acc.rows[i], i, record, l[m-1])
        BY <3>3, <4>1, <4>2
      <4>5. draft.ops[m].op = "cast" => draft.ops[m].type \in Types
        BY <3>1 DEF PlanTyped
      <4> HIDE DEF P
      <4> QED BY <3>2, <3>4, <4>1, <4>2, <4>3, <4>4, <4>5, HandleCarries
    <3> QED BY <3>4
  <2> QED BY <2>2, <2>3
<1> QED BY <1>2, <1>4 DEF n

\* What a plan makes of a record's row carries the record's fields.
LEMMA ExecutePlanCarries ==
    ASSUME NEW draft, PlanTyped(draft), NEW rows, GoodRows(rows),
           ExecutePlan(draft, rows).code = "ok",
           NEW i \in DOMAIN rows, NEW record,
           CarriedRow(rows[i], i, record, FirstLineage(record))
    PROVE  CarriedRow(ExecutePlan(draft, rows).rows[i], i, record, Lineage(draft, record))
<1>0. Len(draft.ops) \in Nat
  BY DEF PlanTyped, List
<1>1. PICK h : /\ Handled(h, draft.ops, rows, Len(draft.ops))
               /\ ExecutePlan(draft, rows) = FinishRows(h[Len(draft.ops)], draft.outputs)
  BY <1>0, ExecutePlanFolds
<1>2. ExecutePlan(draft, rows) = h[Len(draft.ops)] /\ h[Len(draft.ops)].code = "ok"
  <2>1. PICK acc : acc = h[Len(draft.ops)]
    OBVIOUS
  <2> QED BY <1>1, <2>1 DEF FinishRows, Refused
<1> QED BY <1>0, <1>1, <1>2, HandledCarries DEF Lineage

\* A cell that carries a classified field holds a token, which is no null.
LEMMA ClassifiedIsToken ==
    ASSUME NEW c, NEW i, NEW record, NEW from, Carries(c, i, record, from)
    PROVE  /\ Classified(record, from) => c.protection = "tokenized" /\ c.value # Null
                                            /\ c.value.t = "str"
           /\ ~Classified(record, from) =>
                /\ c.protection # "tokenized"
                /\ c.value = Null \/ c.value.t = from.value.t
<1>1. CASE Classified(record, from)
  <2>1. PICK w : w = Token(i, from.from, record[from.from].value)
    OBVIOUS
  <2>2. c = [protection |-> "tokenized", value |-> w]
    BY <1>1, <2>1 DEF Carries, Classified
  <2>3. w.t = "str" /\ Null.t = "none"
    BY <2>1 DEF Token, Null
  <2> QED BY <1>1, <2>2, <2>3
<1>2. CASE ~Classified(record, from)
  BY <1>2 DEF Carries, Classified
<1> QED BY <1>1, <1>2

\* A refusal is never taken back: what is well at the end was well all along.
LEMMA WellAllAlong ==
    ASSUME NEW ops, NEW rows, NEW n \in Nat, NEW h, Handled(h, ops, rows, n), h[n].code = "ok"
    PROVE  \A k \in 0 .. n : h[k].code = "ok"
<1> DEFINE T == {m \in 0 .. n : h[n - m].code # "ok"}
<1> SUFFICES ASSUME T # {} PROVE FALSE
  <2>1. SUFFICES ASSUME NEW k \in 0 .. n, h[k].code # "ok" PROVE T # {}
    OBVIOUS
  <2>2. n - k \in 0 .. n /\ n - (n - k) = k
    OBVIOUS
  <2> QED BY <2>1, <2>2
<1>1. PICK m \in T : \A k \in T : m <= k
  <2>1. T \subseteq Nat
    OBVIOUS
  <2> QED BY <2>1, LeastNumber
<1>2. m # 0
  OBVIOUS
<1>3. PICK j : j = n - m
  OBVIOUS
<1>4. j \in 0 .. n /\ j + 1 \in 1 .. n /\ (j + 1) - 1 = j
  BY <1>2, <1>3
<1>5. h[j + 1] = Handle(h[j], ops[j + 1])
  BY <1>4 DEF Handled
<1>6. h[j + 1].code # "ok"
  <2>1. h[j].code # "ok"
    BY <1>1, <1>3
  <2> QED BY <2>1, <1>5 DEF Handle
<1>7. m - 1 \in 0 .. n /\ n - (m - 1) = j + 1
  BY <1>2, <1>3
<1> QED BY <1>1, <1>6, <1>7

\* A cast refuses with tokenized_type_change only a classified field, and never
\* lets one pass that gets another type.
LEMMA CastMindsTokens ==
    ASSUME NEW acc, acc.code = "ok", GoodRows(acc.rows), NEW o, NEW d, NEW lineage,
           DOMAIN acc.rows = DOMAIN d,
           \A i \in DOMAIN d : CarriedRow(acc.rows[i], i, d[i], lineage[i])
    PROVE  LET out     == Handle(acc, o)
               retyped == o.op = "cast" /\ o.type # "string"
           IN  /\ out.code = "tokenized_type_change" =>
                     retyped /\ \E i \in DOMAIN d : Classified(d[i], lineage[i][o.field])
               /\ out.code = "ok" /\ retyped =>
                     \A i \in DOMAIN d : ~Classified(d[i], lineage[i][o.field])
<1>1. CASE o.op # "cast"
  BY <1>1 DEF Handle, Rename, Drop, Refused, Fine
<1>2. CASE o.op = "cast" /\ ~RequireField(acc.rows, o.field)
  BY <1>2 DEF Handle, Cast, Refused
<1>3. CASE o.op = "cast" /\ RequireField(acc.rows, o.field)
  <2>1. PICK rows, out : rows = acc.rows /\ out = Handle(acc, o)
    OBVIOUS
  <2>2. out = Cast(rows, o)
    BY <1>3, <2>1 DEF Handle
  <2>3. ASSUME NEW i \in DOMAIN d
        PROVE  /\ CastRefusal(rows[i][o.field], o) = "tokenized_type_change" =>
                     o.type # "string" /\ Classified(d[i], lineage[i][o.field])
               /\ CastRefusal(rows[i][o.field], o) = "ok" /\ o.type # "string" =>
                     ~Classified(d[i], lineage[i][o.field])
    <3>1. PICK c, from : c = rows[i][o.field] /\ from = lineage[i][o.field]
      OBVIOUS
    <3>2. Carries(c, i, d[i], from)
      BY <1>3, <2>1, <3>1 DEF RequireField, CarriedRow
    <3>3. /\ Classified(d[i], from) => c.protection = "tokenized" /\ c.value # Null
          /\ ~Classified(d[i], from) => c.protection # "tokenized"
      BY <3>2, ClassifiedIsToken
    <3> QED BY <3>1, <3>3 DEF CastRefusal
  <2>4. DOMAIN rows \subseteq Nat /\ RequireField(rows, o.field)
    BY <1>3, <2>1 DEF GoodRows
  <2>5. \/ /\ \A i \in DOMAIN rows : CastRefusal(rows[i][o.field], o) = "ok"
           /\ Cast(rows, o) = Fine([i \in DOMAIN rows |->
                                 [rows[i] EXCEPT ![o.field] = CastCell(@, o)]])
        \/ \E i \in DOMAIN rows :
             /\ CastRefusal(rows[i][o.field], o) # "ok"
             /\ Cast(rows, o) = Refused(CastRefusal(rows[i][o.field], o))
    BY <2>4, CastAnswers
  <2>6. \A x : Refused(x).code = x /\ Fine(x).code = "ok"
    BY DEF Refused, Fine
  <2> QED BY <1>3, <2>1, <2>2, <2>3, <2>5, <2>6
<1> QED BY <1>1, <1>2, <1>3

\* What the interpreter makes of a draft that the planner admits: it goes well,
\* and then no classified field was retyped; or it is refused for the text of
\* a value, for retyping a classified field, or for declaring a public one with
\* a type its casts do not give it.
LEMMA AdmittedDraftEnds ==
    ASSUME NEW draft, PlanTyped(draft), NEW rows, Handover(rows),
           ValidateCloudDraft(draft, rows), NEW d, DOMAIN rows = DOMAIN d,
           \A i \in DOMAIN d : CarriedRow(rows[i], i, d[i], FirstLineage(d[i]))
    PROVE  LET code        == ExecutePlan(draft, rows).code
               retypes     == \E i \in DOMAIN d : Retypes(draft, d[i])
               misdeclares == \E i \in DOMAIN d : Misdeclares(draft, d[i])
           IN  \/ code = "ok" /\ ~retypes
               \/ code \in ValueRefusals
               \/ code = "tokenized_type_change" /\ retypes
               \/ code = "output_type" /\ misdeclares
<1> DEFINE n == Len(draft.ops)
           L(i, k) == Lineages(draft, d[i])[k]
           retypes == \E i \in DOMAIN d : Retypes(draft, d[i])
<1>0. n \in Nat /\ DOMAIN draft.ops = 1 .. n /\ List(draft.outputs) /\ GoodRows(rows)
  BY DEF PlanTyped, List, Handover
<1>1. PICK h : /\ Handled(h, draft.ops, rows, n)
               /\ ExecutePlan(draft, rows) = FinishRows(h[n], draft.outputs)
  BY <1>0, ExecutePlanFolds
<1>2. PICK end, out : end = h[n] /\ out = ExecutePlan(draft, rows)
  OBVIOUS
<1>3. /\ Distinct(draft.outputs)
      /\ \/ end.code \in CastRefusals
         \/ /\ end.code = "ok" /\ DOMAIN end.rows \subseteq Nat
            /\ \A i \in DOMAIN end.rows : DOMAIN end.rows[i] = Names(draft.outputs)
  BY <1>0, <1>1, <1>2, AdmittedDraftExecutes DEF Handover, GoodRows
<1>4. ASSUME NEW k \in 0 .. n, h[k].code = "ok"
      PROVE  /\ GoodRows(h[k].rows) /\ DOMAIN h[k].rows = DOMAIN d
             /\ \A i \in DOMAIN d : CarriedRow(h[k].rows[i], i, d[i], L(i, k))
  <2>1. Sound(h[k], rows)
    BY <1>0, <1>1, <1>4, HandledSound
  <2>2. ASSUME NEW i \in DOMAIN d PROVE CarriedRow(h[k].rows[i], i, d[i], L(i, k))
    BY <1>0, <1>1, <1>4, <2>2, HandledCarries
  <2> QED BY <1>4, <2>1, <2>2 DEF Sound
<1>5. ASSUME NEW k \in 1 .. n, h[k-1].code = "ok"
      PROVE  LET o       == draft.ops[k]
                 retyped == o.op = "cast" /\ o.type # "string"
             IN  /\ h[k].code = "tokenized_type_change" =>
                       retyped /\ \E i \in DOMAIN d : Classified(d[i], L(i, k-1)[o.field])
                 /\ h[k].code = "ok" /\ retyped =>
                       \A i \in DOMAIN d : ~Classified(d[i], L(i, k-1)[o.field])
  <2>0. PICK lineage : lineage = [i \in DOMAIN d |-> L(i, k-1)]
    OBVIOUS
  <2>1. PICK acc, o : acc = h[k-1] /\ o = draft.ops[k]
    OBVIOUS
  <2>2. k - 1 \in 0 .. n /\ h[k] = Handle(acc, o)
    <3>1. k \in 0 .. n /\ k # 0 /\ k - 1 \in 0 .. n
      BY <1>0
    <3>2. h = [m \in 0 .. n |-> IF m = 0 THEN Fine(rows) ELSE Handle(h[m-1], draft.ops[m])]
      BY ONLY <1>1 DEF Handled
    <3>3. h[k] = Handle(h[k-1], draft.ops[k])
      BY ONLY <3>1, <3>2
    <3> QED BY ONLY <2>1, <3>1, <3>3
  <2>3. /\ acc.code = "ok" /\ GoodRows(acc.rows) /\ DOMAIN acc.rows = DOMAIN d
        /\ \A i \in DOMAIN d : CarriedRow(acc.rows[i], i, d[i], lineage[i])
    BY <1>4, <1>5, <2>0, <2>1, <2>2
  <2>4. LET made    == Handle(acc, o)
            retyped == o.op = "cast" /\ o.type # "string"
        IN  /\ made.code = "tokenized_type_change" =>
                  retyped /\ \E i \in DOMAIN d : Classified(d[i], lineage[i][o.field])
            /\ made.code = "ok" /\ retyped =>
                  \A i \in DOMAIN d : ~Classified(d[i], lineage[i][o.field])
    BY ONLY <2>3, CastMindsTokens
  <2> QED BY <2>0, <2>1, <2>2, <2>4
<1>6. ASSUME NEW k \in 1 .. n, draft.ops[k].op = "cast", draft.ops[k].type # "string",
             NEW i \in DOMAIN d, Classified(d[i], L(i, k-1)[draft.ops[k].field])
      PROVE  retypes
  BY <1>0, <1>6 DEF Retypes
<1>7. ASSUME NEW k \in DOMAIN draft.outputs, draft.outputs[k].type # "string",
             NEW i \in DOMAIN d, Classified(d[i], L(i, n)[draft.outputs[k].name])
      PROVE  retypes
  BY <1>7 DEF Retypes, Lineage
<1> HIDE DEF n, L
<1>8. CASE end.code # "ok"
  <2>1. out = end /\ end.code \in CastRefusals
    BY <1>1, <1>2, <1>3, <1>8 DEF FinishRows
  <2>2. end.code = "tokenized_type_change" => retypes
    <3> DEFINE P(k) == h[k].code = "tokenized_type_change" => retypes
               T == {m \in 0 .. n : ~P(m)}
    <3>1. SUFFICES ASSUME T # {} PROVE FALSE
      BY <1>0, <1>2
    <3>2. PICK m \in T : \A k \in T : m <= k
      <4>1. T \subseteq Nat
        BY <1>0
      <4> QED BY <3>1, <4>1, LeastNumber
    <3>3. CASE m = 0
      <4>1. h[0] = Fine(rows)
        BY <1>0, <1>1 DEF Handled
      <4> QED BY <3>2, <3>3, <4>1 DEF Fine
    <3>4. CASE m # 0
      <4>1. m \in 1 .. n /\ m - 1 \in 0 .. n /\ m - 1 \notin T
        BY <1>0, <3>2, <3>4
      <4>2. h[m].code = "tokenized_type_change" /\ ~retypes
        BY <3>2
      <4>3. h[m] = Handle(h[m-1], draft.ops[m])
        BY <1>0, <1>1, <4>1 DEF Handled
      <4>4. CASE h[m-1].code = "ok"
        BY <1>5, <1>6, <4>1, <4>2, <4>4
      <4>5. CASE h[m-1].code # "ok"
        <5>1. h[m] = h[m-1]
          BY <4>3, <4>5 DEF Handle
        <5> QED BY <4>1, <4>2, <5>1
      <4> QED BY <4>4, <4>5
    <3> QED BY <3>3, <3>4
  <2> QED BY <1>2, <2>1, <2>2 DEF CastRefusals, ValueRefusals
<1>9. CASE end.code = "ok"
  <2>1. /\ n \in 0 .. n /\ DOMAIN end.rows = DOMAIN d /\ DOMAIN end.rows \subseteq Nat
        /\ \A i \in DOMAIN d : CarriedRow(end.rows[i], i, d[i], L(i, n))
    BY <1>0, <1>2, <1>4, <1>9 DEF GoodRows
  <2>2. ASSUME NEW i \in DOMAIN d, NEW k \in DOMAIN draft.outputs
        PROVE  LET o    == draft.outputs[k]
                   c    == end.rows[i][o.name]
                   from == L(i, n)[o.name]
               IN  /\ Classified(d[i], from) => c.protection = "tokenized" /\ c.value # Null
                                                  /\ c.value.t = "str"
                   /\ ~Classified(d[i], from) =>
                        /\ c.protection # "tokenized"
                        /\ c.value = Null \/ c.value.t = from.value.t
    <3>1. PICK f, c, from : /\ f = draft.outputs[k].name /\ c = end.rows[i][f]
                            /\ from = L(i, n)[f]
      OBVIOUS
    <3>2. f \in DOMAIN end.rows[i]
      BY <1>3, <1>9, <2>1, <3>1 DEF Names, CastRefusals
    <3>3. Carries(c, i, d[i], from)
      BY <2>1, <3>1, <3>2 DEF CarriedRow
    <3>4. /\ Classified(d[i], from) => c.protection = "tokenized" /\ c.value # Null
                                         /\ c.value.t = "str"
          /\ ~Classified(d[i], from) => /\ c.protection # "tokenized"
                                        /\ c.value = Null \/ c.value.t = from.value.t
      BY ONLY <3>3, ClassifiedIsToken
    <3> QED BY ONLY <3>1, <3>4
  <2>3. out = FinishRows(end, draft.outputs)
    BY <1>1, <1>2
  <2>4. \/ /\ out = end
           /\ \A i \in DOMAIN end.rows : \A k \in DOMAIN draft.outputs :
                CellRefusal(end.rows[i][draft.outputs[k].name], draft.outputs[k]) = "ok"
        \/ \E i \in DOMAIN end.rows : \E k \in DOMAIN draft.outputs :
             LET refusal == CellRefusal(end.rows[i][draft.outputs[k].name], draft.outputs[k])
             IN  refusal # "ok" /\ out = Refused(refusal)
    BY <1>0, <1>3, <1>9, <2>1, <2>3, FinishAnswers DEF CastRefusals
  <2>5. CASE out = end /\ \A i \in DOMAIN end.rows : \A k \in DOMAIN draft.outputs :
               CellRefusal(end.rows[i][draft.outputs[k].name], draft.outputs[k]) = "ok"
    <3>1. \A k \in 0 .. n : h[k].code = "ok"
      BY <1>0, <1>1, <1>2, <1>9, WellAllAlong
    <3>2. ASSUME NEW i \in DOMAIN d, Retypes(draft, d[i]) PROVE FALSE
      <4>1. CASE \E k \in DOMAIN draft.ops :
                   /\ draft.ops[k].op = "cast" /\ draft.ops[k].type # "string"
                   /\ Classified(d[i], L(i, k-1)[draft.ops[k].field])
        <5>1. PICK k \in 1 .. n : /\ draft.ops[k].op = "cast" /\ draft.ops[k].type # "string"
                                  /\ Classified(d[i], L(i, k-1)[draft.ops[k].field])
          BY <1>0, <4>1
        <5>2. h[k-1].code = "ok" /\ h[k].code = "ok"
          BY <1>0, <3>1
        <5> QED BY <1>5, <5>1, <5>2
      <4>2. CASE \E k \in DOMAIN draft.outputs :
                   /\ draft.outputs[k].type # "string"
                   /\ Classified(d[i], L(i, n)[draft.outputs[k].name])
        <5>1. PICK k \in DOMAIN draft.outputs :
                   /\ draft.outputs[k].type # "string"
                   /\ Classified(d[i], L(i, n)[draft.outputs[k].name])
          BY <4>2
        <5>2. CellRefusal(end.rows[i][draft.outputs[k].name], draft.outputs[k]) = "ok"
          BY <2>1, <2>5
        <5> QED BY <2>2, <5>1, <5>2 DEF CellRefusal
      <4> QED BY <3>2, <4>1, <4>2 DEF Retypes, Lineage, L, n
    <3> QED BY <1>2, <1>9, <2>5, <3>2
  <2>6. CASE \E i \in DOMAIN end.rows : \E k \in DOMAIN draft.outputs :
               LET refusal == CellRefusal(end.rows[i][draft.outputs[k].name], draft.outputs[k])
               IN  refusal # "ok" /\ out = Refused(refusal)
    <3>1. PICK i \in DOMAIN d, k \in DOMAIN draft.outputs :
            LET refusal == CellRefusal(end.rows[i][draft.outputs[k].name], draft.outputs[k])
            IN  refusal # "ok" /\ out = Refused(refusal)
      BY <2>1, <2>6
    <3>2. PICK o, c, from : /\ o = draft.outputs[k] /\ c = end.rows[i][o.name]
                            /\ from = L(i, n)[o.name]
      OBVIOUS
    <3>3. out.code = CellRefusal(c, o) /\ CellRefusal(c, o) # "ok"
      BY <3>1, <3>2 DEF Refused
    <3>4. /\ Classified(d[i], from) => c.protection = "tokenized" /\ c.value # Null
                                         /\ c.value.t = "str"
          /\ ~Classified(d[i], from) => /\ c.protection # "tokenized"
                                        /\ c.value = Null \/ c.value.t = from.value.t
      BY <2>2, <3>2
    <3>5. CASE out.code = "tokenized_type_change"
      <4>1. c.protection = "tokenized" /\ o.type # "string"
        BY <3>3, <3>5 DEF CellRefusal
      <4>2. Classified(d[i], from)
        BY <3>4, <4>1
      <4>3. retypes
        BY <1>7, <3>2, <4>1, <4>2
      <4> QED BY <1>2, <3>5, <4>3
    <3>6. CASE out.code = "output_type"
      <4>1. /\ c.value # Null /\ ~MatchesType(c.value, o.type)
            /\ c.protection = "tokenized" => o.type = "string"
        BY <3>3, <3>6 DEF CellRefusal
      <4>2. ~Classified(d[i], from)
        BY <3>4, <4>1 DEF MatchesType, PyType
      <4>3. ~MatchesType(from.value, o.type)
        BY <3>4, <4>1, <4>2 DEF MatchesType
      <4>4. Misdeclares(draft, d[i])
        BY <3>2, <4>2, <4>3 DEF Misdeclares, Lineage, L, n
      <4> QED BY <1>2, <3>6, <4>4
    <3>7. CASE out.code \notin {"tokenized_type_change", "output_type"}
      BY <1>2, <3>3, <3>7 DEF CellRefusal, ValueRefusals
    <3> QED BY <3>5, <3>6, <3>7
  <2> QED BY <2>4, <2>5, <2>6
<1> QED BY <1>8, <1>9

\* The edge hands over rows that carry their own records.
LEMMA EdgeCarries ==
    ASSUME NEW d \in Decodings, NEW reviewed \in BOOLEAN,
           EdgeArtifacts(d, reviewed).code = "ok"
    PROVE  LET out == EdgeArtifacts(d, reviewed)
           IN  /\ DOMAIN out.rows = DOMAIN d
               /\ \A i \in DOMAIN d : CarriedRow(out.rows[i], i, d[i], FirstLineage(d[i]))
<1>1. PICK out : out = EdgeArtifacts(d, reviewed)
  OBVIOUS
<1>2. out = Sanitized(d) /\ out.code = "ok"
  BY <1>1 DEF EdgeArtifacts, Refused
<1>3. /\ out.rows = [i \in DOMAIN d |-> [f \in DOMAIN d[i] |-> Sanitize(i, f, d[i][f])]]
      /\ \A i \in DOMAIN d : \A f \in DOMAIN d[i] :
            d[i][f].category = "public" => ~HasResidualPii(d[i][f].value)
  BY <1>2 DEF Sanitized, Refused, Fine
<1>4. ASSUME NEW i \in DOMAIN d PROVE CarriedRow(out.rows[i], i, d[i], FirstLineage(d[i]))
  <2>1. PICK lineage : lineage = FirstLineage(d[i])
    OBVIOUS
  <2>2. ASSUME NEW f \in DOMAIN out.rows[i]
        PROVE  /\ f \in DOMAIN lineage /\ lineage[f].from \in DOMAIN d[i]
               /\ lineage[f] = [from |-> lineage[f].from, value |-> lineage[f].value]
               /\ Carries(out.rows[i][f], i, d[i], lineage[f])
    <3>1. f \in DOMAIN d[i] /\ out.rows[i][f] = Sanitize(i, f, d[i][f])
      BY <1>3
    <3>2. PICK c, v, g : c = d[i][f] /\ v = c.value /\ g = lineage[f]
      OBVIOUS
    <3>3. /\ f \in DOMAIN lineage /\ g.from = f /\ g = [from |-> g.from, value |-> g.value]
          /\ c.category = "public" => g.value = v
      BY <2>1, <3>1, <3>2 DEF FirstLineage
    <3>4. v.mac = <<>> /\ (v.t # "str" => v.x \notin Residual)
      BY <3>1, <3>2, DataAssumption
    <3>5. CASE c.category = "public"
      <4>1. out.rows[i][f] = [protection |-> "sanitized", value |-> v]
        BY <3>1, <3>2, <3>5 DEF Sanitize
      <4>2. v.x \notin Residual
        BY <1>3, <3>1, <3>2, <3>4, <3>5 DEF HasResidualPii
      <4>3. Carries(out.rows[i][f], i, d[i], g)
        BY <4>1, <4>2, <3>2, <3>3, <3>4, <3>5 DEF Carries
      <4> QED BY <4>3, <3>1, <3>2, <3>3
    <3>6. CASE c.category # "public"
      <4>1. out.rows[i][f] = [protection |-> "tokenized", value |-> Token(i, f, v)]
        BY <3>1, <3>2, <3>6 DEF Sanitize
      <4>2. Carries(out.rows[i][f], i, d[i], g)
        BY <4>1, <3>2, <3>3, <3>6 DEF Carries
      <4> QED BY <4>2, <3>1, <3>2, <3>3
    <3> QED BY <3>5, <3>6
  <2> QED BY <2>1, <2>2 DEF CarriedRow
<1> QED BY <1>1, <1>3, <1>4

\* A bundle represents what the rows it was built from carry.
LEMMA BundleRepresents ==
    ASSUME NEW rows, NEW outputs, CanonicalRows(rows, outputs).code = "ok",
           NEW i \in DOMAIN rows, NEW f \in DOMAIN rows[i], NEW record, NEW from,
           Carries(rows[i][f], i, record, from)
    PROVE  Represents(CanonicalRows(rows, outputs).rows[i][f].value, i, from.from,
                      record[from.from], from.value)
<1>1. CanonicalRows(rows, outputs).rows = DigestedRows(rows)
  BY DEF CanonicalRows, Refused, Fine
<1>2. PICK c, v, w : c = rows[i][f] /\ v = c.value /\ w = DigestableValue(v)
  OBVIOUS
<1>3. CanonicalRows(rows, outputs).rows[i][f].value = w
  BY <1>1, <1>2 DEF DigestedRows
<1>4. w.x = v.x /\ w.mac = v.mac
  BY <1>2 DEF DigestableValue, Json
<1>5. CASE record[from.from].category = "public"
  <2>1. v.mac = <<>> /\ v.x \notin Residual /\ (v = Null \/ v.x = from.value.x)
    BY <1>2, <1>5 DEF Carries
  <2>2. v = Null => w.j = "null"
    <3>1. Null.t = "none"
      BY DEF Null
    <3> QED BY <3>1, <1>2 DEF DigestableValue, Json
  <2> QED BY <1>3, <1>4, <1>5, <2>1, <2>2 DEF Represents
<1>6. CASE record[from.from].category # "public"
  <2>1. PICK u : u = record[from.from].value
    OBVIOUS
  <2>2. v = [t |-> "str", x |-> u.x, mac |-> <<i, from.from, u.t>>]
    BY <1>2, <1>6, <2>1 DEF Carries, Token
  <2>3. w = [j |-> "string", x |-> u.x, mac |-> <<i, from.from, u.t>>]
    BY <1>2, <2>2 DEF DigestableValue, Json
  <2> QED BY <1>3, <1>6, <2>1, <2>3 DEF Represents
<1> QED BY <1>5, <1>6

\* How an admitted draft may have ended.
DraftEnds(k) ==
    LET retypes     == \E i \in DOMAIN k.decoded : Retypes(k.draft, k.decoded[i])
        misdeclares == \E i \in DOMAIN k.decoded : Misdeclares(k.draft, k.decoded[i])
    IN  \/ k.out.code = "ok" /\ ~retypes
        \/ k.out.code \in ValueRefusals
        \/ k.out.code = "tokenized_type_change" /\ retypes
        \/ k.out.code = "output_type" /\ misdeclares

\* Through all stages the rows carry the decoded records.
StageCarries(k) ==
    /\ k.decoded \in Decodings
    /\ k.out.code = "ok" => DOMAIN k.out.rows = DOMAIN k.decoded
    /\ k.at \in {"edge", "planned"} /\ k.out.code = "ok" =>
         \A i \in DOMAIN k.decoded :
            CarriedRow(k.out.rows[i], i, k.decoded[i], FirstLineage(k.decoded[i]))
    /\ k.at = "executed" => DraftEnds(k)
    /\ k.at = "executed" /\ k.out.code = "ok" =>
         \A i \in DOMAIN k.decoded :
            CarriedRow(k.out.rows[i], i, k.decoded[i], Lineage(k.draft, k.decoded[i]))
    /\ k.at = "bundled" =>
         /\ k.out.code # "ok" => k.out.rows = <<>>
         /\ k.out.code = "ok" => Len(k.out.rows) = Len(k.decoded)
         /\ k.out.code = "ok" =>
              \A i \in DOMAIN k.decoded : \A f \in DOMAIN k.out.rows[i] :
                 LET from == Lineage(k.draft, k.decoded[i])[f]
                 IN  Represents(k.out.rows[i][f].value, i, from.from,
                                k.decoded[i][from.from], from.value)

DeskCarries == desk \in {Empty, Saved} \/ StageCarries(desk)

\* Every step keeps that each row on the desk carries values of its own
\* record.
LEMMA DeskCarriesStep ==
    ASSUME DeskInv, DeskCarries, [Next]_vars
    PROVE  DeskCarries'
<1>1. CASE UNCHANGED desk
  BY <1>1 DEF DeskCarries, StageCarries
<1>2. CASE Save
  BY <1>2 DEF Save, DeskCarries
<1>3. CASE Edge
  <2>1. PICK d \in Decodings, reviewed \in BOOLEAN :
          desk' = [at |-> "edge", decoded |-> d, draft |-> Empty,
                   out |-> EdgeArtifacts(d, reviewed)]
    BY <1>3 DEF Edge
  <2>2. PICK out : out = EdgeArtifacts(d, reviewed)
    OBVIOUS
  <2>3. out.code = "ok" =>
          /\ DOMAIN out.rows = DOMAIN d
          /\ \A i \in DOMAIN d : CarriedRow(out.rows[i], i, d[i], FirstLineage(d[i]))
    BY <2>2, EdgeCarries
  <2> QED BY <2>1, <2>2, <2>3 DEF DeskCarries, StageCarries
<1>4. CASE Plan
  <2>1. StageSound(desk) /\ desk.at = "edge" /\ desk.out.code = "ok"
    BY <1>4, GoingIsStaged DEF Plan
  <2>2. PICK draft : desk' = [desk EXCEPT !.at = "planned", !.draft = draft]
    BY <1>4 DEF Plan
  <2>3. desk' = [at |-> "planned", decoded |-> desk.decoded, draft |-> draft, out |-> desk.out]
    BY <2>1, <2>2 DEF StageSound
  <2>4. StageCarries(desk)
    BY <2>1 DEF DeskCarries, Empty, Saved
  <2> QED BY <2>1, <2>3, <2>4 DEF DeskCarries, StageCarries
<1>5. CASE Execute
  <2>1. StageSound(desk) /\ desk.at = "planned" /\ desk.out.code = "ok"
    BY <1>5, GoingIsStaged DEF Execute
  <2>2. PICK d, draft, rows, out : /\ d = desk.decoded /\ draft = desk.draft
                                   /\ rows = desk.out.rows /\ out = ExecutePlan(draft, rows)
    OBVIOUS
  <2>3. desk' = [at |-> "executed", decoded |-> d, draft |-> draft, out |-> out]
    BY <1>5, <2>1, <2>2, StageStep DEF Execute, Stage
  <2>4. GoodRows(rows) /\ PlanTyped(draft)
    BY <2>1, <2>2, DataAssumption DEF StageSound, Handover
  <2>5. StageCarries(desk)
    BY <2>1 DEF DeskCarries, Empty, Saved
  <2>6. /\ d \in Decodings /\ DOMAIN rows = DOMAIN d
        /\ \A i \in DOMAIN d : CarriedRow(rows[i], i, d[i], FirstLineage(d[i]))
    BY <2>1, <2>2, <2>5 DEF StageCarries
  <2>7. out.code = "ok" => DOMAIN out.rows = DOMAIN d
    BY <2>2, <2>4, <2>6, ExecutePlanFinishes
  <2>8. ASSUME out.code = "ok", NEW i \in DOMAIN d
        PROVE  CarriedRow(out.rows[i], i, d[i], Lineage(draft, d[i]))
    BY <2>2, <2>4, <2>6, <2>8, ExecutePlanCarries
  <2>9. Handover(rows) /\ ValidateCloudDraft(draft, rows)
    BY <2>1, <2>2 DEF StageSound
  <2>10. DraftEnds([at |-> "executed", decoded |-> d, draft |-> draft, out |-> out])
    BY <2>2, <2>4, <2>6, <2>9, AdmittedDraftEnds DEF DraftEnds
  <2>11. StageCarries([at |-> "executed", decoded |-> d, draft |-> draft, out |-> out])
    BY <2>6, <2>7, <2>8, <2>10 DEF StageCarries
  <2> QED BY <2>3, <2>11 DEF DeskCarries
<1>6. CASE Package
  <2>1. StageSound(desk) /\ desk.at = "executed" /\ desk.out.code = "ok"
    BY <1>6, GoingIsStaged DEF Package
  <2>2. PICK d, draft, rows, out : /\ d = desk.decoded /\ draft = desk.draft
                                   /\ rows = desk.out.rows
                                   /\ out = CanonicalRows(rows, draft.outputs)
    OBVIOUS
  <2>3. desk' = [at |-> "bundled", decoded |-> d, draft |-> draft, out |-> out]
    BY <1>6, <2>1, <2>2, StageStep DEF Package, Stage
  <2>4. StageCarries(desk)
    BY <2>1 DEF DeskCarries, Empty, Saved
  <2>5. /\ d \in Decodings /\ DOMAIN rows = DOMAIN d
        /\ \A i \in DOMAIN d : CarriedRow(rows[i], i, d[i], Lineage(draft, d[i]))
    BY <2>1, <2>2, <2>4 DEF StageCarries
  <2>6. out.code # "ok" => out.rows = <<>>
    BY <2>2 DEF CanonicalRows, Refused, Fine
  <2>7. out.code = "ok" => out.rows = DigestedRows(rows)
    BY <2>2 DEF CanonicalRows, Refused, Fine
  <2>8. /\ DOMAIN DigestedRows(rows) = DOMAIN rows
        /\ \A i \in DOMAIN rows : DOMAIN DigestedRows(rows)[i] = DOMAIN rows[i]
    BY DEF DigestedRows
  <2>9. Len(DigestedRows(rows)) = Len(d)
    <3>1. PICK n \in Nat : n = Len(d) /\ DOMAIN d = 1 .. n
      BY <2>5, DataAssumption DEF List
    <3> QED BY <3>1, <2>5 DEF DigestedRows
  <2>10. ASSUME out.code = "ok", NEW i \in DOMAIN d, NEW f \in DOMAIN out.rows[i]
         PROVE  LET from == Lineage(draft, d[i])[f]
                IN  Represents(out.rows[i][f].value, i, from.from, d[i][from.from], from.value)
    <3>1. PICK from, record : from = Lineage(draft, d[i])[f] /\ record = d[i]
      OBVIOUS
    <3>2. i \in DOMAIN rows /\ f \in DOMAIN rows[i]
      BY <2>5, <2>7, <2>8, <2>10
    <3>3. Carries(rows[i][f], i, record, from)
      BY <2>5, <3>1, <3>2 DEF CarriedRow
    <3> QED BY <2>2, <2>10, <3>1, <3>2, <3>3, BundleRepresents
  <2> QED BY <2>3, <2>5, <2>6, <2>7, <2>8, <2>9, <2>10 DEF DeskCarries, StageCarries
<1>7. CASE Receive
  <2>1. StageSound(desk) /\ desk.at = "bundled" /\ desk.out.code = "ok"
    BY <1>7, GoingIsStaged DEF Receive
  <2>2. ValidateBundleDocument(desk.out.rows, desk.draft.outputs)
    BY <2>1 DEF StageSound
  <2>3. desk' = [at |-> "loaded", decoded |-> desk.decoded, draft |-> desk.draft, out |-> desk.out]
    BY <1>7, <2>1, <2>2, StageStep DEF Receive, Stage
  <2>4. StageCarries(desk)
    BY <2>1 DEF DeskCarries, Empty, Saved
  <2> QED BY <2>3, <2>4 DEF DeskCarries, StageCarries
<1> QED
  <2>1. Next \/ UNCHANGED desk
    BY DEF vars
  <2>2. Prepare \/ UNCHANGED desk
    BY <2>1 DEF Next
  <2> QED BY <2>2, <1>1, <1>2, <1>3, <1>4, <1>5, <1>6, <1>7 DEF Prepare, DataPath

\* How far the stages agree, for any records, any draft of any length and any
\* texts.  _validate_sanitized_output takes what sanitize made.  A draft that
\* _validate_cloud_draft admits never fails in execute_plan on its operations or
\* the names of its fields, but only for the text of a value, for a column
\* whose type the field's casts do not give it, or for a type it gives a token;
\* and one that gives a token another type always fails.  _canonical_rows finds
\* a token wherever it expects one, and validate_bundle_document takes every
\* bundle that was built.
THEOREM GatesDoAgree == Spec => []GatesAgree
<1>1. Init => DeskInv /\ DeskCarries
  BY DEF Init, DeskInv, DeskCarries
<1>2. DeskInv /\ DeskCarries /\ [Next]_vars => (DeskInv /\ DeskCarries)'
  BY DeskStep, DeskCarriesStep
<1>3. DeskInv /\ DeskCarries => GatesAgree
  <2> SUFFICES ASSUME DeskInv, DeskCarries PROVE GatesAgree
    OBVIOUS
  <2>1. CASE desk \in {Empty, Saved}
    BY <2>1 DEF GatesAgree, Empty, Saved
  <2>2. CASE StageSound(desk) /\ StageCarries(desk)
    <3>1. desk.at = "executed" => DraftEnds(desk)
      BY <2>2 DEF StageCarries
    <3>2. /\ desk.at = "edge" => desk.out.code # "sanitized_output"
          /\ desk.at = "bundled" => desk.out.code # "cloud_token"
          /\ desk.at = "loaded" => desk.out.code = "ok"
      BY <2>2 DEF StageSound
    <3> QED BY <3>1, <3>2 DEF GatesAgree, DraftEnds
  <2> QED BY <2>1, <2>2 DEF DeskInv, DeskCarries
<1> QED BY <1>1, <1>2, <1>3, PTL DEF Spec

\* Nothing is disclosed, lost or mixed up on the way from the decoded records to
\* the bundle, for any records, any plan of any length and any texts: rows keep
\* their ordinals, a classified field is there only as the token of its own
\* value, and a public one as its own value through its own casts (sanitize,
\* execute_plan and _canonical_rows together).
THEOREM ProtectionHolds == Spec => []ProtectedToTheEnd
<1>1. Init => DeskInv /\ DeskCarries
  BY DEF Init, DeskInv, DeskCarries
<1>2. DeskInv /\ DeskCarries /\ [Next]_vars => (DeskInv /\ DeskCarries)'
  BY DeskStep, DeskCarriesStep
<1>3. DeskInv /\ DeskCarries => ProtectedToTheEnd
  <2> SUFFICES ASSUME DeskInv, DeskCarries, desk.at = "bundled" PROVE ProtectedToTheEnd
    BY DEF ProtectedToTheEnd
  <2>1. StageCarries(desk)
    BY DEF DeskCarries, Empty, Saved
  <2>2. CASE desk.out.code # "ok"
    <3>1. desk.out.rows = <<>>
      BY <2>1, <2>2 DEF StageCarries
    <3>2. DOMAIN <<>> = {}
      OBVIOUS
    <3> QED BY <2>2, <3>1, <3>2 DEF ProtectedToTheEnd
  <2>3. CASE desk.out.code = "ok"
    BY <2>1, <2>3 DEF StageCarries, ProtectedToTheEnd
  <2> QED BY <2>2, <2>3
<1> QED BY <1>1, <1>2, <1>3, PTL DEF Spec

-----------------------------------------------------------------------------
(* The cloud run: the work of a portfolio. *)

ApprovalSet == {McApproval} \cup Approvals

\* A portfolio that can be bundled has in every source a number of rows, and
\* no job will refuse them.
LEMMA BundleableWork ==
    ASSUME NEW p \in Bundleable, NEW s \in Sources
    PROVE  /\ Output(p) \in Outputs
           /\ RecordCount[Output(p)][s] \in Nat
           /\ Loadable[Output(p)][s]
<1>1. PICK w : w = Output(p)
  OBVIOUS
<1>2. w \in Outputs
  BY <1>1 DEF Outputs
<1>3. w.plans = p.plans /\ w.records = p.records
  BY <1>1 DEF Output
<1>4. /\ p \in Snapshots /\ Execution(p, s).code = "ok" /\ Canonical(p, s).code = "ok"
  BY DEF Bundleable, Runnable
<1>5. PICK plan, rows : plan = PlanOf(p, s) /\ rows = RecordsOf(p, s)
  OBVIOUS
<1>6. PlanOf(w, s) = plan /\ RecordsOf(w, s) = rows
  BY <1>3, <1>5 DEF PlanOf, RecordsOf
<1>7. PlanTyped(plan)
  BY <1>4, <1>5, PortfolioAssumption DEF PlanOf
<1>8. List(rows)
  BY <1>4, <1>5, PortfolioAssumption DEF RecordsOf
<1>9. GoodRows(rows)
  <2> SUFFICES ASSUME NEW i \in DOMAIN rows, NEW f \in DOMAIN rows[i] PROVE GoodCell(rows[i][f])
    <3>1. DOMAIN rows \subseteq Nat
      BY <1>8 DEF List
    <3> QED BY <3>1 DEF GoodRows
  <2>1. PICK c : c = rows[i][f]
    OBVIOUS
  <2>2. /\ c = [protection |-> c.protection, value |-> c.value]
        /\ c.value.t \in ScalarTypes /\ DecodedValue(c.value)
    BY <1>4, <1>5, <2>1, PortfolioAssumption DEF RecordsOf
  <2> QED BY <2>1, <2>2, DecodedIsGood DEF GoodCell
<1>10. PICK out : out = ExecutePlan(plan, rows)
  OBVIOUS
<1>11. Execution(p, s) = out /\ Execution(w, s) = out
  BY <1>5, <1>6, <1>10 DEF Execution
<1>12. DOMAIN out.rows = DOMAIN rows /\ Finished(out.rows, plan.outputs)
  BY <1>4, <1>7, <1>9, <1>10, <1>11, ExecutePlanFinishes
<1>13. PICK made : made = CanonicalRows(out.rows, plan.outputs)
  OBVIOUS
<1>14. Canonical(p, s) = made /\ Canonical(w, s) = made
  BY <1>5, <1>6, <1>11, <1>13 DEF Canonical
<1>15. DOMAIN made.rows = DOMAIN out.rows /\ ValidateBundleDocument(made.rows, plan.outputs)
  BY <1>4, <1>7, <1>12, <1>13, <1>14, BundleLoads DEF PlanTyped
<1>16. Loadable[w][s]
  BY <1>2, <1>6, <1>14, <1>15 DEF Loadable
<1>17. made.rows = DigestedRows(out.rows)
  BY <1>4, <1>13, <1>14 DEF CanonicalRows, Refused, Fine
<1>18. Len(made.rows) \in Nat
  <2>1. PICK n \in Nat : DOMAIN rows = 1 .. n
    BY <1>8 DEF List
  <2> QED BY <2>1, <1>12, <1>17 DEF DigestedRows
<1>19. RecordCount[w][s] \in Nat
  BY <1>2, <1>14, <1>18 DEF RecordCount
<1> QED BY <1>1, <1>2, <1>16, <1>19

-----------------------------------------------------------------------------
(* The inductive invariant of the cloud run.  Its parts take the state they *)
(* speak about as arguments, so that what they say before a step and after  *)
(* it can be compared.                                                      *)

\* Bundles of one approval and one portfolio, all of them stored.
Ready(b, objs) ==
    \E s \in Sources, a \in ApprovalSet, p \in Bundleable :
      /\ b = Bundle(s, a, p) /\ a.digest = p.plans
      /\ \A t \in Sources : Bundle(t, a, p) \in objs

Job == [bundle : Bundles, state : {"running", "done", "failed"}, rows : SUBSET Nat]

JobSound(j, objs) ==
    /\ Ready(j.bundle, objs)
    /\ j.rows \subseteq DestinationRows(j.bundle)
    /\ j.state = "done" => j.rows = DestinationRows(j.bundle)

JobsSound(js, objs) == js \in Seq(Job) /\ \A j \in DOMAIN js : JobSound(js[j], objs)

\* A source is verified by job j: it is done, and there were rows to load.
Verified(j, b, js) ==
    /\ j \in DOMAIN js /\ js[j].bundle = b /\ js[j].state = "done"
    /\ DestinationRows(b) # {}

Before == {"upload", "observe", "find", "launch"}
After  == {"get_run", "sync", "emit", "commit"}

\* How many jobs an operator holds, and how many sources it has verified.
Held(p) == IF p.at \in Before THEN (IF p.at = "upload" THEN 0 ELSE p.i - 1) ELSE Len(SourceOrder)
Checked(p) == IF p.at \in Before THEN 0 ELSE IF p.at = "wait" THEN p.i - 1 ELSE Len(SourceOrder)
Stored(p) == IF p.at = "upload" THEN p.i - 1 ELSE Len(SourceOrder)

\* What an operator at work may rely on.
Working(p, objs, js, aud) ==
    /\ p = [at |-> p.at, mission |-> p.mission, snapshot |-> p.snapshot,
            approval |-> p.approval, path |-> p.path, i |-> p.i, seen |-> p.seen,
            job |-> p.job, view |-> p.view]
    /\ p.at \in Before \cup {"wait", "audit"} \cup After
    /\ p.snapshot \in Bundleable /\ p.approval \in ApprovalSet
    /\ p.approval.digest = p.snapshot.plans
    /\ p.path \in Paths /\ p.i \in 1 .. Len(SourceOrder)
    /\ \A k \in 1 .. Stored(p) : Bundle(SourceOrder[k], p.approval, p.snapshot) \in objs
    /\ p.job \in Seq(Nat) /\ Len(p.job) = Held(p)
    /\ \A k \in 1 .. Held(p) :
          /\ p.job[k] \in DOMAIN js
          /\ js[p.job[k]].bundle = Bundle(SourceOrder[k], p.approval, p.snapshot)
    /\ \A k \in 1 .. Checked(p) :
          Verified(p.job[k], Bundle(SourceOrder[k], p.approval, p.snapshot), js)
    /\ p.at \in After => aud = Results(p)

\* The audit's rows are of one approval and one portfolio, and verified.
RowsSound(aud, js) ==
    \E a \in ApprovalSet, p \in Bundleable : \A s \in Sources :
      /\ aud[s] \in [job : Nat, bundle : Bundles]
      /\ aud[s].bundle = Bundle(s, a, p) /\ Verified(aud[s].job, Bundle(s, a, p), js)

Blank == [s \in Sources |-> None]

AuditSound(aud, js) ==
    /\ aud = [s \in Sources |-> aud[s]]
    /\ aud = Blank \/ RowsSound(aud, js)

MirrorSound(m, aud) ==
    /\ m = [s \in Sources |-> [state |-> m[s].state, bundle |-> m[s].bundle, audit |-> m[s].audit]]
    /\ \A s \in Sources :
          /\ m[s].state # "approved" => aud # Blank
          /\ m[s].bundle # None => aud # Blank /\ m[s].bundle = aud[s].bundle
          /\ m[s].audit # None => aud # Blank /\ m[s].audit = aud

\* An output path at work is reserved, by one operator, and a proof is the audit.
FilesSound(fs, os, aud) ==
    /\ fs = [p \in Paths |-> fs[p]]
    /\ \A p \in Paths : fs[p] # None =>
          fs[p].proof = None \/ (aud # Blank /\ fs[p].proof = aud)
    /\ \A o \in Operators : os[o] # Idle =>
          os[o].path \in Paths /\ fs[os[o].path] = [proof |-> None]
    /\ \A o, q \in Operators : os[o] # Idle /\ os[q] # Idle /\ os[o].path = os[q].path => o = q

OpsSound(os, objs, js, aud) ==
    /\ os = [o \in Operators |-> os[o]]
    /\ \A o \in Operators : os[o] = Idle \/ Working(os[o], objs, js, aud)

CloudInv ==
    /\ JobsSound(jobs, objects)
    /\ AuditSound(audit, jobs)
    /\ MirrorSound(mirror, audit)
    /\ OpsSound(op, objects, jobs, audit)
    /\ FilesSound(files, op, audit)

-----------------------------------------------------------------------------
(* What a step of another process leaves standing. *)

\* Jobs keep their bundles, a job that is done stays so, and none disappears.
Grows(js, js2) ==
    /\ DOMAIN js \subseteq DOMAIN js2
    /\ \A j \in DOMAIN js :
          js2[j].bundle = js[j].bundle /\ (js[j].state = "done" => js2[j].state = "done")

\* A list of jobs has grown from itself.
LEMMA GrowsItself == \A js : Grows(js, js)
BY DEF Grows

\* A job that was verified stays so while the list of jobs grows.
LEMMA VerifiedGrows ==
    ASSUME NEW j, NEW b, NEW js, NEW js2, Verified(j, b, js), Grows(js, js2)
    PROVE  Verified(j, b, js2)
BY DEF Verified, Grows

\* What an operator has established survives the growth of bucket and jobs.
LEMMA WorkingGrows ==
    ASSUME NEW p, NEW objs, NEW objs2, NEW js, NEW js2, NEW aud, NEW aud2,
           Working(p, objs, js, aud), objs \subseteq objs2, Grows(js, js2),
           p.at \in After => aud2 = aud
    PROVE  Working(p, objs2, js2, aud2)
<1>1. \A k \in 1 .. Stored(p) : Bundle(SourceOrder[k], p.approval, p.snapshot) \in objs2
  BY DEF Working
<1>2. \A k \in 1 .. Held(p) :
          /\ p.job[k] \in DOMAIN js2
          /\ js2[p.job[k]].bundle = Bundle(SourceOrder[k], p.approval, p.snapshot)
  BY DEF Working, Grows
<1>3. \A k \in 1 .. Checked(p) :
          Verified(p.job[k], Bundle(SourceOrder[k], p.approval, p.snapshot), js2)
  BY VerifiedGrows DEF Working
<1>4. p.at \in After => aud2 = Results(p)
  BY DEF Working
<1> QED BY <1>1, <1>2, <1>3, <1>4 DEF Working

\* So do audit rows
LEMMA RowsSoundGrows ==
    ASSUME NEW aud, NEW js, NEW js2, RowsSound(aud, js), Grows(js, js2)
    PROVE  RowsSound(aud, js2)
BY VerifiedGrows DEF RowsSound

\* The order of sources is a nonempty sequence of them.
LEMMA SourceOrderFacts ==
    /\ Len(SourceOrder) \in Nat \ {0} /\ DOMAIN SourceOrder = 1 .. Len(SourceOrder)
    /\ \A k \in 1 .. Len(SourceOrder) : SourceOrder[k] \in Sources
    /\ Sources # {}
<1>1. PICK seq : seq = SourceOrder
  OBVIOUS
<1>2. seq \in Seq(Sources) /\ seq # <<>>
  BY <1>1, CloudAssumption
<1>3. PICK n \in Nat : n = Len(seq) /\ DOMAIN seq = 1 .. n /\ seq \in [1 .. n -> Sources]
  BY <1>2
<1>4. n # 0
  BY <1>2, <1>3
<1>5. \A k \in 1 .. n : seq[k] \in Sources
  BY <1>3
<1>6. 1 \in 1 .. n
  BY <1>3, <1>4
<1> QED BY <1>1, <1>3, <1>4, <1>5, <1>6

\* Sound audit rows exist for every source.
LEMMA SoundRowsAreThere ==
    ASSUME NEW aud, NEW js, RowsSound(aud, js)
    PROVE  aud # Blank /\ \A s \in Sources : aud[s] # None
<1>1. \A s \in Sources : aud[s] # None
  BY NoneAssumption DEF RowsSound
<1> QED BY <1>1, SourceOrderFacts DEF Blank

\* The results of an operator that has verified every source.
LEMMA ResultsSound ==
    ASSUME NEW p, NEW objs, NEW js, NEW aud, Working(p, objs, js, aud),
           p.at \notin Before, p.at # "wait"
    PROVE  RowsSound(Results(p), js)
<1>1. PICK n \in Nat : n = Len(SourceOrder) /\ DOMAIN SourceOrder = 1 .. n
  BY SourceOrderFacts
<1>2. Checked(p) = n /\ Held(p) = n
  BY <1>1 DEF Checked, Held
<1>3. /\ p.approval \in ApprovalSet /\ p.snapshot \in Bundleable
      /\ p.job \in Seq(Nat) /\ Len(p.job) = n
  BY <1>2 DEF Working
<1>4. ASSUME NEW s \in Sources
      PROVE  /\ Results(p)[s] \in [job : Nat, bundle : Bundles]
             /\ Results(p)[s].bundle = Bundle(s, p.approval, p.snapshot)
             /\ Verified(Results(p)[s].job, Bundle(s, p.approval, p.snapshot), js)
  <2>1. PICK k : k = CHOOSE m \in DOMAIN SourceOrder : SourceOrder[m] = s
    OBVIOUS
  <2>2. k \in 1 .. n /\ SourceOrder[k] = s
    BY <1>1, <2>1 DEF Sources
  <2>3. Results(p)[s] = [job |-> p.job[k], bundle |-> Bundle(s, p.approval, p.snapshot)]
    BY <2>1 DEF Results
  <2>4. Verified(p.job[k], Bundle(s, p.approval, p.snapshot), js)
    BY <1>2, <2>2 DEF Working
  <2>5. p.job[k] \in Nat
    BY <1>3, <2>2
  <2>6. Bundle(s, p.approval, p.snapshot) \in Bundles
    BY SMTT(30), <1>3 DEF Bundles, ApprovalSet
  <2> QED BY <2>3, <2>4, <2>5, <2>6
<1> QED BY <1>3, <1>4 DEF RowsSound

\* An operator past the audit has one.
LEMMA AfterIsAudited ==
    ASSUME NEW p, NEW objs, NEW js, NEW aud, Working(p, objs, js, aud), p.at \in After
    PROVE  aud = Results(p) /\ aud # Blank
<1>1. p.at \notin Before /\ p.at # "wait"
  BY DEF Before, After
<1>2. aud = Results(p)
  BY DEF Working
<1> QED BY <1>1, <1>2, ResultsSound, SoundRowsAreThere

\* Operator o moves to q while the rest only grows.
LEMMA OpsStep ==
    ASSUME NEW os, NEW objs, NEW objs2, NEW js, NEW js2, NEW aud, NEW aud2,
           OpsSound(os, objs, js, aud), objs \subseteq objs2, Grows(js, js2),
           aud # Blank => aud2 = aud,
           NEW o \in Operators, NEW q, q = Idle \/ Working(q, objs2, js2, aud2)
    PROVE  OpsSound([os EXCEPT ![o] = q], objs2, js2, aud2)
<1>1. PICK os2 : os2 = [os EXCEPT ![o] = q]
  OBVIOUS
<1>2. os = [r \in Operators |-> os[r]]
  BY DEF OpsSound
<1>3. os2 = [r \in Operators |-> os2[r]] /\ \A r \in Operators : os2[r] = IF r = o THEN q ELSE os[r]
  BY <1>1, <1>2
<1>4. ASSUME NEW r \in Operators, r # o, os[r] # Idle
      PROVE  Working(os[r], objs2, js2, aud2)
  <2>1. Working(os[r], objs, js, aud)
    BY <1>4 DEF OpsSound
  <2>2. os[r].at \in After => aud2 = aud
    BY <2>1, AfterIsAudited
  <2> QED BY <2>1, <2>2, WorkingGrows
<1> QED BY <1>1, <1>3, <1>4 DEF OpsSound

\* The processes stay where they are while the rest only grows.
LEMMA OpsStay ==
    ASSUME NEW os, NEW objs, NEW js, NEW js2, NEW aud,
           OpsSound(os, objs, js, aud), Grows(js, js2)
    PROVE  OpsSound(os, objs, js2, aud)
BY WorkingGrows DEF OpsSound

\* An operator goes on with its path.
LEMMA FilesGoOn ==
    ASSUME NEW fs, NEW os, NEW aud, FilesSound(fs, os, aud), os = [r \in Operators |-> os[r]],
           NEW o \in Operators, os[o] # Idle, NEW q, q.path = os[o].path
    PROVE  FilesSound(fs, [os EXCEPT ![o] = q], aud)
<1>1. PICK os2 : os2 = [os EXCEPT ![o] = q]
  OBVIOUS
<1>2. \A r \in Operators : os2[r] = IF r = o THEN q ELSE os[r]
  BY <1>1
<1> QED BY <1>1, <1>2 DEF FilesSound

\* An operator leaves, and gives its path back or not.
LEMMA FilesLeave ==
    ASSUME NEW fs, NEW os, NEW aud, FilesSound(fs, os, aud), os = [r \in Operators |-> os[r]],
           NEW o \in Operators, os[o] # Idle, os[o].path \in Paths
    PROVE  /\ FilesSound(fs, [os EXCEPT ![o] = Idle], aud)
           /\ FilesSound([fs EXCEPT ![os[o].path] = None], [os EXCEPT ![o] = Idle], aud)
<1>1. PICK os2 : os2 = [os EXCEPT ![o] = Idle]
  OBVIOUS
<1>2. \A r \in Operators : os2[r] = IF r = o THEN Idle ELSE os[r]
  BY <1>1
<1>3. PICK path : path = os[o].path
  OBVIOUS
<1>4. PICK fs2 : fs2 = [fs EXCEPT ![path] = None]
  OBVIOUS
<1>5. fs = [p \in Paths |-> fs[p]] /\ path \in Paths
  BY <1>3 DEF FilesSound
<1>6. fs2 = [p \in Paths |-> fs2[p]] /\ \A p \in Paths : fs2[p] = IF p = path THEN None ELSE fs[p]
  BY <1>4, <1>5
<1>7. FilesSound(fs, os2, aud)
  BY <1>2 DEF FilesSound
<1>8. \A r \in Operators : os2[r] # Idle =>
        /\ os2[r] = os[r] /\ os[r].path # path /\ os[r].path \in Paths
        /\ fs[os[r].path] = [proof |-> None]
  BY <1>2, <1>3 DEF FilesSound
<1>9. \A r \in Operators : os2[r] # Idle =>
        os2[r].path \in Paths /\ fs2[os2[r].path] = [proof |-> None]
  BY <1>6, <1>8
<1>10. FilesSound(fs2, os2, aud)
  BY <1>6, <1>7, <1>9 DEF FilesSound
<1> QED BY <1>1, <1>3, <1>4, <1>7, <1>10

-----------------------------------------------------------------------------
(* Every step of an operator is of one of two shapes: it goes on, or leaves. *)

\* Jobs that read objects of the bucket still do when it has more.
LEMMA ReadyMore ==
    ASSUME NEW js, NEW objs, NEW objs2, JobsSound(js, objs), objs \subseteq objs2
    PROVE  JobsSound(js, objs2)
BY DEF JobsSound, JobSound, Ready

\* A sound audit stays so while the list of jobs grows.
LEMMA AuditGrows ==
    ASSUME NEW aud, NEW js, NEW js2, AuditSound(aud, js), Grows(js, js2)
    PROVE  AuditSound(aud, js2)
BY RowsSoundGrows DEF AuditSound

\* Operator o goes on as q; bundles and jobs may be added.
LEMMA GoesOn ==
    ASSUME CloudInv, NEW o \in Operators, op[o] # Idle, NEW q, Moved(o, q),
           q.path = op[o].path, Working(q, objects', jobs', audit),
           objects \subseteq objects', Grows(jobs, jobs'), JobsSound(jobs', objects'),
           UNCHANGED <<audit, mirror, files>>
    PROVE  CloudInv'
<1>1. AuditSound(audit, jobs')
  BY AuditGrows DEF CloudInv
<1>2. OpsSound(op', objects', jobs', audit)
  BY OpsStep DEF CloudInv, Moved
<1>3. FilesSound(files, op', audit)
  BY FilesGoOn DEF CloudInv, OpsSound, Moved
<1> QED BY <1>1, <1>2, <1>3 DEF CloudInv

\* Operator o leaves, with or without its output path.
LEMMA LeavesIt ==
    ASSUME CloudInv, NEW o \in Operators, op[o] # Idle, Moved(o, Idle),
           UNCHANGED files \/ Discard(o), UNCHANGED <<objects, jobs, audit, mirror>>
    PROVE  CloudInv'
<1>1. OpsSound(op', objects, jobs, audit)
  BY OpsStep, GrowsItself DEF CloudInv, Moved
<1>2. FilesSound(files', op', audit)
  BY FilesLeave DEF CloudInv, OpsSound, Moved, Discard, FilesSound
<1> QED BY <1>1, <1>2 DEF CloudInv

\* An operator whose call fails leaves the invariant as it was.
LEMMA RejectedLeaves ==
    ASSUME CloudInv, NEW o \in Operators, op[o] # Idle, Rejected(o)
    PROVE  CloudInv'
BY LeavesIt DEF Rejected

\* Only a process that is not idle has a phase of its own.
LEMMA AtWork ==
    ASSUME CloudInv, NEW o \in Operators, op[o].at # "idle"
    PROVE  op[o] # Idle /\ Working(op[o], objects, jobs, audit)
BY DEF CloudInv, OpsSound, Idle

\* Upload keeps the invariant: the bucket only gains an object.
LEMMA UploadStep ==
    ASSUME CloudInv, NEW o \in Operators, Upload(o)
    PROVE  CloudInv'
<1>1. PICK p, n : p = op[o] /\ n = Len(SourceOrder)
  OBVIOUS
<1>2. op[o] # Idle /\ Working(p, objects, jobs, audit) /\ p.at = "upload"
  BY <1>1, AtWork DEF Upload
<1>3. n \in Nat \ {0}
  BY <1>1, SourceOrderFacts
<1>4. p.i \in 1 .. n
  BY <1>1, <1>2 DEF Working
<1>5. PICK q : q = [p EXCEPT !.at = AfterUpload(o), !.i = IF AfterUpload(o) = "upload" THEN @ + 1 ELSE 1]
  OBVIOUS
<1>6. /\ q.mission = p.mission /\ q.snapshot = p.snapshot /\ q.approval = p.approval
      /\ q.path = p.path /\ q.seen = p.seen /\ q.job = p.job /\ q.view = p.view
      /\ q = [at |-> q.at, mission |-> q.mission, snapshot |-> q.snapshot,
              approval |-> q.approval, path |-> q.path, i |-> q.i, seen |-> q.seen,
              job |-> q.job, view |-> q.view]
      /\ \/ p.i = n /\ q.at = "observe" /\ q.i = 1
         \/ p.i # n /\ q.at = "upload" /\ q.i = p.i + 1
  BY <1>1, <1>2, <1>5 DEF Working, AfterUpload, Last
<1>7. objects' = objects \cup {Bundle(SourceOrder[p.i], p.approval, p.snapshot)}
  BY <1>1 DEF Upload, Mine, Src
<1>8. \A k \in 1 .. p.i : Bundle(SourceOrder[k], p.approval, p.snapshot) \in objects'
  <2>1. \A k \in 1 .. (p.i - 1) : Bundle(SourceOrder[k], p.approval, p.snapshot) \in objects
    BY <1>2 DEF Working, Stored
  <2> QED BY <1>4, <1>7, <2>1
<1>9. Stored(q) = p.i /\ Held(q) = 0 /\ Checked(q) = 0 /\ Held(p) = 0
  BY <1>1, <1>2, <1>4, <1>6 DEF Stored, Held, Checked, Before
<1>10. q.at \in Before /\ q.at \notin After
  BY <1>6 DEF Before, After
<1>11. q.i \in 1 .. n
  BY <1>3, <1>4, <1>6
<1>12. q.job \in Seq(Nat) /\ Len(q.job) = 0
  BY <1>2, <1>6, <1>9 DEF Working
<1>13. /\ q.snapshot \in Bundleable /\ q.approval \in ApprovalSet
       /\ q.approval.digest = q.snapshot.plans /\ q.path \in Paths
  BY <1>2, <1>6 DEF Working
<1>14. Working(q, objects', jobs, audit)
  <2>1. \A k \in 1 .. 0 : FALSE
    OBVIOUS
  <2> QED BY <1>1, <1>6, <1>8, <1>9, <1>10, <1>11, <1>12, <1>13, <2>1 DEF Working
<1>15. JobsSound(jobs, objects')
  BY <1>7, ReadyMore DEF CloudInv
<1> QED BY <1>1, <1>2, <1>5, <1>6, <1>7, <1>14, <1>15, GoesOn, GrowsItself DEF Upload

\* q does the same work as p, at another place of the command.
Same(q, p) ==
    /\ q = [at |-> q.at, mission |-> q.mission, snapshot |-> q.snapshot,
            approval |-> q.approval, path |-> q.path, i |-> q.i, seen |-> q.seen,
            job |-> q.job, view |-> q.view]
    /\ q.snapshot = p.snapshot /\ q.approval = p.approval /\ q.path = p.path

\* An operator that moves on with the same snapshot and known jobs keeps what
\* it established.
LEMMA SameWork ==
    ASSUME NEW p, NEW q, NEW objs, NEW js, NEW aud, Working(p, objs, js, aud), Same(q, p),
           p.at # "upload", q.at \in Before \cup {"wait", "audit"} \cup After, q.at # "upload",
           q.i \in 1 .. Len(SourceOrder), q.job \in Seq(Nat), Len(q.job) = Held(q),
           \A k \in 1 .. Held(q) :
              /\ q.job[k] \in DOMAIN js
              /\ js[q.job[k]].bundle = Bundle(SourceOrder[k], p.approval, p.snapshot),
           \A k \in 1 .. Checked(q) :
              Verified(q.job[k], Bundle(SourceOrder[k], p.approval, p.snapshot), js),
           q.at \in After => aud = Results(q)
    PROVE  Working(q, objs, js, aud)
<1>1. Stored(q) = Len(SourceOrder) /\ Stored(p) = Len(SourceOrder)
  BY DEF Stored
<1>2. \A k \in 1 .. Stored(q) : Bundle(SourceOrder[k], q.approval, q.snapshot) \in objs
  BY <1>1 DEF Working, Same
<1>3. /\ q.snapshot \in Bundleable /\ q.approval \in ApprovalSet
      /\ q.approval.digest = q.snapshot.plans /\ q.path \in Paths
  BY DEF Working, Same
<1> QED BY <1>2, <1>3 DEF Working, Same

\* An operator moves on without another job: within the phases that leave what
\* it holds and what it has checked as they are.
LEMMA MovesOn ==
    ASSUME NEW p, NEW q, NEW objs, NEW js, NEW aud, Working(p, objs, js, aud), Same(q, p),
           p.at # "upload", q.at \in Before \cup {"wait", "audit"} \cup After, q.at # "upload",
           q.i \in 1 .. Len(SourceOrder), q.job = p.job,
           Held(q) = Held(p), Checked(q) = Checked(p), q.at \in After => p.at \in After
    PROVE  Working(q, objs, js, aud)
<1>1. Results(q) = Results(p)
  BY DEF Results, Same
<1>2. q.at \in After => aud = Results(q)
  BY <1>1 DEF Working
<1>3. q.job \in Seq(Nat) /\ Len(q.job) = Held(q)
  BY DEF Working
<1>4. \A k \in 1 .. Held(q) :
              /\ q.job[k] \in DOMAIN js
              /\ js[q.job[k]].bundle = Bundle(SourceOrder[k], p.approval, p.snapshot)
  BY DEF Working
<1>5. \A k \in 1 .. Checked(q) :
              Verified(q.job[k], Bundle(SourceOrder[k], p.approval, p.snapshot), js)
  BY DEF Working
<1> QED BY <1>2, <1>3, <1>4, <1>5, SameWork

\* The step of an operator that only moves on.
LEMMA MovesOnStep ==
    ASSUME CloudInv, NEW o \in Operators, op[o].at # "idle", op[o].at # "upload", NEW q,
           Moved(o, q), Same(q, op[o]), q.job = op[o].job,
           q.at \in Before \cup {"wait", "audit"} \cup After, q.at # "upload",
           q.i \in 1 .. Len(SourceOrder), Held(q) = Held(op[o]), Checked(q) = Checked(op[o]),
           q.at \in After => op[o].at \in After,
           UNCHANGED <<objects, jobs, audit, mirror, files>>
    PROVE  CloudInv'
<1>1. op[o] # Idle /\ Working(op[o], objects, jobs, audit)
  BY AtWork
<1>2. Working(q, objects, jobs, audit)
  BY <1>1, MovesOn
<1>3. JobsSound(jobs, objects)
  BY DEF CloudInv
<1> QED BY <1>1, <1>2, <1>3, GoesOn, GrowsItself DEF Same

\* Observe keeps the invariant.
LEMMA ObserveStep ==
    ASSUME CloudInv, NEW o \in Operators, Observe(o)
    PROVE  CloudInv'
<1>1. PICK p, seen : p = op[o] /\ seen = Observation(Src(o))
  OBVIOUS
<1>2. Working(p, objects, jobs, audit) /\ p.at = "observe"
  BY <1>1, AtWork DEF Observe
<1>3. PICK q : q = [p EXCEPT !.at = "find", !.seen = seen]
  OBVIOUS
<1>4. Same(q, p) /\ q.job = p.job /\ q.at = "find" /\ q.i = p.i
  BY <1>2, <1>3 DEF Working, Same
<1>5. Moved(o, q) /\ UNCHANGED <<objects, jobs, audit, mirror, files>>
  BY <1>1, <1>3 DEF Observe
<1>6. Held(q) = Held(p) /\ Checked(q) = Checked(p) /\ q.i \in 1 .. Len(SourceOrder)
  BY <1>2, <1>4 DEF Held, Checked, Before, Working
<1>7. q.at \in Before /\ q.at \notin After
  BY <1>4 DEF Before, After
<1> QED BY <1>1, <1>2, <1>4, <1>5, <1>6, <1>7, MovesOnStep

\* Emit keeps the invariant.
LEMMA EmitStep ==
    ASSUME CloudInv, NEW o \in Operators, Emit(o)
    PROVE  CloudInv'
<1>1. PICK p : p = op[o]
  OBVIOUS
<1>2. Working(p, objects, jobs, audit) /\ p.at = "emit"
  BY <1>1, AtWork DEF Emit
<1>3. PICK q : q = [p EXCEPT !.at = "commit"]
  OBVIOUS
<1>4. Same(q, p) /\ q.job = p.job /\ q.at = "commit" /\ q.i = p.i
  BY <1>2, <1>3 DEF Working, Same
<1>5. Moved(o, q) /\ UNCHANGED <<objects, jobs, audit, mirror, files>>
  BY <1>1, <1>3 DEF Emit
<1>6. Held(q) = Held(p) /\ Checked(q) = Checked(p) /\ q.i \in 1 .. Len(SourceOrder)
  BY <1>2, <1>4 DEF Held, Checked, Before, Working
<1>7. q.at \in After /\ p.at \in After
  BY <1>2, <1>4 DEF After
<1> QED BY <1>1, <1>2, <1>4, <1>5, <1>6, <1>7, MovesOnStep

\* GetRun keeps the invariant.
LEMMA GetRunStep ==
    ASSUME CloudInv, NEW o \in Operators, GetRun(o)
    PROVE  CloudInv'
<1>1. PICK p, view : p = op[o] /\ view = [s \in Sources |-> mirror[s].state]
  OBVIOUS
<1>2. Working(p, objects, jobs, audit) /\ p.at = "get_run"
  BY <1>1, AtWork DEF GetRun
<1>3. PICK q : q = [p EXCEPT !.at = "sync", !.view = view]
  OBVIOUS
<1>4. Same(q, p) /\ q.job = p.job /\ q.at = "sync" /\ q.i = p.i
  BY <1>2, <1>3 DEF Working, Same
<1>5. Moved(o, q) /\ UNCHANGED <<objects, jobs, audit, mirror, files>>
  BY <1>1, <1>3 DEF GetRun
<1>6. Held(q) = Held(p) /\ Checked(q) = Checked(p) /\ q.i \in 1 .. Len(SourceOrder)
  BY <1>2, <1>4 DEF Held, Checked, Before, Working
<1>7. q.at \in After /\ p.at \in After
  BY <1>2, <1>4 DEF After
<1> QED BY <1>1, <1>2, <1>4, <1>5, <1>6, <1>7, MovesOnStep

\* Where the loop over the sources goes from p.
Looped(p, n, here, next) ==
    IF p.i = n THEN [p EXCEPT !.at = next, !.i = 1] ELSE [p EXCEPT !.at = here, !.i = @ + 1]

\* A loop over the sources goes to the next one or, after the last, on.
LEMMA LoopStep ==
    ASSUME NEW p, NEW n \in Nat \ {0}, p.i \in 1 .. n, Same(p, p), NEW here, NEW next, NEW q,
           q = Looped(p, n, here, next)
    PROVE  /\ Same(q, p) /\ q.job = p.job /\ q.i \in 1 .. n
           /\ \/ p.i = n /\ q.at = next /\ q.i = 1
              \/ p.i < n /\ q.at = here /\ q.i = p.i + 1
<1>1. CASE p.i = n
  <2>1. q = [p EXCEPT !.at = next, !.i = 1]
    BY <1>1 DEF Looped
  <2>2. Same(q, p) /\ q.job = p.job /\ q.at = next /\ q.i = 1
    BY <2>1 DEF Same
  <2>3. 1 \in 1 .. n
    OBVIOUS
  <2> QED BY <1>1, <2>2, <2>3
<1>2. CASE p.i # n
  <2>1. q = [p EXCEPT !.at = here, !.i = p.i + 1]
    BY <1>2 DEF Looped
  <2>2. Same(q, p) /\ q.job = p.job /\ q.at = here /\ q.i = p.i + 1
    BY <2>1 DEF Same
  <2>3. PICK i : i = p.i
    OBVIOUS
  <2>4. i < n /\ i + 1 \in 1 .. n
    BY <1>2, <2>3
  <2> QED BY <2>2, <2>3, <2>4
<1> QED BY <1>1, <1>2

\* Synced keeps the invariant.
LEMMA SyncedStep ==
    ASSUME CloudInv, NEW o \in Operators, Synced(o)
    PROVE  CloudInv'
<1>1. PICK p, n : p = op[o] /\ n = Len(SourceOrder)
  OBVIOUS
<1>2. Working(p, objects, jobs, audit) /\ p.at = "sync"
  BY <1>1, AtWork DEF Synced
<1>3. PICK q : q = Looped(p, n, "sync", "emit")
  OBVIOUS
<1>4. n \in Nat \ {0} /\ p.i \in 1 .. n
  BY <1>1, <1>2, SourceOrderFacts DEF Working
<1>5. Same(q, p) /\ q.job = p.job /\ q.at \in {"emit", "sync"} /\ q.i \in 1 .. n
  <2>1. Same(p, p)
    BY <1>2 DEF Working, Same
  <2> QED BY <1>3, <1>4, <2>1, LoopStep
<1>6. Moved(o, q) /\ UNCHANGED <<objects, jobs, audit, mirror, files>>
  BY <1>1, <1>3 DEF Synced, Step, Looped, Last
<1>7. Held(q) = Held(p) /\ Checked(q) = Checked(p)
  BY <1>2, <1>5 DEF Held, Checked, Before, Working
<1>8. q.at \in After /\ p.at \in After /\ q.at # "upload"
  BY <1>2, <1>5 DEF After
<1> QED BY <1>1, <1>2, <1>5, <1>6, <1>7, <1>8, MovesOnStep

\* Holding one more job, of the bundle of the source at hand.
LEMMA HoldsOn ==
    ASSUME NEW p, NEW q, NEW objs, NEW js, NEW aud, NEW j \in Nat, Working(p, objs, js, aud),
           p.at \in {"find", "launch"}, j \in DOMAIN js,
           js[j].bundle = Bundle(SourceOrder[p.i], p.approval, p.snapshot),
           q = Looped([p EXCEPT !.job = Append(p.job, j), !.seen = None],
                      Len(SourceOrder), "observe", "wait")
    PROVE  Working(q, objs, js, aud) /\ q.path = p.path
<1>1. PICK n : n = Len(SourceOrder)
  OBVIOUS
<1>2. PICK seq : seq = p.job
  OBVIOUS
<1>3. n \in Nat \ {0} /\ p.i \in 1 .. n
  BY <1>1, SourceOrderFacts DEF Working
<1>4. seq \in Seq(Nat) /\ Len(seq) = p.i - 1 /\ Held(p) = p.i - 1
  BY <1>2 DEF Working, Held, Before
<1>5. PICK more : more = Append(seq, j)
  OBVIOUS
<1>6. /\ more \in Seq(Nat) /\ Len(more) = p.i
      /\ \A k \in 1 .. p.i : more[k] = IF k = p.i THEN j ELSE seq[k]
  BY <1>3, <1>4, <1>5
<1>7. PICK h : h = [p EXCEPT !.job = more, !.seen = None]
  OBVIOUS
<1>8. Same(h, p) /\ h.job = more /\ h.i = p.i
  BY <1>7 DEF Working, Same
<1>9. q = Looped(h, n, "observe", "wait")
  BY <1>1, <1>2, <1>5, <1>7, <1>8
<1>10. /\ Same(q, h) /\ q.job = more /\ q.i \in 1 .. n
       /\ \/ p.i = n /\ q.at = "wait" /\ q.i = 1
          \/ p.i < n /\ q.at = "observe" /\ q.i = p.i + 1
  <2>1. Same(h, h)
    BY <1>8 DEF Same
  <2>2. h.i \in 1 .. n
    BY <1>3, <1>8
  <2>3. /\ Same(q, h) /\ q.job = h.job /\ q.i \in 1 .. n
        /\ \/ h.i = n /\ q.at = "wait" /\ q.i = 1
           \/ h.i < n /\ q.at = "observe" /\ q.i = h.i + 1
    BY <1>3, <1>9, <2>1, <2>2, LoopStep
  <2> QED BY <1>8, <2>3
<1>11. Same(q, p)
  BY <1>8, <1>10 DEF Same
<1>12. Held(q) = p.i /\ Checked(q) = 0
  BY <1>1, <1>3, <1>10 DEF Held, Checked, Before
<1>13. ASSUME NEW k \in 1 .. p.i
       PROVE  /\ more[k] \in DOMAIN js
              /\ js[more[k]].bundle = Bundle(SourceOrder[k], p.approval, p.snapshot)
  <2>1. CASE k = p.i
    BY <1>6, <2>1
  <2>2. CASE k # p.i
    <3>1. k \in 1 .. Held(p)
      BY <1>3, <1>4, <2>2
    <3> QED BY <1>2, <1>6, <2>2, <3>1 DEF Working
  <2> QED BY <2>1, <2>2
<1>14. q.at \in Before \cup {"wait"} /\ q.at # "upload" /\ q.at \notin After /\ p.at # "upload"
  BY <1>10 DEF Before, After
<1>15. \A k \in 1 .. 0 : FALSE
  OBVIOUS
<1>16. Working(q, objs, js, aud)
  BY <1>1, <1>6, <1>10, <1>11, <1>12, <1>13, <1>14, <1>15, SameWork
<1> QED BY <1>11, <1>16 DEF Same

\* Find keeps the invariant: the job it finds carries this very bundle.
LEMMA FindStep ==
    ASSUME CloudInv, NEW o \in Operators, Find(o)
    PROVE  CloudInv'
<1>1. PICK p : p = op[o]
  OBVIOUS
<1>2. op[o] # Idle /\ Working(p, objects, jobs, audit) /\ p.at = "find"
  BY <1>1, AtWork DEF Find
<1>3. PICK found : found = FindJobByName(Mine(o))
  OBVIOUS
<1>4. JobsSound(jobs, objects) /\ jobs \in Seq(Job)
  BY DEF CloudInv, JobsSound
<1>5. CASE Rejected(o)
  BY <1>2, <1>5, RejectedLeaves
<1>6. CASE /\ Cardinality(found) = 1 /\ Holding(o, CHOOSE j \in found : TRUE)
           /\ UNCHANGED <<objects, jobs, audit, mirror, files>>
  <2>1. found # {}
    BY <1>6, FS_EmptySet
  <2>2. PICK j \in found : j = CHOOSE k \in found : TRUE
    BY <2>1
  <2>3. j \in DOMAIN jobs /\ jobs[j].bundle = Bundle(SourceOrder[p.i], p.approval, p.snapshot)
    BY <1>1, <1>3 DEF FindJobByName, JobName, JobIds, Mine, Src
  <2>4. j \in Nat
    BY <1>4, <2>3
  <2>5. PICK q : q = Looped([p EXCEPT !.job = Append(p.job, j), !.seen = None],
                            Len(SourceOrder), "observe", "wait")
    OBVIOUS
  <2>6. Moved(o, q)
    <3>1. PICK h : h = [p EXCEPT !.job = Append(p.job, j), !.seen = None]
      OBVIOUS
    <3>2. Holding(o, j)
      BY <1>6, <2>2
    <3>3. Step(o, h, "observe", "wait")
      BY <1>1, <3>1, <3>2 DEF Holding
    <3>4. h.i = p.i
      BY <1>2, <3>1 DEF Working
    <3> QED BY <1>1, <2>5, <3>1, <3>3, <3>4 DEF Step, Last, Looped
  <2>7. Working(q, objects, jobs, audit) /\ q.path = p.path
    BY <1>2, <2>3, <2>4, <2>5, HoldsOn
  <2> QED BY <1>1, <1>2, <1>4, <1>6, <2>6, <2>7, GoesOn, GrowsItself
<1>7. CASE Moved(o, [p EXCEPT !.at = "launch"]) /\ UNCHANGED <<objects, jobs, audit, mirror, files>>
  <2>1. PICK q : q = [p EXCEPT !.at = "launch"]
    OBVIOUS
  <2>2. Same(q, p) /\ q.job = p.job /\ q.at = "launch" /\ q.i = p.i
    BY <1>2, <2>1 DEF Working, Same
  <2>3. Held(q) = Held(p) /\ Checked(q) = Checked(p) /\ q.i \in 1 .. Len(SourceOrder)
    BY <1>2, <2>2 DEF Held, Checked, Before, Working
  <2>4. q.at \in Before /\ q.at \notin After
    BY <2>2 DEF Before, After
  <2> QED BY <1>1, <1>2, <1>7, <2>1, <2>2, <2>3, <2>4, MovesOnStep
<1> QED BY <1>1, <1>3, <1>5, <1>6, <1>7 DEF Find

\* What two sequences in a row hold.
LEMMA InARow ==
    ASSUME NEW S, NEW s \in Seq(S), NEW t \in Seq(S), NEW m, NEW n, m = Len(s), n = Len(t)
    PROVE  /\ s \o t \in Seq(S) /\ Len(s \o t) = m + n /\ DOMAIN (s \o t) = 1 .. (m + n)
           /\ \A k \in 1 .. m : (s \o t)[k] = s[k]
           /\ \A k \in (m + 1) .. (m + n) : (s \o t)[k] = t[k - m]
<1>1. m \in Nat /\ n \in Nat
  OBVIOUS
<1>2. PICK u : u = s \o t
  OBVIOUS
<1>3. /\ u \in Seq(S) /\ Len(u) = m + n
      /\ \A k \in 1 .. (m + n) : u[k] = IF k <= m THEN s[k] ELSE t[k - m]
  BY <1>2, ConcatProperties
<1>4. DOMAIN u = 1 .. (m + n)
  BY <1>3
<1>5. ASSUME NEW k \in 1 .. m PROVE u[k] = s[k]
  BY <1>1, <1>3
<1>6. ASSUME NEW k \in (m + 1) .. (m + n) PROVE u[k] = t[k - m]
  <2>1. k \in 1 .. (m + n) /\ ~(k <= m)
    BY <1>1
  <2> QED BY <1>3, <2>1
<1> QED BY <1>2, <1>3, <1>4, <1>5, <1>6

\* A sequence of one item over and over.
LEMMA Repeated ==
    ASSUME NEW S, NEW x \in S, NEW n \in Nat, NEW t, t = [k \in 1 .. n |-> x]
    PROVE  t \in Seq(S) /\ Len(t) = n /\ \A k \in 1 .. n : t[k] = x
OBVIOUS

\* Jobs of a bundle that is ready are added.
LEMMA JobsAdded ==
    ASSUME NEW js, NEW objs, JobsSound(js, objs), NEW new \in Job, JobSound(new, objs),
           NEW more \in Seq(Job), NEW n \in Nat, n > 0,
           n = Len(more), \A k \in 1 .. n : more[k] = new
    PROVE  /\ JobsSound(js \o more, objs) /\ Grows(js, js \o more)
           /\ Len(js) + n \in DOMAIN (js \o more) /\ Len(js) + n \in Nat
           /\ (js \o more)[Len(js) + n] = new
<1>1. js \in Seq(Job)
  BY DEF JobsSound
<1>2. PICK m \in Nat : m = Len(js) /\ DOMAIN js = 1 .. m
  BY <1>1
<1>3. PICK js2 : js2 = js \o more
  OBVIOUS
<1>4. /\ js2 \in Seq(Job) /\ DOMAIN js2 = 1 .. (m + n)
      /\ \A k \in 1 .. m : js2[k] = js[k]
      /\ \A k \in (m + 1) .. (m + n) : js2[k] = more[k - m]
  BY <1>1, <1>2, <1>3, InARow
<1>5. ASSUME NEW k \in (m + 1) .. (m + n) PROVE js2[k] = new
  <2>1. k - m \in 1 .. n
    BY <1>2
  <2> QED BY <1>4, <2>1
<1>6. ASSUME NEW k \in 1 .. (m + n) PROVE JobSound(js2[k], objs)
  <2>1. k \in 1 .. m \/ k \in (m + 1) .. (m + n)
    BY <1>2
  <2>2. \A i \in 1 .. m : JobSound(js[i], objs)
    BY <1>2 DEF JobsSound
  <2> QED BY <1>4, <1>5, <2>1, <2>2
<1>7. Grows(js, js2)
  <2>1. 1 .. m \subseteq 1 .. (m + n)
    BY <1>2
  <2> QED BY <1>2, <1>4, <2>1 DEF Grows
<1>8. m + n \in (m + 1) .. (m + n) /\ m + n \in 1 .. (m + n) /\ m + n \in Nat
  BY <1>2
<1>9. JobsSound(js2, objs)
  BY <1>4, <1>6 DEF JobsSound
<1>10. js2[m + n] = new
  BY <1>5, <1>8
<1> QED BY <1>2, <1>3, <1>4, <1>7, <1>8, <1>9, <1>10

\* Past the upload everything is stored.
LEMMA StoredIsReady ==
    ASSUME NEW p, NEW objs, NEW js, NEW aud, Working(p, objs, js, aud), p.at # "upload",
           NEW s \in Sources
    PROVE  /\ Bundle(s, p.approval, p.snapshot) \in Bundles
           /\ Ready(Bundle(s, p.approval, p.snapshot), objs)
<1>1. /\ p.snapshot \in Bundleable /\ p.approval \in ApprovalSet
      /\ p.approval.digest = p.snapshot.plans
  BY DEF Working
<1>2. \A t \in Sources : Bundle(t, p.approval, p.snapshot) \in objs
  <2> TAKE t \in Sources
  <2>1. PICK k \in 1 .. Len(SourceOrder) : SourceOrder[k] = t
    BY SourceOrderFacts DEF Sources
  <2>2. Stored(p) = Len(SourceOrder)
    BY DEF Stored
  <2> QED BY <2>1, <2>2 DEF Working
<1>3. Bundle(s, p.approval, p.snapshot) \in Bundles
  BY <1>1 DEF Bundles, ApprovalSet
<1> QED BY <1>1, <1>2, <1>3 DEF Ready

\* Launch keeps the invariant: it adds a job for objects that are in the
\* bucket.
LEMMA LaunchStep ==
    ASSUME CloudInv, NEW o \in Operators, Launch(o)
    PROVE  CloudInv'
<1>1. PICK p : p = op[o]
  OBVIOUS
<1>2. op[o] # Idle /\ Working(p, objects, jobs, audit) /\ p.at = "launch"
  BY <1>1, AtWork DEF Launch
<1>3. PICK b : b = Bundle(SourceOrder[p.i], p.approval, p.snapshot)
  OBVIOUS
<1>4. SourceOrder[p.i] \in Sources
  BY <1>2, SourceOrderFacts DEF Working
<1>5. b \in Bundles /\ Ready(b, objects)
  BY <1>2, <1>3, <1>4, StoredIsReady
<1>6. Mine(o) = b
  BY <1>1, <1>3 DEF Mine, Src
<1>7. PICK n \in Requests :
        /\ jobs' = jobs \o [k \in 1 .. n |-> [bundle |-> b, state |-> "running", rows |-> {}]]
        /\ Holding(o, Len(jobs) + n)
  BY <1>6 DEF Launch
<1>8. JobsSound(jobs, objects)
  BY DEF CloudInv
<1>9. PICK j : j = Len(jobs) + n
  OBVIOUS
<1>10. /\ JobsSound(jobs', objects) /\ Grows(jobs, jobs')
       /\ j \in DOMAIN jobs' /\ j \in Nat /\ jobs'[j].bundle = b
  <2>1. PICK new : new = [bundle |-> b, state |-> "running", rows |-> {}]
    OBVIOUS
  <2>2. new \in Job /\ new.bundle = b /\ new.state = "running" /\ new.rows = {}
    BY <1>5, <2>1 DEF Job
  <2>3. JobSound(new, objects)
    BY <1>5, <2>2 DEF JobSound
  <2>4. n \in Nat /\ n > 0
    BY DEF Requests
  <2>5. PICK more : more = [k \in 1 .. n |-> new]
    OBVIOUS
  <2>6. more \in Seq(Job) /\ n = Len(more) /\ \A k \in 1 .. n : more[k] = new
    BY <2>2, <2>4, <2>5, Repeated
  <2>7. jobs' = jobs \o more
    BY <1>7, <2>1, <2>5
  <2> QED BY <1>8, <1>9, <2>2, <2>3, <2>4, <2>6, <2>7, JobsAdded
<1>11. UNCHANGED <<objects, audit, mirror, files>>
  BY DEF Launch
<1>12. Working(p, objects, jobs', audit)
  BY <1>2, <1>10, WorkingGrows
<1>13. PICK q : q = Looped([p EXCEPT !.job = Append(p.job, j), !.seen = None],
                           Len(SourceOrder), "observe", "wait")
  OBVIOUS
<1>14. Moved(o, q)
  <2>1. PICK h : h = [p EXCEPT !.job = Append(p.job, j), !.seen = None]
    OBVIOUS
  <2>2. Step(o, h, "observe", "wait")
    BY <1>1, <1>7, <1>9, <2>1 DEF Holding
  <2>3. h.i = p.i
    BY <1>2, <2>1 DEF Working
  <2> QED BY <1>1, <1>13, <2>1, <2>2, <2>3 DEF Step, Last, Looped
<1>15. Working(q, objects, jobs', audit) /\ q.path = p.path
  BY <1>2, <1>3, <1>10, <1>12, <1>13, HoldsOn
<1> QED BY <1>1, <1>2, <1>10, <1>11, <1>14, <1>15, GoesOn

\* Rows that reconcile with a bundle are rows of that bundle: there are some.
LEMMA ReconciledRows ==
    ASSUME JobsSound(jobs, objects), NEW s, NEW b, Reconciles(Observation(s), b)
    PROVE  DestinationRows(b) # {}
<1>1. PICK rows : rows = UNION {{<<j, n>> : n \in jobs[j].rows} : j \in JobsOf(s)}
  OBVIOUS
<1>2. Observation(s) = [row_count |-> Cardinality(rows), ordinals |-> {r[2] : r \in rows},
                        bundles |-> {jobs[r[1]].bundle : r \in rows}]
  BY <1>1 DEF Observation
<1>3. {jobs[r[1]].bundle : r \in rows} = {b}
  BY <1>2 DEF Reconciles
<1>4. PICK r \in rows : jobs[r[1]].bundle = b
  BY <1>3
<1>5. PICK j \in JobsOf(s) : \E n \in jobs[j].rows : r = <<j, n>>
  BY <1>1
<1>6. PICK n \in jobs[j].rows : r = <<j, n>>
  BY <1>5
<1>7. jobs[j].bundle = b /\ j \in DOMAIN jobs
  BY <1>4, <1>6 DEF JobsOf, JobIds
<1>8. n \in DestinationRows(b)
  BY <1>6, <1>7 DEF JobsSound, JobSound
<1> QED BY <1>8

\* Verify keeps the invariant: what it accepts, the job loaded.
LEMMA VerifyStep ==
    ASSUME CloudInv, NEW o \in Operators, Verify(o)
    PROVE  CloudInv'
<1>1. PICK p, n : p = op[o] /\ n = Len(SourceOrder)
  OBVIOUS
<1>2. op[o] # Idle /\ Working(p, objects, jobs, audit) /\ p.at = "wait"
  BY <1>1, AtWork DEF Verify
<1>3. JobsSound(jobs, objects)
  BY DEF CloudInv
<1>4. CASE Rejected(o)
  BY <1>2, <1>4, RejectedLeaves
<1>5. CASE ~Rejected(o)
  <2>1. PICK j, b : j = p.job[p.i] /\ b = Bundle(SourceOrder[p.i], p.approval, p.snapshot)
    OBVIOUS
  <2>2. /\ Succeeded(j) /\ Reconciles(Observation(Src(o)), Mine(o))
        /\ Step(o, p, "wait", AfterVerify(p))
        /\ UNCHANGED <<objects, jobs, audit, mirror, files>>
    BY <1>1, <1>5, <2>1 DEF Verify
  <2>3. DestinationRows(b) # {}
    BY <1>1, <1>3, <2>1, <2>2, ReconciledRows DEF Mine, Src
  <2>4. n \in Nat \ {0} /\ p.i \in 1 .. n
    BY <1>1, <1>2, SourceOrderFacts DEF Working
  <2>5. Held(p) = n /\ Checked(p) = p.i - 1
    BY <1>1, <1>2 DEF Held, Checked, Before
  <2>6. Verified(j, b, jobs)
    BY <1>2, <2>1, <2>2, <2>3, <2>4, <2>5 DEF Verified, Succeeded, Working
  <2>7. PICK q : q = Looped(p, n, "wait", "audit")
    OBVIOUS
  <2>8. Moved(o, q)
    BY <1>1, <2>2, <2>7 DEF Step, Last, Looped, AfterVerify
  <2>9. /\ Same(q, p) /\ q.job = p.job /\ q.i \in 1 .. n
        /\ \/ p.i = n /\ q.at = "audit" /\ q.i = 1
           \/ p.i < n /\ q.at = "wait" /\ q.i = p.i + 1
    <3>1. Same(p, p)
      BY <1>2 DEF Working, Same
    <3> QED BY <2>4, <2>7, <3>1, LoopStep
  <2>10. Held(q) = n /\ Checked(q) = p.i
    BY <1>1, <2>4, <2>9 DEF Held, Checked, Before
  <2>11. \A k \in 1 .. p.i :
           Verified(p.job[k], Bundle(SourceOrder[k], p.approval, p.snapshot), jobs)
    <3> TAKE k \in 1 .. p.i
    <3>1. CASE k = p.i
      BY <2>1, <2>6, <3>1
    <3>2. CASE k # p.i
      <4>1. k \in 1 .. Checked(p)
        BY <2>4, <2>5, <3>2
      <4> QED BY <1>2, <4>1 DEF Working
    <3> QED BY <3>1, <3>2
  <2>12. p.job \in Seq(Nat) /\ Len(p.job) = n
    BY <1>2, <2>5 DEF Working
  <2>13. \A k \in 1 .. n :
           /\ p.job[k] \in DOMAIN jobs
           /\ jobs[p.job[k]].bundle = Bundle(SourceOrder[k], p.approval, p.snapshot)
    BY <1>2, <2>5 DEF Working
  <2>14. q.at \in {"wait", "audit"} /\ q.at # "upload" /\ q.at \notin After
    BY <2>9 DEF After
  <2>15. Working(q, objects, jobs, audit)
    <3>1. q.job \in Seq(Nat) /\ Len(q.job) = Held(q)
      BY <2>9, <2>10, <2>12
    <3>2. \A k \in 1 .. Held(q) :
            /\ q.job[k] \in DOMAIN jobs
            /\ jobs[q.job[k]].bundle = Bundle(SourceOrder[k], p.approval, p.snapshot)
      BY <2>9, <2>10, <2>13
    <3>3. \A k \in 1 .. Checked(q) :
            Verified(q.job[k], Bundle(SourceOrder[k], p.approval, p.snapshot), jobs)
      BY <2>9, <2>10, <2>11
    <3>4. q.i \in 1 .. Len(SourceOrder) /\ Same(q, p)
      BY <1>1, <2>9
    <3> QED BY <1>2, <2>14, <3>1, <3>2, <3>3, <3>4, SameWork
  <2> QED BY <1>1, <1>2, <1>3, <2>2, <2>8, <2>9, <2>15, GoesOn, GrowsItself DEF Same
<1> QED BY <1>4, <1>5

\* An audit that is there stays; one that is not becomes the operator's.
LEMMA MergedAudit ==
    ASSUME NEW aud, NEW js, AuditSound(aud, js), NEW results,
           results = [s \in Sources |-> results[s]]
    PROVE  /\ aud = Blank => Merged(aud, results) = results
           /\ aud # Blank => Merged(aud, results) = aud
<1>1. aud = [s \in Sources |-> aud[s]]
  BY DEF AuditSound
<1>2. aud = Blank => \A s \in Sources : aud[s] = None
  BY DEF Blank
<1>3. aud # Blank => \A s \in Sources : aud[s] # None
  BY SoundRowsAreThere DEF AuditSound
<1>4. aud = Blank => Merged(aud, results) = results
  BY <1>2 DEF Merged
<1>5. aud # Blank => Merged(aud, results) = aud
  BY <1>1, <1>3 DEF Merged
<1> QED BY <1>4, <1>5

\* EnsureAudit keeps the invariant: it inserts rows of verified jobs only.
LEMMA EnsureAuditStep ==
    ASSUME CloudInv, NEW o \in Operators, EnsureAudit(o)
    PROVE  CloudInv'
<1>1. PICK p, results : p = op[o] /\ results = Results(p)
  OBVIOUS
<1>2. op[o] # Idle /\ Working(p, objects, jobs, audit) /\ p.at = "audit"
  BY <1>1, AtWork DEF EnsureAudit
<1>3. results = [s \in Sources |-> results[s]]
  BY <1>1 DEF Results
<1>4. RowsSound(results, jobs)
  BY <1>1, <1>2, ResultsSound DEF Before
<1>5. AuditSound(audit, jobs)
  BY DEF CloudInv
<1>6. audit' = Merged(audit, results)
  BY <1>1 DEF EnsureAudit
<1>7. audit # Blank => audit' = audit
  BY <1>3, <1>5, <1>6, MergedAudit
<1>8. audit = Blank => audit' = results
  BY <1>3, <1>5, <1>6, MergedAudit
<1>9. AuditSound(audit', jobs)
  BY <1>3, <1>4, <1>5, <1>7, <1>8 DEF AuditSound
<1>10. MirrorSound(mirror, audit')
  BY <1>7 DEF CloudInv, MirrorSound
<1>11. FilesSound(files, op, audit')
  BY <1>7 DEF CloudInv, FilesSound
<1>12. JobsSound(jobs, objects) /\ UNCHANGED <<objects, jobs, mirror>>
  BY DEF CloudInv, EnsureAudit
<1>13. OpsSound(op, objects, jobs, audit) /\ op = [r \in Operators |-> op[r]]
  BY DEF CloudInv, OpsSound
<1>14. CASE audit' = results
  <2>1. PICK q : q = [p EXCEPT !.at = IF p.mission THEN "get_run" ELSE "commit"]
    OBVIOUS
  <2>2. Moved(o, q) /\ UNCHANGED files
    BY <1>1, <1>14, <2>1 DEF EnsureAudit, AuditMatches
  <2>3. Same(q, p) /\ q.job = p.job /\ q.i = p.i /\ q.at \in {"get_run", "commit"}
    BY <1>2, <2>1 DEF Working, Same
  <2>4. Results(q) = results
    BY <1>1, <2>3 DEF Results, Same
  <2>5. Held(q) = Held(p) /\ Checked(q) = Checked(p) /\ q.at \in After /\ q.at # "upload"
    BY <1>2, <2>3 DEF Held, Checked, Before, After
  <2>6. Working(p, objects, jobs, audit')
    BY <1>2, WorkingGrows, GrowsItself DEF After
  <2>7. Working(q, objects, jobs, audit')
    <3>1. q.job \in Seq(Nat) /\ Len(q.job) = Held(q)
      BY <2>3, <2>5, <2>6 DEF Working
    <3>2. \A k \in 1 .. Held(q) :
            /\ q.job[k] \in DOMAIN jobs
            /\ jobs[q.job[k]].bundle = Bundle(SourceOrder[k], p.approval, p.snapshot)
      BY <2>3, <2>5, <2>6 DEF Working
    <3>3. \A k \in 1 .. Checked(q) :
            Verified(q.job[k], Bundle(SourceOrder[k], p.approval, p.snapshot), jobs)
      BY <2>3, <2>5, <2>6 DEF Working
    <3>4. q.i \in 1 .. Len(SourceOrder)
      BY <2>3, <2>6 DEF Working
    <3> QED BY <1>2, <1>14, <2>3, <2>4, <2>5, <2>6, <3>1, <3>2, <3>3, <3>4, SameWork
  <2>8. OpsSound(op', objects, jobs, audit')
    BY <1>7, <1>13, <2>2, <2>7, OpsStep, GrowsItself DEF Moved
  <2>9. FilesSound(files, op', audit')
    BY <1>1, <1>2, <1>11, <1>13, <2>2, <2>3, FilesGoOn DEF Moved, Same
  <2> QED BY <1>9, <1>10, <1>12, <2>2, <2>8, <2>9 DEF CloudInv
<1>15. CASE audit' # results
  <2>1. Moved(o, Idle) /\ Discard(o)
    BY <1>1, <1>15 DEF EnsureAudit, AuditMatches
  <2>2. OpsSound(op', objects, jobs, audit')
    BY <1>7, <1>13, <2>1, OpsStep, GrowsItself DEF Moved
  <2>3. op[o].path \in Paths
    BY <1>1, <1>2 DEF Working
  <2>4. FilesSound(files', op', audit')
    BY <1>2, <1>11, <1>13, <2>1, <2>3, FilesLeave DEF Moved, Discard
  <2> QED BY <1>9, <1>10, <1>12, <2>2, <2>4 DEF CloudInv
<1> QED BY <1>14, <1>15

\* Advancing a source under the operator's own evidence, which is the audit's.
LEMMA MirrorAdvances ==
    ASSUME NEW m, NEW aud, MirrorSound(m, aud), aud # Blank, NEW s \in Sources, NEW to,
           NEW b, b = m[s].bundle \/ b = aud[s].bundle,
           NEW a, a = m[s].audit \/ a = aud, NEW m2,
           m2 = [m EXCEPT ![s] = [state |-> to, bundle |-> b, audit |-> a]]
    PROVE  MirrorSound(m2, aud)
<1>1. PICK new : new = [state |-> to, bundle |-> b, audit |-> a]
  OBVIOUS
<1>2. new.state = to /\ new.bundle = b /\ new.audit = a
      /\ new = [state |-> new.state, bundle |-> new.bundle, audit |-> new.audit]
  BY <1>1
<1>3. m = [t \in Sources |-> [state |-> m[t].state, bundle |-> m[t].bundle, audit |-> m[t].audit]]
  BY DEF MirrorSound
<1>4. DOMAIN m = Sources
  BY <1>3
<1>5. DOMAIN m2 = Sources /\ \A t \in Sources : m2[t] = IF t = s THEN new ELSE m[t]
  BY <1>1, <1>4
<1>6. ASSUME NEW t \in Sources
      PROVE  /\ m2[t].bundle # None => m2[t].bundle = aud[t].bundle
             /\ m2[t].audit # None => m2[t].audit = aud
             /\ m2[t] = [state |-> m2[t].state, bundle |-> m2[t].bundle, audit |-> m2[t].audit]
  <2>1. /\ m[t].bundle # None => m[t].bundle = aud[t].bundle
        /\ m[t].audit # None => m[t].audit = aud
    BY DEF MirrorSound
  <2>2. m[t] = [state |-> m[t].state, bundle |-> m[t].bundle, audit |-> m[t].audit]
    BY <1>3
  <2> QED BY <1>2, <1>5, <2>1, <2>2
<1>7. m2 = [t \in Sources |-> m2[t]]
  BY <1>1, <1>3
<1>8. m2 = [t \in Sources |-> [state |-> m2[t].state, bundle |-> m2[t].bundle, audit |-> m2[t].audit]]
  BY <1>6, <1>7
<1> QED BY <1>6, <1>8 DEF MirrorSound

\* Advance keeps the invariant: Mission Control is told what the audit holds.
LEMMA AdvanceStep ==
    ASSUME CloudInv, NEW o \in Operators, Advance(o)
    PROVE  CloudInv'
<1>1. PICK p, s, to : p = op[o] /\ s = Src(o) /\ to = Following(op[o].view[s])
  OBVIOUS
<1>2. op[o] # Idle /\ Working(p, objects, jobs, audit) /\ p.at = "sync"
  BY <1>1, AtWork DEF Advance
<1>3. CASE Rejected(o)
  BY <1>2, <1>3, RejectedLeaves
<1>4. CASE ~Rejected(o)
  <2>1. PICK mine, results : mine = Mine(o) /\ results = Results(p)
    OBVIOUS
  <2>2. mirror' = [mirror EXCEPT
                     ![s].state = to,
                     ![s].bundle = IF to = "verifying" THEN mine ELSE @,
                     ![s].audit = IF to = "completed" THEN results ELSE @]
    BY <1>1, <1>4, <2>1 DEF Advance
  <2>3. Moved(o, [p EXCEPT !.view[s] = to]) /\ UNCHANGED <<objects, jobs, audit, files>>
    BY <1>1, <1>4 DEF Advance
  <2>4. audit = results /\ audit # Blank
    BY <1>2, <2>1, AfterIsAudited DEF After
  <2>5. s \in Sources
    BY <1>1, <1>2, SourceOrderFacts DEF Working, Src
  <2>6. audit[s].bundle = mine
    BY <1>1, <2>1, <2>4, <2>5 DEF Results, Mine
  <2>7. MirrorSound(mirror, audit)
    BY DEF CloudInv
  <2>8. PICK b, a : /\ b = IF to = "verifying" THEN mine ELSE mirror[s].bundle
                    /\ a = IF to = "completed" THEN results ELSE mirror[s].audit
    OBVIOUS
  <2>9. mirror' = [mirror EXCEPT ![s] = [state |-> to, bundle |-> b, audit |-> a]]
    <3>1. PICK row : row = mirror[s]
      OBVIOUS
    <3>2. row = [state |-> row.state, bundle |-> row.bundle, audit |-> row.audit]
      BY <2>5, <2>7, <3>1 DEF MirrorSound
    <3>3. DOMAIN mirror = Sources
      BY <2>7 DEF MirrorSound
    <3>4. PICK r1 : r1 = [row EXCEPT !.state = to]
      OBVIOUS
    <3>5. PICK r2 : r2 = [r1 EXCEPT !.bundle = b]
      OBVIOUS
    <3>6. PICK r3 : r3 = [r2 EXCEPT !.audit = a]
      OBVIOUS
    <3>7. /\ r1 = [state |-> to, bundle |-> row.bundle, audit |-> row.audit]
          /\ r2 = [state |-> to, bundle |-> b, audit |-> row.audit]
          /\ r3 = [state |-> to, bundle |-> b, audit |-> a]
      BY <3>2, <3>4, <3>5, <3>6
    <3>8. mirror' = [mirror EXCEPT ![s] = r3]
      BY <2>2, <2>5, <2>8, <3>1, <3>3, <3>4, <3>5, <3>6, <3>7
    <3> QED BY <3>7, <3>8
  <2>10. MirrorSound(mirror', audit)
    BY <2>4, <2>5, <2>6, <2>7, <2>8, <2>9, MirrorAdvances
  <2>11. PICK q : q = [p EXCEPT !.view[s] = to]
    OBVIOUS
  <2>12. Same(q, p) /\ q.job = p.job /\ q.i = p.i /\ q.at = "sync"
    BY <1>2, <2>11 DEF Working, Same
  <2>13. Held(q) = Held(p) /\ Checked(q) = Checked(p) /\ q.i \in 1 .. Len(SourceOrder)
    BY <1>2, <2>12 DEF Held, Checked, Working
  <2>14. q.at \in After /\ p.at \in After
    BY <1>2, <2>12 DEF After
  <2>15. Working(q, objects, jobs, audit)
    BY <1>2, <2>12, <2>13, <2>14, MovesOn
  <2>16. OpsSound(op', objects, jobs, audit)
    BY <1>1, <2>3, <2>11, <2>15, OpsStep, GrowsItself DEF CloudInv, Moved
  <2>17. FilesSound(files, op', audit)
    BY <1>1, <1>2, <2>3, <2>11, <2>12, FilesGoOn DEF CloudInv, OpsSound, Moved, Same
  <2> QED BY <2>3, <2>10, <2>16, <2>17 DEF CloudInv
<1> QED BY <1>3, <1>4

\* Commit keeps the invariant: the proof is written of an audited portfolio.
LEMMA CommitStep ==
    ASSUME CloudInv, NEW o \in Operators, Commit(o)
    PROVE  CloudInv'
<1>1. PICK p, path : p = op[o] /\ path = op[o].path
  OBVIOUS
<1>2. op[o] # Idle /\ Working(p, objects, jobs, audit) /\ p.at = "commit"
  BY <1>1, AtWork DEF Commit
<1>3. audit = Results(p) /\ audit # Blank
  BY <1>2, AfterIsAudited DEF After
<1>4. FilesSound(files, op, audit) /\ OpsSound(op, objects, jobs, audit)
  BY DEF CloudInv
<1>5. path \in Paths /\ files[path] = [proof |-> None] /\ DOMAIN files = Paths
  BY <1>1, <1>2, <1>4 DEF FilesSound
<1>6. files' = [files EXCEPT ![path].proof = audit]
  BY <1>1, <1>3 DEF Commit, Proof
<1>7. PICK written : written = [proof |-> audit]
  OBVIOUS
<1>8. files' = [files EXCEPT ![path] = written]
  <2>1. PICK empty : empty = files[path]
    OBVIOUS
  <2>2. [empty EXCEPT !.proof = audit] = written
    BY <1>5, <1>7, <2>1
  <2>3. files' = [files EXCEPT ![path] = [empty EXCEPT !.proof = audit]]
    BY <1>6, <2>1
  <2> QED BY <2>2, <2>3
<1>9. /\ files' = [q \in Paths |-> files'[q]]
      /\ \A q \in Paths : files'[q] = IF q = path THEN written ELSE files[q]
  BY <1>4, <1>5, <1>8 DEF FilesSound
<1>10. Moved(o, Idle) /\ UNCHANGED <<objects, jobs, audit, mirror>>
  BY DEF Commit
<1>11. OpsSound(op', objects, jobs, audit)
  BY <1>4, <1>10, OpsStep, GrowsItself DEF Moved
<1>12. \A r \in Operators : op'[r] = IF r = o THEN Idle ELSE op[r]
  BY <1>4, <1>10 DEF Moved, OpsSound
<1>13. \A r \in Operators : op'[r] # Idle =>
         /\ op'[r] = op[r] /\ op[r].path # path /\ op[r].path \in Paths
         /\ files[op[r].path] = [proof |-> None]
  BY <1>1, <1>2, <1>4, <1>12 DEF FilesSound
<1>14. \A r \in Operators : op'[r] # Idle =>
         op'[r].path \in Paths /\ files'[op'[r].path] = [proof |-> None]
  BY <1>9, <1>13
<1>15. \A q \in Paths : files'[q] # None =>
         files'[q].proof = None \/ (audit # Blank /\ files'[q].proof = audit)
  BY <1>3, <1>4, <1>7, <1>9 DEF FilesSound
<1>16. \A r, q \in Operators : op'[r] # Idle /\ op'[q] # Idle /\ op'[r].path = op'[q].path => r = q
  BY <1>4, <1>12 DEF FilesSound
<1>17. FilesSound(files', op', audit)
  BY <1>9, <1>14, <1>15, <1>16 DEF FilesSound
<1> QED BY <1>10, <1>11, <1>17 DEF CloudInv

\* Invoke keeps the invariant: an operator starts with an approved snapshot.
LEMMA InvokeStep ==
    ASSUME CloudInv, NEW o \in Operators, Invoke(o)
    PROVE  CloudInv'
<1>1. PICK mission \in BOOLEAN, p \in Snapshots, path \in Paths :
        \E a \in ApprovalRecords(mission) :
          /\ Executed(a, p) /\ p \in Bundleable /\ files[path] = None
          /\ files' = [files EXCEPT ![path] = [proof |-> None]]
          /\ Moved(o, [at |-> "upload", mission |-> mission, snapshot |-> p,
                       approval |-> a, path |-> path, i |-> 1, seen |-> None,
                       job |-> <<>>, view |-> None])
  BY DEF Invoke
<1>2. PICK a \in ApprovalRecords(mission) :
          /\ Executed(a, p) /\ p \in Bundleable /\ files[path] = None
          /\ files' = [files EXCEPT ![path] = [proof |-> None]]
          /\ Moved(o, [at |-> "upload", mission |-> mission, snapshot |-> p,
                       approval |-> a, path |-> path, i |-> 1, seen |-> None,
                       job |-> <<>>, view |-> None])
  BY <1>1
<1>3. PICK q : q = [at |-> "upload", mission |-> mission, snapshot |-> p,
                    approval |-> a, path |-> path, i |-> 1, seen |-> None,
                    job |-> <<>>, view |-> None]
  OBVIOUS
<1>4. /\ q = [at |-> q.at, mission |-> q.mission, snapshot |-> q.snapshot,
              approval |-> q.approval, path |-> q.path, i |-> q.i, seen |-> q.seen,
              job |-> q.job, view |-> q.view]
      /\ q.at = "upload" /\ q.snapshot = p /\ q.approval = a /\ q.path = path /\ q.i = 1
      /\ q.job = <<>>
  BY <1>3
<1>5. a \in ApprovalSet
  BY <1>2 DEF ApprovalRecords, ApprovalSet
<1>6. a.digest = p.plans
  BY <1>2 DEF Executed, Authorised, Bundleable, Runnable, Decoded, PlansDigest
<1>7. Stored(q) = 0 /\ Held(q) = 0 /\ Checked(q) = 0
  BY <1>4 DEF Stored, Held, Checked, Before
<1>8. 1 \in 1 .. Len(SourceOrder)
  BY SourceOrderFacts
<1>9. Working(q, objects, jobs, audit)
  <2>1. \A k \in 1 .. 0 : FALSE
    OBVIOUS
  <2>2. q.job \in Seq(Nat) /\ Len(q.job) = 0
    BY <1>4
  <2>3. q.at \in Before /\ q.at \notin After
    BY <1>4 DEF Before, After
  <2>4. q.snapshot \in Bundleable /\ q.path \in Paths /\ q.approval \in ApprovalSet
        /\ q.approval.digest = q.snapshot.plans /\ q.i \in 1 .. Len(SourceOrder)
    BY <1>2, <1>4, <1>5, <1>6, <1>8
  <2> QED BY <1>4, <1>7, <2>1, <2>2, <2>3, <2>4 DEF Working
<1>10. Moved(o, q) /\ UNCHANGED <<objects, jobs, audit, mirror>>
  BY <1>2, <1>3 DEF Invoke
<1>11. FilesSound(files, op, audit) /\ OpsSound(op, objects, jobs, audit)
  BY DEF CloudInv
<1>12. OpsSound(op', objects, jobs, audit)
  BY <1>9, <1>10, <1>11, OpsStep, GrowsItself DEF Moved
<1>13. PICK empty : empty = [proof |-> None]
  OBVIOUS
<1>14. /\ files' = [r \in Paths |-> files'[r]]
       /\ \A r \in Paths : files'[r] = IF r = path THEN empty ELSE files[r]
  BY <1>2, <1>11, <1>13 DEF FilesSound
<1>15. \A r \in Operators : op'[r] = IF r = o THEN q ELSE op[r]
  BY <1>10, <1>11 DEF Moved, OpsSound
<1>16. empty # None
  <2>1. empty \in [proof : {None}]
    BY <1>13
  <2> QED BY <2>1, NoneAssumption
<1>17. \A r \in Operators : op[r] # Idle => op[r].path # path /\ op[r].path \in Paths
                                          /\ files[op[r].path] = empty
  BY <1>2, <1>11, <1>13, <1>16 DEF FilesSound
<1>18. \A r \in Operators : op'[r] # Idle =>
         op'[r].path \in Paths /\ files'[op'[r].path] = empty
  BY <1>4, <1>14, <1>15, <1>17
<1>19. \A r, t \in Operators : op'[r] # Idle /\ op'[t] # Idle /\ op'[r].path = op'[t].path => r = t
  <2> SUFFICES ASSUME NEW r \in Operators, NEW t \in Operators, op'[r] # Idle, op'[t] # Idle,
                      op'[r].path = op'[t].path
               PROVE  r = t
    OBVIOUS
  <2>1. r # o /\ t # o => r = t
    BY <1>11, <1>15 DEF FilesSound
  <2>2. r = o /\ t # o => FALSE
    BY <1>4, <1>15, <1>17
  <2>3. r # o /\ t = o => FALSE
    BY <1>4, <1>15, <1>17
  <2> QED BY <2>1, <2>2, <2>3
<1>20. \A r \in Paths : files'[r] # None =>
         files'[r].proof = None \/ (audit # Blank /\ files'[r].proof = audit)
  BY <1>11, <1>13, <1>14 DEF FilesSound
<1>21. FilesSound(files', op', audit)
  BY <1>13, <1>14, <1>18, <1>19, <1>20 DEF FilesSound
<1> QED BY <1>10, <1>12, <1>21 DEF CloudInv

\* One job changes, within its bundle and not once it is done.
LEMMA JobChanges ==
    ASSUME CloudInv, NEW j \in DOMAIN jobs, NEW new \in Job, new.bundle = jobs[j].bundle,
           jobs[j].state = "running", new.rows \subseteq DestinationRows(new.bundle),
           new.state = "done" => new.rows = DestinationRows(new.bundle),
           jobs' = [jobs EXCEPT ![j] = new], UNCHANGED <<objects, audit, mirror, files, op>>
    PROVE  CloudInv'
<1>1. jobs \in Seq(Job) /\ JobsSound(jobs, objects)
  BY DEF CloudInv, JobsSound
<1>2. /\ jobs' \in Seq(Job) /\ DOMAIN jobs' = DOMAIN jobs
      /\ \A k \in DOMAIN jobs : jobs'[k] = IF k = j THEN new ELSE jobs[k]
  BY <1>1
<1>3. JobSound(new, objects)
  BY <1>1 DEF JobsSound, JobSound
<1>4. JobsSound(jobs', objects)
  BY <1>1, <1>2, <1>3 DEF JobsSound
<1>5. Grows(jobs, jobs')
  BY <1>2 DEF Grows
<1>6. OpsSound(op, objects, jobs', audit)
  BY <1>5, OpsStay DEF CloudInv
<1>7. AuditSound(audit, jobs')
  BY <1>5, AuditGrows DEF CloudInv
<1> QED BY <1>4, <1>6, <1>7 DEF CloudInv

\* The rows of a bundle are numbered.
LEMMA RowsAreNumbers ==
    ASSUME JobsSound(jobs, objects), NEW j \in DOMAIN jobs
    PROVE  DestinationRows(jobs[j].bundle) \subseteq Nat
<1>1. PICK b : b = jobs[j].bundle
  OBVIOUS
<1>2. PICK s \in Sources, a \in ApprovalSet, p \in Bundleable : b = Bundle(s, a, p)
  BY <1>1 DEF JobsSound, JobSound, Ready
<1>3. b.output = Output(p) /\ b.source = s
  BY <1>2 DEF Bundle
<1>4. PICK n \in Nat : n = RecordCount[b.output][b.source]
  BY <1>3, BundleableWork
<1>5. DestinationRows(b) = 0 .. (n - 1)
  BY <1>4 DEF DestinationRows
<1> QED BY <1>1, <1>4, <1>5

\* A job that loads, finishes or breaks keeps the invariant.
LEMMA JobStep ==
    ASSUME CloudInv, NEW j \in JobIds, Load(j) \/ Finish(j) \/ Break(j)
    PROVE  CloudInv'
<1>1. PICK job : job = jobs[j]
  OBVIOUS
<1>2. j \in DOMAIN jobs /\ jobs \in Seq(Job) /\ JobsSound(jobs, objects)
  BY DEF JobIds, CloudInv, JobsSound
<1>3. job \in Job /\ job = [bundle |-> job.bundle, state |-> job.state, rows |-> job.rows]
  <2>1. job \in Job
    BY <1>1, <1>2
  <2> QED BY <2>1 DEF Job
<1>4. PICK all : all = DestinationRows(job.bundle)
  OBVIOUS
<1>5. all \in SUBSET Nat
  BY <1>1, <1>2, <1>4, RowsAreNumbers
<1>6. CASE Load(j)
  <2>1. PICK new : new = [job EXCEPT !.rows = all]
    OBVIOUS
  <2>2. new.bundle = job.bundle /\ new.state = job.state /\ new.rows = all /\ new \in Job
    BY <1>3, <1>5, <2>1 DEF Job
  <2>3. jobs' = [jobs EXCEPT ![j] = new] /\ job.state = "running"
    BY <1>1, <1>4, <1>6, <2>1 DEF Load
  <2>4. UNCHANGED <<objects, audit, mirror, files, op>>
    BY <1>6 DEF Load
  <2> QED BY <1>1, <1>2, <1>4, <2>2, <2>3, <2>4, JobChanges
<1>7. CASE Finish(j)
  <2>1. PICK new : new = [job EXCEPT !.state = "done"]
    OBVIOUS
  <2>2. new.bundle = job.bundle /\ new.state = "done" /\ new.rows = job.rows /\ new \in Job
    BY <1>3, <2>1 DEF Job
  <2>3. jobs' = [jobs EXCEPT ![j] = new] /\ job.state = "running" /\ job.rows = all
    BY <1>1, <1>4, <1>7, <2>1 DEF Finish
  <2>4. UNCHANGED <<objects, audit, mirror, files, op>>
    BY <1>7 DEF Finish
  <2> QED BY <1>1, <1>2, <1>4, <2>2, <2>3, <2>4, JobChanges
<1>8. CASE Break(j)
  <2>1. PICK rows \in SUBSET all : jobs' = [jobs EXCEPT ![j].state = "failed", ![j].rows = rows]
    BY <1>1, <1>4, <1>8 DEF Break
  <2>2. PICK first : first = [job EXCEPT !.state = "failed"]
    OBVIOUS
  <2>3. PICK new : new = [first EXCEPT !.rows = rows]
    OBVIOUS
  <2>4. first = [bundle |-> job.bundle, state |-> "failed", rows |-> job.rows]
    BY <1>3, <2>2
  <2>5. new.bundle = job.bundle /\ new.state = "failed" /\ new.rows = rows /\ new \in Job
    BY <1>3, <1>5, <2>3, <2>4 DEF Job
  <2>6. jobs' = [jobs EXCEPT ![j] = new]
    BY <1>1, <1>2, <2>1, <2>2, <2>3
  <2>7. job.state = "running" /\ UNCHANGED <<objects, audit, mirror, files, op>>
    BY <1>1, <1>8 DEF Break
  <2> QED BY <1>1, <1>2, <1>4, <2>5, <2>6, <2>7, JobChanges
<1> QED BY <1>6, <1>7, <1>8

\* The invariant holds at the start.
LEMMA CloudInit == Init => CloudInv
<1> SUFFICES ASSUME Init PROVE CloudInv
  OBVIOUS
<1>1. JobsSound(jobs, objects)
  BY DEF Init, JobsSound
<1>2. AuditSound(audit, jobs)
  BY DEF Init, AuditSound, Blank
<1>3. MirrorSound(mirror, audit)
  BY DEF Init, MirrorSound
<1>4. OpsSound(op, objects, jobs, audit)
  BY DEF Init, OpsSound
<1>5. FilesSound(files, op, audit)
  BY DEF Init, FilesSound
<1> QED BY <1>1, <1>2, <1>3, <1>4, <1>5 DEF CloudInv

\* Every step keeps the invariant.
LEMMA CloudStep == CloudInv /\ [Next]_vars => CloudInv'
<1> SUFFICES ASSUME CloudInv, [Next]_vars PROVE CloudInv'
  OBVIOUS
<1>1. CASE UNCHANGED cloud
  BY <1>1 DEF cloud, CloudInv
<1>2. ASSUME NEW o \in Operators, Invoke(o) PROVE CloudInv'
  BY <1>2, InvokeStep
<1>3. ASSUME NEW o \in Operators, Upload(o) PROVE CloudInv'
  BY <1>3, UploadStep
<1>4. ASSUME NEW o \in Operators, Observe(o) PROVE CloudInv'
  BY <1>4, ObserveStep
<1>5. ASSUME NEW o \in Operators, Find(o) PROVE CloudInv'
  BY <1>5, FindStep
<1>6. ASSUME NEW o \in Operators, Launch(o) PROVE CloudInv'
  BY <1>6, LaunchStep
<1>7. ASSUME NEW o \in Operators, Verify(o) PROVE CloudInv'
  BY <1>7, VerifyStep
<1>8. ASSUME NEW o \in Operators, EnsureAudit(o) PROVE CloudInv'
  BY <1>8, EnsureAuditStep
<1>9. ASSUME NEW o \in Operators, GetRun(o) PROVE CloudInv'
  BY <1>9, GetRunStep
<1>10. ASSUME NEW o \in Operators, Advance(o) PROVE CloudInv'
  BY <1>10, AdvanceStep
<1>11. ASSUME NEW o \in Operators, Synced(o) PROVE CloudInv'
  BY <1>11, SyncedStep
<1>12. ASSUME NEW o \in Operators, Emit(o) PROVE CloudInv'
  BY <1>12, EmitStep
<1>13. ASSUME NEW o \in Operators, Commit(o) PROVE CloudInv'
  BY <1>13, CommitStep
<1>14. ASSUME NEW o \in Operators, Fail(o) PROVE CloudInv'
  BY <1>14, RejectedLeaves DEF Fail
<1>15. ASSUME NEW o \in Operators, Die(o) PROVE CloudInv'
  BY <1>15, LeavesIt DEF Die
<1>16. ASSUME NEW j \in JobIds, Load(j) \/ Finish(j) \/ Break(j) PROVE CloudInv'
  BY <1>16, JobStep
<1> QED
  <2>1. UNCHANGED cloud \/ Command
    BY DEF vars, Next, Prepare, Save
  <2> QED BY <2>1, <1>1, <1>2, <1>3, <1>4, <1>5, <1>6, <1>7, <1>8, <1>9, <1>10, <1>11, <1>12,
             <1>13, <1>14, <1>15, <1>16 DEF Command

-----------------------------------------------------------------------------
(* What the cloud run promises. *)

\* A bundle carries its approval, plans, output and source.
LEMMA BundleFields ==
    ASSUME NEW s, NEW a, NEW p, NEW t
    PROVE  /\ Bundle(s, a, p).approval = a /\ Bundle(s, a, p).plans = p.plans
           /\ Bundle(s, a, p).output = Output(p) /\ Bundle(s, a, p).source = s
           /\ [Bundle(s, a, p) EXCEPT !.source = t] = Bundle(t, a, p)
BY DEF Bundle, PlansDigest

\* Whatever operators upload, launch, adopt, lose and repeat, a job's inputs are
\* all stored before it exists, under an approval that names their plans, and no
\* job refuses its bundle: for any number of operators, sources and jobs.
THEOREM WorkIsReady == Spec => []WorkReady
<1>1. CloudInv => WorkReady
  <2> SUFFICES ASSUME CloudInv, NEW j \in JobIds, NEW b, b = jobs[j].bundle
               PROVE  /\ b.approval.digest = b.plans
                      /\ \A s \in Sources :
                            [b EXCEPT !.source = s] \in objects /\ Loadable[b.output][s]
    BY DEF WorkReady
  <2>1. Ready(b, objects)
    BY DEF CloudInv, JobsSound, JobSound, JobIds
  <2>2. PICK r \in Sources, a \in ApprovalSet, p \in Bundleable :
          /\ b = Bundle(r, a, p) /\ a.digest = p.plans
          /\ \A t \in Sources : Bundle(t, a, p) \in objects
    BY <2>1 DEF Ready
  <2>3. \A s \in Sources : [b EXCEPT !.source = s] \in objects
    BY <2>2, BundleFields
  <2>4. \A s \in Sources : Loadable[b.output][s]
    BY <2>2, BundleFields, BundleableWork
  <2>5. b.approval.digest = b.plans
    BY <2>2, BundleFields
  <2> QED BY <2>3, <2>4, <2>5
<1> QED BY <1>1, CloudInit, CloudStep, PTL DEF Spec

\* Mission Control never runs ahead of the audit nor against it, whichever
\* operators take turns in advancing it.
THEOREM MirrorIsTruthful == Spec => []MirrorTruthful
<1>1. CloudInv => MirrorTruthful
  <2> SUFFICES ASSUME CloudInv PROVE MirrorTruthful
    OBVIOUS
  <2>1. audit # Blank => Audited
    BY SoundRowsAreThere DEF CloudInv, AuditSound, Audited
  <2> QED BY <2>1 DEF CloudInv, MirrorSound, MirrorTruthful
<1> QED BY <1>1, CloudInit, CloudStep, PTL DEF Spec

\* The audit is all or nothing, of one approval and one portfolio, of jobs that
\* are done and have loaded every row, and every proof is that audit: for any
\* number of operators that start, fail, die, repeat and overtake each other.
THEOREM AuditIsTruthful == Spec => []AuditTruthful
<1>1. CloudInv => AuditTruthful
  <2> SUFFICES ASSUME CloudInv PROVE AuditTruthful
    OBVIOUS
  <2>1. audit # Blank => RowsSound(audit, jobs) /\ Audited
    BY SoundRowsAreThere DEF CloudInv, AuditSound, Audited
  <2>2. audit = Blank => \A s \in Sources : audit[s] = None
    BY DEF Blank
  <2>3. Audited => audit # Blank
    BY <2>2, SourceOrderFacts DEF Audited
  <2>4. \A proof \in Proofs : proof = audit
    <3> TAKE proof \in Proofs
    <3>1. PICK path \in Paths : files[path] # None /\ files[path].proof = proof /\ proof # None
      BY DEF Proofs
    <3> QED BY <3>1 DEF CloudInv, FilesSound
  <2>5. ASSUME Audited, NEW s \in Sources
        PROVE  LET row == audit[s]
               IN  /\ jobs[row.job].state = "done"
                   /\ jobs[row.job].bundle = row.bundle
                   /\ jobs[row.job].rows = DestinationRows(row.bundle)
                   /\ \A t \in Sources : audit[t].bundle = [row.bundle EXCEPT !.source = t]
    <3>1. PICK a \in ApprovalSet, p \in Bundleable : \A t \in Sources :
            audit[t].bundle = Bundle(t, a, p) /\ Verified(audit[t].job, Bundle(t, a, p), jobs)
      BY <2>1, <2>3, <2>5 DEF RowsSound
    <3>2. PICK j, b : j = audit[s].job /\ b = audit[s].bundle
      OBVIOUS
    <3>3. b = Bundle(s, a, p) /\ Verified(j, b, jobs)
      BY <3>1, <3>2
    <3>4. j \in DOMAIN jobs /\ jobs[j].state = "done" /\ jobs[j].bundle = b
      BY <3>3 DEF Verified
    <3>5. jobs[j].rows = DestinationRows(b)
      BY <3>4 DEF CloudInv, JobsSound, JobSound
    <3>6. \A t \in Sources : audit[t].bundle = [b EXCEPT !.source = t]
      BY <3>1, <3>3, BundleFields
    <3> QED BY <3>2, <3>4, <3>5, <3>6
  <2> QED BY <2>1, <2>2, <2>4, <2>5 DEF AuditTruthful
<1> QED BY <1>1, CloudInit, CloudStep, PTL DEF Spec
=============================================================================
