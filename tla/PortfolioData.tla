----------------------------- MODULE PortfolioData -----------------------------
(***************************************************************************)
(* The data path of one source: the decoded records are protected           *)
(* (edge_security), checked and packed (control_plane.artifacts), a model's  *)
(* draft plan is admitted (gemini_planner), executed by the trusted          *)
(* interpreter, bundled for the cloud (cloud_runtime.bundle) and validated   *)
(* again by the job that loads it (dataflow_template).                       *)
(*                                                                          *)
(* Each stage re-checks the one before, in code of its own, and refuses the *)
(* whole source on the first thing it dislikes.                             *)
(*                                                                          *)
(* A value is its Python type and its text; a token is the record of what   *)
(* it authenticates.  A digest of rows is the rows.  Which texts parse as   *)
(* what, how a number is written again, what normalize makes of it and how a *)
(* text is folded to lower case are parameters.  The interpreter's refusals  *)
(* keep their codes; at the other stages those of one kind share one.        *)
(***************************************************************************)
EXTENDS Naturals, Sequences, FiniteSets

CONSTANTS
    Reads,      \* text -> the types whose parser accepts it
    Written,    \* type -> text -> the text of the decimal, date or time it denotes
    Normal,     \* text -> that text once the number is normalised
    Folded,     \* text -> that text in lower case
    Residual,   \* texts in which a residual pattern is found
    NonFinite,  \* texts that parse as a decimal but denote no number
    Huge,       \* texts of numbers outside the warehouse's domains
    CloudNames, \* the field names a warehouse table may have
    Decodings,  \* decoded sources
    Candidates  \* drafts a model may answer with

Texts == DOMAIN Reads

\* The types a plan may name, for a cast and for an output.
Types == {"string", "integer", "decimal", "boolean", "bytes", "date", "timestamp"}

\* What reading and writing have in common: an integer reads as a decimal too;
\* a number, a date, a time or a truth value that was written reads as what it
\* was; and none of them is written like an address or a telephone number.
ASSUME TextAssumption ==
    /\ {"true", "false"} \subseteq Texts /\ "" \notin Residual
    /\ \A x \in {"true", "false"} : "boolean" \in Reads[x] /\ x \notin Residual
    /\ \A x \in Texts :
          /\ Normal[x] \in Texts
          /\ "integer" \in Reads[x] => "decimal" \in Reads[x]
          /\ "decimal" \in Reads[x] => "decimal" \in Reads[Normal[x]] /\ Normal[x] \notin Residual
          /\ \A t \in {"decimal", "date", "timestamp"} :
                /\ Written[t][x] \in Texts
                /\ t \in Reads[x] =>
                     /\ t \in Reads[Written[t][x]] /\ Written[t][x] \notin Residual
                     /\ Written[t][Written[t][x]] = Written[t][x]
          /\ x \notin NonFinite => Written["decimal"][x] \notin NonFinite

\* A value as it was decoded: a number's text reads as a number, a truth
\* value's as one.
DecodedValue(v) ==
    /\ v.x \in Texts
    /\ v.t \in {"int", "float"} => "decimal" \in Reads[v.x]
    /\ v.t = "bool" => "boolean" \in Reads[v.x]

\* A finite list, of records, operations or columns.
List(s) == Len(s) \in Nat /\ DOMAIN s = 1 .. Len(s)

\* A plan as its schema admits it.
PlanTyped(draft) ==
    /\ List(draft.ops) /\ \A k \in DOMAIN draft.ops :
          draft.ops[k].op = "cast" => draft.ops[k].type \in Types
    /\ List(draft.outputs) /\ \A k \in DOMAIN draft.outputs : draft.outputs[k].type \in Types

ASSUME DataAssumption ==
    /\ \A d \in Decodings :
          List(d) /\ \A i \in DOMAIN d : \A f \in DOMAIN d[i] :
             LET v == d[i][f].value
             IN  DecodedValue(v) /\ v.mac = <<>> /\ (v.t # "str" => v.x \notin Residual)
    /\ \A draft \in Candidates : PlanTyped(draft)

VARIABLE desk   \* the source under way: the stage, its records, draft and rows

Fine(rows)    == [code |-> "ok", rows |-> rows]
Refused(code) == [code |-> code, rows |-> <<>>]

-----------------------------------------------------------------------------
(* At the edge. *)

Null == [t |-> "none", x |-> "", mac |-> <<>>]
Plain(t, x) == [t |-> t, x |-> x, mac |-> <<>>]

\* Slip: the token authenticates the value alone.
TokenOfValue(i, f, v) == [t |-> "str", x |-> v.x, mac |-> <<v.t>>]

\* The token of a field: a keyed hash over ordinal, field and value.
Token(i, f, v) == [t |-> "str", x |-> v.x, mac |-> <<i, f, v.t>>]

HasResidualPii(v) == v.t = "str" /\ v.x \in Residual

Sanitize(i, f, c) ==
    IF c.category = "public" THEN [protection |-> "sanitized", value |-> c.value]
    ELSE [protection |-> "tokenized", value |-> Token(i, f, c.value)]

Sanitized(d) ==
    IF \E i \in DOMAIN d : \E f \in DOMAIN d[i] :
          d[i][f].category = "public" /\ HasResidualPii(d[i][f].value)
    THEN Refused("redaction")
    ELSE Fine([i \in DOMAIN d |-> [f \in DOMAIN d[i] |-> Sanitize(i, f, d[i][f])]])

\* Every record has the same fields, categories and scalar types.
ScalarTypes == {"none", "bool", "int", "float", "str"}
SchemaDescriptor(r) == [f \in DOMAIN r |-> <<r[f].category, r[f].value.t>>]
Uniform(d) ==
    /\ d # <<>>
    /\ \A i \in DOMAIN d :
          /\ SchemaDescriptor(d[i]) = SchemaDescriptor(d[1])
          /\ \A f \in DOMAIN d[i] : d[i][f].value.t \in ScalarTypes

ValidSanitizedOutput(d, rows) ==
    /\ Len(rows) = Len(d)
    /\ \A i \in DOMAIN d :
          /\ DOMAIN rows[i] = DOMAIN d[i]
          /\ \A f \in DOMAIN d[i] :
                IF d[i][f].category = "public"
                THEN rows[i][f] = [protection |-> "sanitized", value |-> d[i][f].value]
                ELSE /\ rows[i][f].protection = "tokenized"
                     /\ rows[i][f].value.t = "str" /\ rows[i][f].value.mac # <<>>

\* The local model's review comes last and must have found nothing.
EdgeArtifacts(d, reviewed) ==
    LET s == Sanitized(d)
    IN  IF s.code # "ok" THEN s
        ELSE IF ~Uniform(d) THEN Refused("schema")
        ELSE IF ~ValidSanitizedOutput(d, s.rows) THEN Refused("sanitized_output")
        ELSE IF ~reviewed THEN Refused("review")
        ELSE s

-----------------------------------------------------------------------------
(* The draft: operations over field names, and the declared output. *)

Names(outputs) == {outputs[k].name : k \in DOMAIN outputs}
Distinct(outputs) == Cardinality(Names(outputs)) = Len(outputs)

BatchFieldNames(rows) == DOMAIN rows[1]

\* The fields after one operation, "ok" as long as it applies.
DraftStep(acc, o) ==
    LET legal == /\ o.op \in {"rename", "cast", "drop"} /\ o.field \in acc.rows
                 /\ o.op = "rename" => o.to \notin acc.rows
    IN  IF acc.code # "ok" THEN acc
        ELSE IF ~legal THEN Refused("draft")
        ELSE CASE o.op = "rename" -> Fine((acc.rows \ {o.field}) \cup {o.to})
               [] o.op = "drop"   -> Fine(acc.rows \ {o.field})
               [] o.op = "cast"   -> acc

\* The fields after the whole draft.
DraftFields(draft, rows) ==
    LET after[k \in 0 .. Len(draft.ops)] ==
            IF k = 0 THEN Fine(BatchFieldNames(rows)) ELSE DraftStep(after[k-1], draft.ops[k])
    IN  after[Len(draft.ops)]

\* Slip: the declared fields need only be among the remaining ones.
ValidateCloudDraftLoose(draft, rows) ==
    LET end == DraftFields(draft, rows)
    IN  /\ draft.ops # <<>> /\ draft.outputs # <<>> /\ Distinct(draft.outputs)
        /\ end.code = "ok" /\ Names(draft.outputs) \subseteq end.rows

ValidateCloudDraft(draft, rows) ==
    LET end == DraftFields(draft, rows)
    IN  /\ draft.ops # <<>> /\ draft.outputs # <<>> /\ Distinct(draft.outputs)
        /\ end.code = "ok" /\ end.rows = Names(draft.outputs)

-----------------------------------------------------------------------------
(* The interpreter. *)

RequireField(rows, f) == rows # <<>> /\ \A i \in DOMAIN rows : f \in DOMAIN rows[i]

Rename(rows, o) ==
    IF ~RequireField(rows, o.field) THEN Refused("operation_missing_field")
    ELSE IF o.field = o.to \/ \E i \in DOMAIN rows : o.to \in DOMAIN rows[i]
    THEN Refused("rename_overwrite")
    ELSE Fine([i \in DOMAIN rows |->
                [f \in (DOMAIN rows[i] \ {o.field}) \cup {o.to} |->
                    IF f = o.to THEN rows[i][o.field] ELSE rows[i][f]]])

Drop(rows, o) ==
    IF ~RequireField(rows, o.field) THEN Refused("operation_missing_field")
    ELSE Fine([i \in DOMAIN rows |-> [f \in DOMAIN rows[i] \ {o.field} |-> rows[i][f]]])

Integral(x) == "integer" \in Reads[Normal[x]]

\* Whether the caster of a type takes the value, and the value it makes of it.
Castable(v, type) ==
    CASE type = "string"  -> TRUE
      [] type = "integer" -> \/ v.t = "int"
                             \/ (v.t \in {"float", "decimal"} /\ Integral(v.x))
                             \/ (v.t = "str" /\ "integer" \in Reads[v.x])
      [] type = "decimal" -> \/ v.t \in {"decimal", "int", "float"}
                             \/ (v.t = "str" /\ "decimal" \in Reads[v.x])
      [] type = "boolean" -> \/ v.t = "bool"
                             \/ (v.t \in {"int", "str"} /\ "boolean" \in Reads[v.x])
      [] type = "bytes"   -> v.t \in {"bytes", "str"}
      [] OTHER            -> v.t = type \/ (v.t = "str" /\ type \in Reads[v.x])

PyType(type) == CASE type = "string"  -> "str" [] type = "integer" -> "int"
                  [] type = "boolean" -> "bool" [] OTHER -> type

\* Upper and lower case are not told apart.
Truth(x) == IF Folded[x] \in {"1", "true"} THEN "true" ELSE "false"

\* The text of what a cast makes of a text it takes.
CastText(x, type) ==
    CASE type \in {"decimal", "date", "timestamp"} -> Written[type][x]
      [] type = "integer" -> Normal[x]
      [] type = "boolean" -> Truth(x)
      [] OTHER -> x

CastValue(v, type) == Plain(PyType(type), CastText(v.x, type))

\* The cell after a cast that is not refused: absent values and tokens are
\* left alone, what does not parse becomes null.
CastCell(c, o) ==
    IF c.value = Null \/ c.protection = "tokenized" THEN c
    ELSE [c EXCEPT !.value = IF Castable(@, o.type) THEN CastValue(@, o.type) ELSE Null]

\* What a cast says of one cell.  A token refuses every type but its own; no
\* policy lets a number pass that is none.
CastRefusal(c, o) ==
    IF c.value = Null THEN "ok"
    ELSE IF c.protection = "tokenized"
    THEN IF o.type = "string" THEN "ok" ELSE "tokenized_type_change"
    ELSE IF ~Castable(c.value, o.type)
    THEN IF o.policy = "reject" THEN "invalid_cast" ELSE "ok"
    ELSE IF o.type = "decimal" /\ c.value.x \in NonFinite THEN "nonfinite_numeric" ELSE "ok"

\* The first refusal on a list ends the execution.
FirstRefusal(codes) ==
    IF \A k \in DOMAIN codes : codes[k] = "ok" THEN "ok"
    ELSE codes[CHOOSE k \in DOMAIN codes :
                  codes[k] # "ok" /\ \A j \in DOMAIN codes : codes[j] # "ok" => k <= j]

Cast(rows, o) ==
    LET refusal == FirstRefusal([i \in DOMAIN rows |-> CastRefusal(rows[i][o.field], o)])
    IN  IF ~RequireField(rows, o.field) THEN Refused("operation_missing_field")
        ELSE IF refusal # "ok" THEN Refused(refusal)
        ELSE Fine([i \in DOMAIN rows |-> [rows[i] EXCEPT ![o.field] = CastCell(@, o)]])

Handle(acc, o) ==
    IF acc.code # "ok" THEN acc
    ELSE CASE o.op = "rename" -> Rename(acc.rows, o)
           [] o.op = "cast"   -> Cast(acc.rows, o)
           [] o.op = "drop"   -> Drop(acc.rows, o)
           [] OTHER           -> Refused("edge_operation_in_cloud")

MatchesType(v, type) ==
    IF type = "decimal" THEN v.t \in {"int", "float", "decimal"} ELSE v.t = PyType(type)

\* What an output column says of one cell.
CellRefusal(c, o) ==
    IF c.value = Null THEN IF o.nullable THEN "ok" ELSE "output_nullability"
    ELSE IF c.protection = "tokenized" /\ o.type # "string" THEN "tokenized_type_change"
    ELSE IF ~MatchesType(c.value, o.type) THEN "output_type" ELSE "ok"

RowRefusal(row, outputs) ==
    IF DOMAIN row # Names(outputs) THEN "output_field_mismatch"
    ELSE FirstRefusal([k \in DOMAIN outputs |-> CellRefusal(row[outputs[k].name], outputs[k])])

FinishRows(acc, outputs) ==
    LET refusal == FirstRefusal([i \in DOMAIN acc.rows |-> RowRefusal(acc.rows[i], outputs)])
    IN  IF acc.code # "ok" THEN acc
        ELSE IF ~Distinct(outputs) THEN Refused("output_duplicate_field")
        ELSE IF refusal # "ok" THEN Refused(refusal)
        ELSE acc

ExecutePlan(draft, rows) ==
    LET after[k \in 0 .. Len(draft.ops)] ==
            IF k = 0 THEN Fine(rows) ELSE Handle(after[k-1], draft.ops[k])
    IN  FinishRows(after[Len(draft.ops)], draft.outputs)

-----------------------------------------------------------------------------
(* JSON: what the interpreter digests, what the bundle holds, what the job  *)
(* accepts.                                                                 *)

Json(j, v, x) == [j |-> j, x |-> x, mac |-> v.mac]

DigestableValue(v) ==
    Json(CASE v.t = "bytes" -> "base64" [] v.t = "none" -> "null" [] v.t = "bool" -> "bool"
           [] v.t = "int" -> "number" [] v.t = "float" -> "real" [] OTHER -> "string", v, v.x)

JsonValue(v, type) ==
    IF type = "decimal" /\ v # Null THEN Json("string", v, Normal[v.x]) ELSE DigestableValue(v)

InDomain(v, type) ==
    v # Null /\ type \in {"integer", "decimal"} => v.x \notin Huge

OutputDeclarations(outputs) ==
    outputs # <<>> /\ Distinct(outputs) /\ Names(outputs) \subseteq CloudNames

ColumnOf(outputs, f) == outputs[CHOOSE k \in DOMAIN outputs : outputs[k].name = f]

\* The rows as the bundle has them, and as the interpreter digested them.
BundledRows(rows, outputs) ==
    [i \in DOMAIN rows |-> [f \in DOMAIN rows[i] |->
        [protection |-> rows[i][f].protection,
         value |-> JsonValue(rows[i][f].value, ColumnOf(outputs, f).type)]]]
DigestedRows(rows) ==
    [i \in DOMAIN rows |-> [f \in DOMAIN rows[i] |->
        [protection |-> rows[i][f].protection, value |-> DigestableValue(rows[i][f].value)]]]

\* The rows of the bundle; their digest must be the one the interpreter gave.
CanonicalRows(rows, outputs) ==
    IF ~OutputDeclarations(outputs) THEN Refused("cloud_plan_schema")
    ELSE IF \E i \in DOMAIN rows : \E f \in DOMAIN rows[i] :
               ~InDomain(rows[i][f].value, ColumnOf(outputs, f).type)
    THEN Refused("cloud_numeric_domain")
    ELSE IF \E i \in DOMAIN rows : \E f \in DOMAIN rows[i] :
               rows[i][f].protection = "tokenized" /\ rows[i][f].value.mac = <<>>
    THEN Refused("cloud_token")
    ELSE IF BundledRows(rows, outputs) # DigestedRows(rows) THEN Refused("cloud_output_digest")
    ELSE Fine(BundledRows(rows, outputs))

\* The job's own opinion of a value.
ValidValue(w, type, nullable) ==
    IF w.j = "null" THEN nullable ELSE
    CASE type = "string"   -> w.j \in {"string", "base64"}
      [] type = "integer"  -> w.j = "number" /\ w.x \notin Huge
      [] type = "decimal"  -> /\ w.j = "string" /\ "decimal" \in Reads[w.x]
                              /\ w.x \notin NonFinite \cup Huge
      [] type = "boolean"  -> w.j = "bool"
      [] type = "bytes"    -> w.j = "base64"
      [] OTHER             -> /\ w.j = "string" /\ type \in Reads[w.x]
                              /\ type = "date" => Written["date"][w.x] = w.x

BigquerySchema(outputs) ==
    outputs # <<>> /\ Distinct(outputs) /\ Names(outputs) \subseteq CloudNames

ValidateBundleDocument(rows, outputs) ==
    /\ BigquerySchema(outputs)
    /\ \A i \in DOMAIN rows :
          /\ DOMAIN rows[i] = Names(outputs)
          /\ \A k \in DOMAIN outputs :
                ValidValue(rows[i][outputs[k].name].value, outputs[k].type, outputs[k].nullable)

-----------------------------------------------------------------------------
(* The stages, one after the other; a refusal is the end. *)

Empty == [at |-> "empty"]
Going(at) == desk.at = at /\ desk.out.code = "ok"
Stage(at, out) == desk' = [desk EXCEPT !.at = at, !.out = out]

Edge ==
    /\ desk = Empty
    /\ \E d \in Decodings, reviewed \in BOOLEAN :
         desk' = [at |-> "edge", decoded |-> d, draft |-> Empty, out |-> EdgeArtifacts(d, reviewed)]

\* A draft the gate does not admit is no plan.
Plan ==
    /\ Going("edge")
    /\ \E draft \in Candidates :
         /\ ValidateCloudDraft(draft, desk.out.rows)
         /\ desk' = [desk EXCEPT !.at = "planned", !.draft = draft]

Execute == Going("planned") /\ Stage("executed", ExecutePlan(desk.draft, desk.out.rows))

Package == Going("executed") /\ Stage("bundled", CanonicalRows(desk.out.rows, desk.draft.outputs))

Receive ==
    /\ Going("bundled")
    /\ Stage("loaded", IF ValidateBundleDocument(desk.out.rows, desk.draft.outputs)
                       THEN desk.out ELSE Refused("bundle_schema"))

DataPath == Edge \/ Plan \/ Execute \/ Package \/ Receive

-----------------------------------------------------------------------------
\* Where each field of a record comes from, and what the casts of its way make
\* of the value it had there; what stands for a classified value is a text.  A
\* field that was dropped or renamed is not removed.
FirstLineage(record) ==
    [f \in DOMAIN record |->
        [from  |-> f,
         value |-> IF record[f].category = "public" THEN record[f].value
                   ELSE Plain("str", record[f].value.x)]]

LineageStep(lineage, o) ==
    IF o.op = "rename"
    THEN [f \in DOMAIN lineage \cup {o.to} |-> IF f = o.to THEN lineage[o.field] ELSE lineage[f]]
    ELSE IF o.op = "cast" THEN [lineage EXCEPT ![o.field].value = CastValue(@, o.type)]
    ELSE lineage

\* The lineage after each operation, and after all of them.
Lineages(draft, record) ==
    LET after[k \in 0 .. Len(draft.ops)] ==
            IF k = 0 THEN FirstLineage(record) ELSE LineageStep(after[k-1], draft.ops[k])
    IN  after
Lineage(draft, record) == Lineages(draft, record)[Len(draft.ops)]

Classified(record, from) == record[from.from].category # "public"

\* The draft gives a classified field of the record another type, by a cast or
\* in the declared output.
Retypes(draft, record) ==
    \/ \E k \in DOMAIN draft.ops :
          LET o == draft.ops[k]
          IN  /\ o.op = "cast" /\ o.type # "string"
              /\ Classified(record, Lineages(draft, record)[k-1][o.field])
    \/ \E k \in DOMAIN draft.outputs :
          LET o == draft.outputs[k]
          IN  o.type # "string" /\ Classified(record, Lineage(draft, record)[o.name])

\* The draft declares a public field of the record with a type that its casts
\* do not give it.
Misdeclares(draft, record) ==
    \E k \in DOMAIN draft.outputs :
      LET o    == draft.outputs[k]
          from == Lineage(draft, record)[o.name]
      IN  ~Classified(record, from) /\ ~MatchesType(from.value, o.type)

\* A bundled value w of record i is that of the decoded field c, by name g,
\* which the casts turn into v.
Represents(w, i, g, c, v) ==
    IF c.category = "public"
    THEN w.mac = <<>> /\ w.x \notin Residual /\ (w.j = "null" \/ w.x = v.x)
    ELSE w = [j |-> "string", x |-> c.value.x, mac |-> <<i, g, c.value.t>>]

\* Nothing is disclosed, lost or mixed up, whatever plan the model drafted:
\* each bundled row is one source record, at its ordinal; a classified field, if
\* it is there at all, is the token of its own value (of absent ones too) in
\* its own record and field; and a public field holds its own value, in which
\* no residual pattern was found, put through the casts of its own field and
\* nothing else, or null where one of them gave up.
ProtectedToTheEnd ==
    desk.at = "bundled" =>
      /\ desk.out.code = "ok" => Len(desk.out.rows) = Len(desk.decoded)
      /\ \A i \in DOMAIN desk.out.rows : \A f \in DOMAIN desk.out.rows[i] :
            LET from == Lineage(desk.draft, desk.decoded[i])[f]
                c    == desk.decoded[i][from.from]
            IN  Represents(desk.out.rows[i][f].value, i, from.from, c, from.value)

\* The refusals that depend on the text of a value.
ValueRefusals == {"invalid_cast", "nonfinite_numeric", "output_nullability"}

\* How far the stages agree, though each is written on its own.  The packer
\* takes what the redactor made of uniform records.  A draft the planner admits
\* never fails in the interpreter on its operations or on the names of its
\* fields: it is refused for the text of a value, for a column of a type that
\* the field's casts do not give it, or for retyping a classified field, and a
\* draft that does the last never executes, whatever the values.  The builder
\* finds a token wherever it expects one, and the job takes every bundle the
\* builder made.  (The builder's refusals of names, of numbers outside the
\* warehouse's domain and of numbers it writes differently are its own.)
GatesAgree ==
    /\ desk.at = "edge" => desk.out.code # "sanitized_output"
    /\ desk.at = "executed" =>
         LET retypes     == \E i \in DOMAIN desk.decoded : Retypes(desk.draft, desk.decoded[i])
             misdeclares == \E i \in DOMAIN desk.decoded : Misdeclares(desk.draft, desk.decoded[i])
         IN  \/ desk.out.code = "ok" /\ ~retypes
             \/ desk.out.code \in ValueRefusals
             \/ desk.out.code = "tokenized_type_change" /\ retypes
             \/ desk.out.code = "output_type" /\ misdeclares
    /\ desk.at = "bundled" => desk.out.code # "cloud_token"
    /\ desk.at = "loaded" => desk.out.code = "ok"

\* "Reject plans that the closed cloud interpreter cannot apply": no draft that
\* _validate_cloud_draft admits is refused by _cast or _finish_rows for the
\* type it gives a token, which is refused whatever the token's value.
AdmittedDraftsApply ==
    desk.at = "executed" => desk.out.code # "tokenized_type_change"
=============================================================================
