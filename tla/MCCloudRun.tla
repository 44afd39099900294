----------------------------- MODULE MCCloudRun -----------------------------
(***************************************************************************)
(* Two operators, two sources (the smallest portfolio in which one source   *)
(* is verified while another may still change), two approvals of the same   *)
(* plans (Mission Control's and one passed by hand), and eight snapshots:   *)
(* the prepared one, three whose parts disagree, three the interpreter      *)
(* refuses and one the bundle builder refuses.                              *)
(*                                                                          *)
(* The data path is checked over the decoded sources and drafts below:      *)
(* public and classified fields, absent values, records that differ, and    *)
(* drafts of one or two operations over three field names.                  *)
(***************************************************************************)
EXTENDS CloudRun, TLC

CONSTANTS o1, o2, s1, s2, f1, f2, m1, m2, ann, bob

-----------------------------------------------------------------------------
(* Texts. *)

MCReads ==
    [x \in {""} |-> {}]
    @@ ("7"    :> {"integer", "decimal"})
    @@ ("7.50" :> {"decimal"})
    @@ ("7.5"  :> {"decimal"})
    @@ ("007"  :> {"integer", "decimal"})
    @@ ("1"    :> {"integer", "decimal", "boolean"})
    @@ ("true" :> {"boolean"}) @@ ("TRUE" :> {"boolean"}) @@ ("false" :> {"boolean"})
    @@ ("nan"  :> {"decimal"})
    @@ ("huge" :> {"integer", "decimal"})
    @@ ("day"  :> {"date"}) @@ ("20260105" :> {"integer", "decimal", "date"})
    @@ ("noonZ" :> {"timestamp"}) @@ ("noon" :> {"timestamp"})
    @@ ("name" :> {}) @@ ("ssn" :> {})
MCWritten ==
    LET as(from, to) == [x \in DOMAIN MCReads |-> IF x = from THEN to ELSE x]
    IN  ("decimal" :> as("007", "7")) @@ ("date" :> as("20260105", "day"))
        @@ ("timestamp" :> as("noonZ", "noon"))
MCNormal == [x \in DOMAIN MCReads |-> IF x = "7.50" THEN "7.5" ELSE MCWritten["decimal"][x]]
MCFolded == [x \in DOMAIN MCReads |-> IF x = "TRUE" THEN "true" ELSE x]
MCResidual == {"ssn"}
MCNonFinite == {"nan"}
MCHuge == {"huge"}
MCCloudNames == {"a", "b"}

-----------------------------------------------------------------------------
(* Decoded sources and drafts. *)

Public(v)  == [category |-> "public", value |-> v]
Secret(v)  == [category |-> "pii", value |-> v]
Str(x)     == Plain("str", x)

MCDecodings ==
    {<<[a |-> Public(Str(x)), b |-> Secret(Str("ssn"))]>> : x \in DOMAIN MCReads}
    \cup {<<[a |-> Public(Str("name")), b |-> Secret(v)], [a |-> Public(Str(x)), b |-> Secret(v)]>> :
            v \in {Str("7"), Null}, x \in {"7", "name", "nan"}}
    \cup {<<[a |-> Public(v)]>> :
            v \in {Plain("int", "7"), Plain("int", "1"), Plain("int", "huge"), Plain("float", "7.5"),
                   Plain("float", "7"), Plain("bool", "true"), Null}}
    \cup {<<[a |-> Public(Str("7"))], [a |-> Public(Null)]>>,
          <<[a |-> Public(Str("7"))], [a |-> Secret(Str("7"))]>>,
          <<[a |-> Secret(Str("7"))], [b |-> Secret(Str("7"))]>>,
          <<>>}

Op(o, f, to, type, policy) == [op |-> o, field |-> f, to |-> to, type |-> type, policy |-> policy]
Renames == {Op("rename", fg[1], fg[2], "", "") :
               fg \in {<<"a", "a">>, <<"a", "b">>, <<"a", "c">>, <<"b", "c">>, <<"b", "a">>}}
Operations ==
    Renames
    \cup {Op("drop", f, "", "", "") : f \in {"a", "b", "c"}}
    \cup {Op("cast", "a", "", t, q) : t \in Types, q \in {"reject", "null"}}
    \cup {Op("cast", "b", "", t, "null") : t \in {"string", "decimal"}}
    \cup {Op("redact", "a", "", "", "")}
FirstOperations ==
    Renames \cup {Op("drop", "b", "", "", "")} \cup {Op("cast", "a", "", t, "null") : t \in Types}
Column(n, t, z) == [name |-> n, type |-> t, nullable |-> z]
Columns ==
    {<<Column("a", t, z)>> : t \in Types, z \in BOOLEAN}
    \cup {<<Column(n, t, TRUE)>> : n \in {"b", "c"}, t \in Types}
    \cup {<<Column("a", t, z), Column(n, "string", FALSE)>> : z \in BOOLEAN, t \in Types, n \in {"b", "c"}}
    \cup {<<Column("a", "string", FALSE), Column("a", "string", FALSE)>>}
MCCandidates ==
    {[ops |-> ops, outputs |-> outputs] :
        ops \in {<<o>> : o \in Operations}
                \cup {<<o, q>> : o \in FirstOperations, q \in Operations},
        outputs \in Columns}

-----------------------------------------------------------------------------
(* The portfolio. *)

MCSourceOrder == <<s1, s2>>

One(x) == <<[a |-> Public(Str(x)), b |-> Secret(Str("ssn"))]>>
Reading(x) ==
    (s1 :> EdgeArtifacts(One(x), TRUE).rows)
    @@ (s2 :> EdgeArtifacts(<<[a |-> Public(Str("7"))], [a |-> Public(Str("1"))]>>, TRUE).rows)
MCBatches == ("read" :> Reading("7")) @@ ("garbled" :> Reading("name")) @@ ("padded" :> Reading("7.50"))

Answer(o, type) ==
    (s1 :> [ops |-> <<o>>, outputs |-> <<Column("a", type, FALSE), Column("b", "string", FALSE)>>])
    @@ (s2 :> [ops |-> <<Op("cast", "a", "", "integer", "reject")>>,
               outputs |-> <<Column("a", "integer", FALSE)>>])
MCPlans ==
    ("good"    :> [manifest |-> m1, of |-> Answer(Op("cast", "a", "", "decimal", "reject"), "decimal")])
    @@ ("edge"  :> [manifest |-> m1, of |-> Answer(Op("redact", "a", "", "", ""), "string")])
    @@ ("token" :> [manifest |-> m1, of |-> Answer(Op("cast", "b", "", "decimal", "null"), "decimal")])
    @@ ("other" :> [manifest |-> m2, of |-> Answer(Op("cast", "a", "", "decimal", "reject"), "decimal")])

MCHanded == <<One("7"), MCPlans["good"].of[s1]>>

Snapshot(plans, records) ==
    [manifest |-> m1, batch |-> m1, records |-> records, plans |-> plans, digest |-> plans]
MCSnapshots ==
    {Snapshot("good", "read"),
     [Snapshot("good", "read") EXCEPT !.batch = m2],
     Snapshot("other", "read"),
     [Snapshot("good", "read") EXCEPT !.digest = "other"],
     Snapshot("good", "garbled"), Snapshot("good", "padded"),
     Snapshot("edge", "read"), Snapshot("token", "read")}

MCMcApproval == [approver |-> ann, digest |-> "good"]
MCApprovals == {[approver |-> bob, digest |-> d] : d \in DOMAIN MCPlans}

Symmetry == Permutations({o1, o2}) \cup Permutations({f1, f2})
=============================================================================
