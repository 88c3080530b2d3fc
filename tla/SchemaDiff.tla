----------------------------- MODULE SchemaDiff -----------------------------
(***************************************************************************)
(* How two captured schemas of an asset compare (package schema): the hash *)
(* that tells whether there is a new version, the list of changes, and     *)
(* which of them are breaking. A schema has columns by name and a primary  *)
(* key, and each column says for itself whether it is of the key: a        *)
(* descriptor fills both from one query (postgres.go:360), an asset that   *)
(* returns its schema with its result (capture.go:115) may say anything.   *)
(* A type is a family with its size. The variables are three schemas an    *)
(* asset has had one after the other.                                      *)
(***************************************************************************)
EXTENDS Integers, Sequences, SequencesExt

CONSTANTS ColumnNames,
          Types,    \* [family, size, scale]
          MaxLength \* the longest text that the database holds

ASSUME SchemaAssumption ==
    /\ Types \subseteq [family : STRING, size : Nat, scale : Nat]
    /\ MaxLength \in Nat
    /\ \A t \in Types : t.family = "varchar" => t.size <= MaxLength

VARIABLES first, previous, current

schemaVars == <<first, previous, current>>

Absent == [nothing |-> TRUE]
Has(s, c) == s.columns[c] # Absent

-----------------------------------------------------------------------------
(* IsWideningPostgres: whether the pair is in the lattice, and its         *)
(* direction. text is a varchar without a bound.                           *)
Ordered == {"int", "float", "varchar", "decimal"}
TextFamily(t) == t.family \in {"varchar", "text"}

Known(old, new) == \/ old = new
                   \/ old.family = new.family /\ old.family \in Ordered
                   \/ TextFamily(old) /\ TextFamily(new)

OneRankLess(old, new)  == old = new \/ (old.family = new.family /\ new.size + 1 >= old.size)
IsWidening(old, new) ==
    \/ old = new
    \/ old.family = "varchar" /\ new.family = "text"
    \/ /\ old.family = new.family /\ old.family \in Ordered
       /\ new.size >= old.size
       /\ old.family = "decimal" => new.scale >= old.scale

-----------------------------------------------------------------------------
(* Diff. A type change is provisionally "type_widened".                    *)
Kept(s, t) == {c \in ColumnNames : Has(s, c) /\ Has(t, c)}

DiffButDefaults(s, t) ==
    LET change(kind, cols) == {[kind |-> kind, column |-> c] : c \in cols}
        changed(field) == {c \in Kept(s, t) : s.columns[c][field] # t.columns[c][field]}
    IN   change("column_added", {c \in ColumnNames : ~ Has(s, c) /\ Has(t, c)})
    \cup change("column_dropped", {c \in ColumnNames : Has(s, c) /\ ~ Has(t, c)})
    \cup change("type_widened", changed("type"))
    \cup change("nullable_added", {c \in changed("nullable") : t.columns[c].nullable})
    \cup change("nullable_removed", {c \in changed("nullable") : s.columns[c].nullable})
    \cup change("comment_changed", changed("comment"))
    \cup (IF s.key = t.key THEN {} ELSE change("pk_changed", {"none"}))

Diff(s, t) == DiffButDefaults(s, t) \cup
    {[kind |-> "default_changed", column |-> c] :
        c \in {d \in Kept(s, t) : s.columns[d].default # t.columns[d].default}}

(* Classify: the kind that is stored, and whether it breaks readers.       *)
ChangeType(x, s, t) ==
    IF x.kind # "type_widened" THEN x.kind
    ELSE LET old == s.columns[x.column].type
             new == t.columns[x.column].type
         IN IF Known(old, new) /\ IsWidening(old, new) THEN "type_widened"
            ELSE "type_narrowed"

IsBreaking(changeType) ==
    changeType \notin {"column_added", "nullable_added", "comment_changed",
                       "default_changed", "type_widened"}

Classified(s, t) == {ChangeType(x, s, t) : x \in Diff(s, t)}
NonBreakingChange(s, t) == \A k \in Classified(s, t) : ~ IsBreaking(k)

(* HashSchema: everything but the comments. It reads the columns' own      *)
(* flags, which Diff never compares.                                       *)
HashSchema(s) ==
    [key |-> s.key,
     columns |-> [c \in {d \in ColumnNames : Has(s, d)} |->
                    <<s.columns[c].type, s.columns[c].nullable,
                      s.columns[c].default, s.columns[c].pk>>]]

-----------------------------------------------------------------------------
(* The owner of the table changes a column, or its key, and the descriptor *)
(* reports the flags with the key. A column of the key is NOT NULL, and    *)
(* takes the key with it when it is dropped.                               *)
InKey(s, c) == c \in Range(s.key)
Keyed(s, k) ==
    [columns |-> [c \in ColumnNames |-> IF Has(s, c)
                                         THEN [s.columns[c] EXCEPT !.pk = c \in Range(k)]
                                         ELSE Absent],
     key |-> k]
Dropped(s, c) == LET t == [s EXCEPT !.columns[c] = Absent]
                 IN IF InKey(s, c) THEN Keyed(t, <<>>) ELSE t
Added(s, c) ==
    {[s EXCEPT !.columns[c] = d] :
        d \in [type : Types, nullable : BOOLEAN, default : {"none"}, comment : {""}, pk : {FALSE}]}
Altered(s, c) ==
         {[s EXCEPT !.columns[c].type = t] : t \in Types}
    \cup {[s EXCEPT !.columns[c].default = v] : v \in {"none", "some"}}
    \cup {[s EXCEPT !.columns[c].comment = v] : v \in {"", "text"}}
    \cup (IF InKey(s, c) THEN {} ELSE {[s EXCEPT !.columns[c].nullable = ~ @]})
    \cup {Dropped(s, c)}
Rekeyed(s) ==
    {Keyed(s, k) :
        k \in {<<>>} \cup {<<c>> : c \in {d \in ColumnNames : Has(s, d) /\ ~ s.columns[d].nullable}}}

(* The asset returns a schema of its own, with another flag.               *)
Reflagged(s) ==
    {[s EXCEPT !.columns[c].pk = ~ @] : c \in {d \in ColumnNames : Has(s, d)}}

Edited(s) ==
    Rekeyed(s) \cup Reflagged(s) \cup
    UNION {IF Has(s, c) THEN Altered(s, c) ELSE Added(s, c) : c \in ColumnNames}

Columns == [type : Types, nullable : BOOLEAN,
            default : {"none", "some"}, comment : {"", "text"}, pk : BOOLEAN]
Schemas == [columns : [ColumnNames -> Columns \cup {Absent}], key : Seq(ColumnNames)]

SchemaInit(schemas) == first \in schemas /\ previous = first /\ current = first

Recapture(bound) == /\ bound
                    /\ previous' = current
                    /\ current' \in Edited(current) \ {current}
                    /\ UNCHANGED first

(* Any schema, and what becomes of it.                                     *)
SchemaSpec == SchemaInit(Schemas) /\ [][Recapture(TRUE)]_schemaVars

-----------------------------------------------------------------------------
(* The values a type holds, as far as the lattice tells them apart.        *)
Values(t) == CASE t.family = "text" -> {<<"text", n>> : n \in 0 .. MaxLength}
               [] t.family = "varchar" -> {<<"text", n>> : n \in 0 .. t.size}
               [] t.family = "decimal" -> {<<"decimal", i, f>> : i \in 0 .. t.size - t.scale,
                                                                 f \in 0 .. t.scale}
               [] OTHER -> {<<t.family, n>> : n \in 0 .. t.size}

(* decimal(10,2) to decimal(10,4) is a widening by the lattice's own table *)
(* although two integer digits are lost.                                   *)
IntegerDigitsLost(s, t) ==
    \E c \in Kept(s, t) : LET old == s.columns[c].type
                              new == t.columns[c].type
                          IN /\ old.family = "decimal" /\ new.family = "decimal"
                             /\ new.size - new.scale < old.size - old.scale

(* No break hides in a sequence of harmless changes, whichever of the      *)
(* schemas in between were compared (capture.go compares with the latest   *)
(* committed one; module Catalog assumes this of NonBreaking). And what is *)
(* stored in the columns of a schema can be stored in those of a later one *)
(* that is not recorded as breaking (classify.go, D-09).                   *)
HarmlessComposes ==
    /\ NonBreakingChange(first, previous) /\ NonBreakingChange(previous, current)
          => NonBreakingChange(first, current)
    /\ NonBreakingChange(first, current) /\ ~ IntegerDigitsLost(first, current) =>
          \A c \in ColumnNames : Has(first, c) =>
              /\ Has(current, c)
              /\ Values(first.columns[c].type) \subseteq Values(current.columns[c].type)
              /\ first.columns[c].nullable => current.columns[c].nullable

Described(s) == \A c \in ColumnNames : Has(s, c) => (s.columns[c].pk <=> InKey(s, c))
SameFlags(s, t) == \A c \in Kept(s, t) : s.columns[c].pk = t.columns[c].pk

(* A schema gets a version of its own exactly when there is a change to    *)
(* record with it, comments apart, or a kept column changed its flag       *)
(* (capture.go: the hash decides, the diff is written). The flag alone     *)
(* gives a version that comes without a change; among schemas that a       *)
(* descriptor reported, hash and diff agree.                               *)
HashFollowsDiff ==
    LET unchanged == Classified(previous, current) \subseteq {"comment_changed"}
        sameHash  == HashSchema(previous) = HashSchema(current)
    IN /\ sameHash <=> unchanged /\ SameFlags(previous, current)
       /\ Described(previous) /\ Described(current) => (sameHash <=> unchanged)
=============================================================================
