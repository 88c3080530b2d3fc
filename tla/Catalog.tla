------------------------------ MODULE Catalog ------------------------------
(***************************************************************************)
(* What the transaction that commits a successful step (executor.go,       *)
(* commitSuccess) writes about one asset: the override of a PII tag with   *)
(* its audit entry, the asset version with its drift status, and the       *)
(* captured schema with the changes since the one before. Two partitions   *)
(* of the asset may commit at the same time. Beside them, the warehouse    *)
(* table changes, an engineer acknowledges breaking changes, and a version *)
(* is submitted: the automatic approval reads what was captured, one query *)
(* after the other, and a later transaction activates the version or puts  *)
(* it to review.                                                           *)
(*                                                                         *)
(* The asset has no upstreams, so the run attribution of asset_edges locks *)
(* nothing; last_seen columns, events and column lineage are left out, and *)
(* so is the audit entry of a submission (module Governance).              *)
(***************************************************************************)
EXTENDS AuditChain, FiniteSets

CONSTANTS
    Workers,      \* transactions that commit steps of the asset
    Codes,        \* code hashes that are deployed, side by side during a rollout
    Overriding,   \* those whose builder declares the TagOverride
    Schemas,      \* schemas the warehouse table may have
    FirstSchema,  \* the one that the first run captured, ...
    FirstCode,    \* ... under a code hash that is no longer deployed
    NonBreaking,  \* pairs whose Diff has no breaking change (module SchemaDiff)
    Submitted,    \* the code hashes that are submitted for review
    NoTag,        \* no row of column_pii_tags
    MaxSteps,     \* bound: steps that reach their commit
    MaxAlters     \* bound: changes of the warehouse table

ASSUME CatalogAssumption ==
    /\ Workers \subseteq Txs /\ NoTx \notin Txs
    /\ Overriding \subseteq Codes /\ Submitted \subseteq Codes
    /\ FirstCode \notin Codes
    /\ NoTag \notin Nat
    /\ FirstSchema \in Schemas /\ NonBreaking \subseteq Schemas \X Schemas
    /\ \A s \in Schemas : <<s, s>> \in NonBreaking
    /\ \A s, t, u \in Schemas : <<s, t>> \in NonBreaking /\ <<t, u>> \in NonBreaking
                                  => <<s, u>> \in NonBreaking
    /\ MaxSteps \in Nat /\ MaxAlters \in Nat

VARIABLES
    table,     \* the schema of the warehouse table
    versions,  \* schema_versions, each with its schema_changes
    tag,       \* column_pii_tags: the audit number of the override, or NoTag
    drift,     \* asset_versions.drift_status of each code hash
    drifted,   \* code hashes of committed steps whose reads were not as declared
    step,      \* the commit each worker is in, with what it has read
    submission,\* how far the submission of a code hash has come
    clock,     \* time.Now() of the captures
    steps, alters

catalogVars == <<table, versions, tag, drift, drifted, step, submission, clock,
                 steps, alters>>

LatestOf(S) == CHOOSE v \in S : \A w \in S : w.at <= v.at
Latest == LatestOf(versions)

NoStep == [at |-> "idle"]
NotSubmitted == [at |-> "none", clear |-> FALSE, seen |-> {}, off |-> FALSE]
CatalogInit ==
    /\ table = FirstSchema
    /\ versions = {[schema |-> FirstSchema, at |-> 0, code |-> FirstCode,
                    breaks |-> FALSE, acked |-> FALSE]}
    /\ tag = NoTag
    /\ drift = [c \in Codes |-> "none"] /\ drifted = {}
    /\ step = [w \in Workers |-> NoStep]
    /\ submission = [c \in Submitted |-> NotSubmitted]
    /\ clock = 0 /\ steps = 0 /\ alters = 0

Now(w, label) == step' = [step EXCEPT ![w].at = label]
Committed     == <<table, versions, tag, drift, drifted, submission, alters>>
InStep(w)     == step[w].at \in {"seal", "version", "describe", "compare", "commit"}

-----------------------------------------------------------------------------
(* BEGIN, and applyOverride's SELECT when the code declares an override.   *)
BeginStep(w, c, off) ==
    /\ step[w] = NoStep /\ steps < MaxSteps
    /\ steps' = steps + 1
    /\ step' = [step EXCEPT ![w] =
                  [at |-> IF c \in Overriding THEN "tag" ELSE "version",
                   code |-> c, drifted |-> off, prior |-> tag, entry |-> NoTag,
                   schema |-> FirstSchema, now |-> 0, prev |-> NoTag]]
    /\ UNCHANGED <<Committed, clock, chainVars>>

TagLocked(w) == \E x \in Workers \ {w} : InStep(x) /\ step[x].code \in Overriding

(* INSERT of the row, or UPDATE of the one that was read. The audit entry  *)
(* is written as long as the row has no number of one.                     *)
AlwaysAudit(w) == TRUE
EmitAudit(w)   == step[w].prior = NoTag

WriteTag(w) ==
    /\ step[w].at = "tag"
    /\ ~ TagLocked(w)
    /\ IF step[w].prior = NoTag /\ tag # NoTag
       THEN step' = [step EXCEPT ![w] = NoStep]      \* duplicate key: ROLLBACK
       ELSE Now(w, IF EmitAudit(w) THEN "seal" ELSE "version")
    /\ UNCHANGED <<Committed, clock, steps, chainVars>>

(* audit.WriteEntry, and the number that it returns on the row: the        *)
(* sentinel's, not the primary key of the row (module AuditWriters).       *)
SealOverride(w) ==
    /\ step[w].at = "seal"
    /\ WriteEntry(w, [event |-> "overridden", user |-> NoTag, role |-> NoTag])
    /\ step' = [step EXCEPT ![w].at = "version", ![w].entry = sentinel.seq + 1]
    /\ UNCHANGED <<Committed, clock, steps>>

(* CaptureRun: INSERT of the asset version ON CONFLICT DO NOTHING, and the *)
(* drift mark. A transaction that did either holds the row.                *)
WroteVersion(x) ==
    /\ step[x].at \in {"describe", "compare", "commit"}
    /\ step[x].drifted \/ drift[step[x].code] = "none"

CaptureRun(w) ==
    /\ step[w].at = "version"
    /\ ~ \E x \in Workers \ {w} : WroteVersion(x) /\ step[x].code = step[w].code
    /\ Now(w, "describe")
    /\ UNCHANGED <<Committed, clock, steps, chainVars>>

(* Schema capture: the connector describes the table. When it cannot, the  *)
(* step commits without a schema.                                          *)
Describe(w) ==
    /\ step[w].at = "describe"
    /\ clock' = clock + 1
    /\ step' = [step EXCEPT ![w].at = "compare", ![w].schema = table,
                            ![w].now = clock + 1]
    /\ UNCHANGED <<Committed, steps, chainVars>>

DescribeFails(w) ==
    /\ step[w].at = "describe"
    /\ Now(w, "commit")
    /\ UNCHANGED <<Committed, clock, steps, chainVars>>

(* SELECT of the latest version of the asset, whatever its code hash.      *)
LatestOfCode(w) == {v \in versions : /\ v.code = step[w].code
                                     /\ \A u \in versions : u.code = v.code => u.at <= v.at}
Previous(w) == {Latest}

Compare(w) ==
    /\ step[w].at = "compare"
    /\ step' = [step EXCEPT ![w].at = "commit", ![w].prev = Previous(w)]
    /\ UNCHANGED <<Committed, clock, steps, chainVars>>

(* The row of a new schema; none for the hash of the previous one.         *)
NewVersions(w) ==
    IF step[w].now = 0 \/ \E v \in step[w].prev : v.schema = step[w].schema THEN {}
    ELSE {[schema |-> step[w].schema, at |-> step[w].now, code |-> step[w].code,
           breaks |-> \E v \in step[w].prev : <<v.schema, step[w].schema>> \notin NonBreaking,
           acked |-> FALSE]}

DriftAfter(w) == IF step[w].drifted THEN "pending"
                 ELSE IF drift[step[w].code] = "none" THEN "clean"
                 ELSE drift[step[w].code]

CommitStep(w) ==
    /\ step[w].at = "commit"
    /\ versions' = versions \cup NewVersions(w)
    /\ drift' = [drift EXCEPT ![step[w].code] = DriftAfter(w)]
    /\ drifted' = drifted \cup (IF step[w].drifted THEN {step[w].code} ELSE {})
    /\ IF step[w].entry = NoTag
       THEN UNCHANGED <<tag, chainVars>>
       ELSE tag' = step[w].entry /\ PublishEntry(w)
    /\ step' = [step EXCEPT ![w] = NoStep]
    /\ UNCHANGED <<table, submission, alters, clock, steps>>

(* A statement of a later writer or the commit fails, or the worker dies.  *)
FailStep(w) ==
    /\ step[w].at = "commit"
    /\ DiscardEntry(w)
    /\ step' = [step EXCEPT ![w] = NoStep]
    /\ UNCHANGED <<Committed, clock, steps>>

-----------------------------------------------------------------------------
(* The owner of the warehouse changes the table.                           *)
AlterTable(s) ==
    /\ alters < MaxAlters /\ s # table
    /\ table' = s /\ alters' = alters + 1
    /\ UNCHANGED <<versions, tag, drift, drifted, step, submission, clock, steps, chainVars>>

(* ackSchemaChange, of all the breaking changes of a version.              *)
Acknowledge(v) ==
    /\ v.breaks /\ ~ v.acked
    /\ versions' = (versions \ {v}) \cup {[v EXCEPT !.acked = TRUE]}
    /\ UNCHANGED <<table, tag, drift, drifted, step, submission, alters, clock, steps, chainVars>>

(* Workflow.Submit, which asks for the version's row first. Of the probes  *)
(* of AutoApprovalChecker.Check two read this module's tables, each with a *)
(* query of its own outside any transaction. The submission remembers      *)
(* what was on record when they began.                                     *)
UnackedOfCode(c) == \E v \in versions : v.code = c /\ v.breaks /\ ~ v.acked
hasUnackBreakingSchemaChange(c) == \E v \in versions : v.breaks /\ ~ v.acked
driftPending(c) == drift[c] = "pending"

Submit(c, s) == submission' = [submission EXCEPT ![c] = s]

ProbeBreaks(c) ==
    /\ submission[c].at = "none" /\ drift[c] # "none"
    /\ Submit(c, [at |-> "breaks", clear |-> ~ hasUnackBreakingSchemaChange(c),
                  seen |-> versions, off |-> c \in drifted])
    /\ UNCHANGED <<table, versions, tag, drift, drifted, step, alters, clock, steps, chainVars>>

ProbeDrift(c) ==
    /\ submission[c].at = "breaks"
    /\ Submit(c, [submission[c] EXCEPT !.at = "probed", !.clear = @ /\ ~ driftPending(c)])
    /\ UNCHANGED <<table, versions, tag, drift, drifted, step, alters, clock, steps, chainVars>>

(* The transaction that flips governance_state. It updates the version's   *)
(* row and waits for a step that holds it, but does not ask again.         *)
Activate(c) ==
    /\ submission[c].at = "probed"
    /\ ~ \E x \in Workers : WroteVersion(x) /\ step[x].code = c
    /\ Submit(c, [submission[c] EXCEPT !.at = IF submission[c].clear THEN "active"
                                              ELSE "in_review"])
    /\ UNCHANGED <<table, versions, tag, drift, drifted, step, alters, clock, steps, chainVars>>

-----------------------------------------------------------------------------
StepProceed(w) == \/ WriteTag(w) \/ SealOverride(w) \/ CaptureRun(w)
                  \/ Describe(w) \/ DescribeFails(w) \/ Compare(w) \/ CommitStep(w)

CatalogNext ==
    \/ \E w \in Workers :
          \/ \E c \in Codes, off \in BOOLEAN : BeginStep(w, c, off)
          \/ StepProceed(w) \/ FailStep(w)
    \/ \E s \in Schemas : AlterTable(s)
    \/ \E v \in versions : Acknowledge(v)
    \/ \E c \in Submitted : ProbeBreaks(c) \/ ProbeDrift(c) \/ Activate(c)

-----------------------------------------------------------------------------

(* The override of a tag is audited exactly once, whether first commits    *)
(* overlap, fail or are repeated (pii_propagator.go: "re-runs ... skip the *)
(* audit emission"), and its row bears the number that the chain has       *)
(* hashed into that entry, not another writer's. (That is the sentinel's   *)
(* number; after a rollback audit_log.seq is another, as in AuditWriters,  *)
(* though the column's migration says that it keeps audit_log.seq.)        *)
OverrideAuditedOnce ==
    LET entries == {k \in DOMAIN log : log[k].body.event = "overridden"}
    IN  IF tag = NoTag THEN entries = {}
        ELSE \E k \in entries : entries = {k} /\ log[k].num = tag

(* What committed steps have observed stays on record. Drift does, also    *)
(* when the first steps of a code hash overlap. A version whose schema     *)
(* breaks the readers of the first one is preceded by, or is itself, a     *)
(* recorded breaking change, although overlapping commits compare with the *)
(* same earlier version and some steps capture nothing.                    *)
ObservationsOnRecord ==
    /\ \A c \in drifted : drift[c] = "pending"
    /\ \A v \in versions : \/ <<FirstSchema, v.schema>> \in NonBreaking
                           \/ \E u \in versions : u.breaks

(* What was on record when the probes of a submission began is weighed in  *)
(* full by the activation that follows: each breaking change of then has   *)
(* been acknowledged itself (an older acknowledgement excuses no later     *)
(* break), a latest schema that breaks the first one has its break on that *)
(* record, and no step had read what it does not declare. The activation   *)
(* does not ask again: what a step commits after the probes it does not    *)
(* see, and the property does not speak of it.                             *)
ApprovalSeesAll ==
    \A c \in Submitted : submission[c].at = "active" =>
        /\ ~ submission[c].off
        /\ \A v \in submission[c].seen : v.breaks => v.acked
        /\ \/ <<FirstSchema, LatestOf(submission[c].seen).schema>> \in NonBreaking
           \/ \E v \in submission[c].seen : v.breaks
=============================================================================
