----------------------------- MODULE Algorithms -----------------------------
(***************************************************************************)
(* The pure parts of the platform side by side: partition keys, execution  *)
(* plans, retry delays and schema comparison. They share no state; a       *)
(* behaviour exercises one of them, the subject, and leaves the others at  *)
(* rest.                                                                   *)
(***************************************************************************)
EXTENDS PartitionKeys, Dag, Backoff, SchemaDiff

CONSTANTS GraphsChecked,    \* upstream declarations, asset -> set of assets
          PoliciesChecked,  \* retry policies
          SchemasChecked    \* schemas of the first capture

VARIABLE subject

algorithmVars == <<subject, keysVars, dagVars, backoffVars, schemaVars>>

NoUpstreams == [a \in Assets |-> {}]
NoPolicy    == [max |-> 0, initial |-> 0, maxDelay |-> 0, jitter |-> 0]
NoColumns   == [columns |-> [c \in ColumnNames |-> Absent], key |-> <<>>]

Init ==
    /\ subject \in {"keys", "plan", "delays", "schemas"}
    /\ IF subject = "keys" THEN KeysInit ELSE start = FirstDay /\ end = FirstDay
    /\ DagInit(IF subject = "plan" THEN GraphsChecked ELSE {NoUpstreams})
    /\ BackoffInit(IF subject = "delays" THEN PoliciesChecked ELSE {NoPolicy})
    /\ SchemaInit(IF subject = "schemas" THEN SchemasChecked ELSE {NoColumns})

(* Two captures after the first are compared with it.                      *)
Next ==
    \/ /\ subject = "keys" /\ Extend
       /\ UNCHANGED <<subject, dagVars, backoffVars, schemaVars>>
    \/ /\ subject = "plan" /\ DagNext
       /\ UNCHANGED <<subject, keysVars, backoffVars, schemaVars>>
    \/ /\ subject = "delays" /\ Retry
       /\ UNCHANGED <<subject, keysVars, dagVars, schemaVars>>
    \/ /\ subject = "schemas" /\ Recapture(previous = first)
       /\ UNCHANGED <<subject, keysVars, dagVars, backoffVars>>

Spec == Init /\ [][Next]_algorithmVars
=============================================================================
