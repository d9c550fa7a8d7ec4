------------------------------ MODULE Container ------------------------------
(* The state shared by the models of the containers: one of them at a time. *)
EXTENDS Integers, Sequences, FiniteSets, FiniteSetsExt, SequencesExt, Functions, TLC

CONSTANTS
    Element,    \* values or keys
    MaxLen      \* bound on the number of elements

VARIABLES
    kind,   \* which container
    c,      \* its representation
    op,     \* the operation just done, with its answer
    walk    \* a scan or an iteration in progress or left half way, and what it saw

Internal == [type |-> "internal"]
NoWalk == [on |-> FALSE]

(* The step ends with representation d after operation o. *)
Step(k, d, o) == kind = k /\ c' = d /\ op' = o /\ UNCHANGED kind
=============================================================================
