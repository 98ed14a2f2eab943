---------------------------- MODULE OperationLog ----------------------------
(***************************************************************************)
(* What the restorer promises to the code that calls its Insert*, Delete*, *)
(* Clear* and Update* methods: an operation is accepted once, operations   *)
(* are carried out one at a time in the order in which they were accepted, *)
(* and an operation is never carried out twice.  Nothing is promised about *)
(* how far the log is carried out: a stopped restorer leaves a suffix.     *)
(***************************************************************************)
EXTENDS Naturals, Sequences

CONSTANT Ops            \* the operations a caller may submit

VARIABLES accepted,     \* the operations accepted so far, in order
          applied       \* the operations carried out so far, in order

Init == accepted = <<>> /\ applied = <<>>

Accept(o) == accepted' = Append(accepted, o) /\ UNCHANGED applied

Perform == /\ Len(applied) < Len(accepted)
           /\ applied' = Append(applied, accepted[Len(applied) + 1])
           /\ UNCHANGED accepted

Next == Perform \/ \E o \in Ops : Accept(o)

Spec == Init /\ [][Next]_<<accepted, applied>>
=============================================================================
