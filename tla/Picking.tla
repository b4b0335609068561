------------------------------ MODULE Picking ------------------------------
(***************************************************************************)
(* The elements of a sequence at some of its places, in their order: what  *)
(* Rust's retain and filter leave. Pure: no state.                         *)
(***************************************************************************)
EXTENDS Integers, Sequences, FiniteSets

Picked(seq, places) ==
    [k \in 1..Cardinality(places) |->
       seq[CHOOSE i \in places : Cardinality({j \in places : j <= i}) = k]]
=============================================================================
