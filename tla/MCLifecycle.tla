---------------------------- MODULE MCLifecycle ----------------------------
(* Two invocations on one host, the first with two sessions that meet at   *)
(* its gate. They may overlap or follow one another, and one of them may   *)
(* be killed with its Chromes alive.                                       *)
EXTENDS Lifecycle

CONSTANTS i1, i2, s1, s2, s3

MCInvocations == {i1, i2}
MCSessions == {s1, s2, s3}
MCInvocationOf == [s \in MCSessions |-> IF s = s3 THEN i2 ELSE i1]
=============================================================================
