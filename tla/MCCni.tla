------------------------------- MODULE MCCni --------------------------------
(***************************************************************************)
(* A pod that may be tried in two sandboxes, s1 and s2, and a pod on the   *)
(* public network, s3, with at most two requests at a time.                *)
(***************************************************************************)
EXTENDS Cni, TLC

CONSTANTS s1, s2, s3, podA, podB, lsX, public, w1, w2

MCIdOf == [s \in Sandboxes |-> IF s = s3 THEN podB ELSE podA]
MCNetOf == [s \in Sandboxes |-> IF s = s3 THEN public ELSE lsX]

Interchangeable == Permutations({w1, w2})

\* The first attempt ran on the public network.
ChangedNetOf == [s \in Sandboxes |-> IF s = s2 THEN lsX ELSE public]
=============================================================================
