--------------------------- MODULE MCEmqttRuntime ---------------------------
(***************************************************************************)
(* Small instances of EmqttRuntime for TLC.                                *)
(***************************************************************************)
EXTENDS EmqttRuntime

CONSTANTS fa, fb, i1, i2, i3

\* fa is requested at QoS 0 and fb at QoS 1, so that a SUBACK can grant less
\* than was asked for as well as more.
MCQosOf == [f \in Filters |-> IF f = fb THEN 1 ELSE 0]

MCNoSubs  == << >>
MCOneSub  == <<fa>>

\* Identifiers are only compared for equality.
IdSymmetry == Permutations({i1, i2, i3})
=============================================================================
