---------------------------- MODULE MCMqttClient ----------------------------
(***************************************************************************)
(* Small instances of MqttClient for TLC.                                  *)
(***************************************************************************)
EXTENDS MqttClient

CONSTANTS m1, m2, m3, c1, c2

\* m2 is a QoS 2 message, the others are QoS 1.
MCQosOf == [i \in Ids |-> IF i = m2 THEN 2 ELSE 1]

CallerSymmetry == Permutations(Callers)
=============================================================================
