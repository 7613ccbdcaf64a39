--------------------------- MODULE MCMqttCompose ---------------------------
(***************************************************************************)
(* Small instances of MqttCompose for TLC, together with the checks of the *)
(* operators that do not depend on the state.                              *)
(***************************************************************************)
EXTENDS MCTexts, MCMqtt5Msg
=============================================================================
