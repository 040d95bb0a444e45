--------------------------- MODULE MCAlertPipeline ---------------------------
(* TLC instances of AlertPipeline: either one key and two sinks, or two     *)
(* keys and the recorder alone.                                             *)
EXTENDS AlertPipeline

CONSTANTS k1, k2, incident, telegram

OneKey == {k1}
TwoKeys == {k1, k2}
RecorderOnly == <<incident>>
TwoSinks == <<telegram, incident>>
=============================================================================
