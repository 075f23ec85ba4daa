----------------------------- MODULE MCDailyRun -----------------------------
(* Small instances of DailyRun. *)
EXTENDS DailyRun

CONSTANT SPI   \* model value
=============================================================================
