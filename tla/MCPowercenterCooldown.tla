----------------------- MODULE MCPowercenterCooldown -----------------------
(* Four overlapping calls (one writes, three wait) and the ten seconds of  *)
(* ECPD_STANDBY_COOLDOWN_SECONDS.                                          *)
EXTENDS PowercenterCooldown
============================================================================
