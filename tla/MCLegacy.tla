----------------------------- MODULE MCLegacy -----------------------------
(* The legacy commands, with the constants of MCLegacy*.cfg.               *)
EXTENDS LegacyCommands
=============================================================================
