---------------------------- MODULE MCGuiClient -----------------------------
(* The values of GuiClient's constants for TLC.                             *)
EXTENDS GuiClient
=============================================================================
