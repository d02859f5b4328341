--------------------------- MODULE MCUniverseLoad ---------------------------
(* Small instances of UniverseLoad for TLC.                                *)
EXTENDS UniverseLoad
=============================================================================
