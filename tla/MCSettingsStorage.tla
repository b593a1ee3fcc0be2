-------------------------- MODULE MCSettingsStorage --------------------------
(* Two processes, each with its own encrypted store, and two keys.          *)
EXTENDS SettingsStorage, TLC

CONSTANTS p1, p2, settings, web

MCHome == (p1 :> settings) @@ (p2 :> web)
KeySymmetry == Permutations(Keys)
=============================================================================
