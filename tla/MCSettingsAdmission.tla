------------------------ MODULE MCSettingsAdmission ------------------------
(* A small instance of SettingsAdmission for TLC: two profiles compete for *)
(* the only cache slot, the settings of one of them change.                *)
EXTENDS SettingsAdmission

CONSTANTS p1, p2, r1, r2
=============================================================================
