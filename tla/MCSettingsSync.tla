--------------------------- MODULE MCSettingsSync ---------------------------
(* Model-checking instances of SettingsSync: two pages, one of which the     *)
(* user closes and opens again.                                              *)
EXTENDS SettingsSync

CONSTANTS d1, d2, ordering, notifications
=============================================================================
