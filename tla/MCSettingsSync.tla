-------------------------- MODULE MCSettingsSync ---------------------------
(* Small instances of SettingsSync for TLC. *)
EXTENDS SettingsSync

\* Only card stamps are of this type, and there are no cards here.
NoStamp == {}
=============================================================================
