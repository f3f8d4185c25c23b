--------------------------- MODULE MCSettingsFile ----------------------------
(* An instance of SettingsFile for TLC: tabs and inodes are alike. *)
EXTENDS SettingsFile, TLC

Alike == Permutations(Tabs) \cup Permutations(Inodes)

=============================================================================
