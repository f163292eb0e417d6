----------------------------- MODULE MCExtension -----------------------------
(***************************************************************************)
(* ExtensionSync by itself for TLC: one alarm, one portal, one sync.       *)
(***************************************************************************)
EXTENDS ExtensionSync

CONSTANTS s1, alarm

OneSync == {s1}
OneRound == {alarm}
=============================================================================
