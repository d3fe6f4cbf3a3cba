---------------------------- MODULE MCCleanupScopes ----------------------------
(***************************************************************************)
(* Small functions for CleanupScopes.                                      *)
(***************************************************************************)
EXTENDS CleanupScopesProperties

(* Three cleanups; one in the middle may be for exceptional edges only.     *)
MCCleanupKinds == <<{"normal"}, {"split", "eh"}, {"normal"}>>
=============================================================================
