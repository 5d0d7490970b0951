---------------------------- MODULE MCAuditChain ----------------------------
(* Small instances of the audit chain for TLC. *)
EXTENDS AuditChain, TLC

CONSTANTS a1, a2, a3, a4

Writers == Permutations({a1, a2, a3, a4})
=============================================================================
