-------------------------- MODULE MCWaitlistHistory --------------------------
(* Small instances of the waitlist lifecycle with its history for TLC. *)
EXTENDS WaitlistHistory, MCWaitlistLifecycle
=============================================================================
