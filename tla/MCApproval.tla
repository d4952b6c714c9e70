----------------------------- MODULE MCApproval -----------------------------
(* Small instances of Approval for TLC: the configurations give the sets.  *)
EXTENDS Approval
=============================================================================
