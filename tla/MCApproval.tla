----------------------------- MODULE MCApproval -----------------------------
(* A small instance of ApprovalLifecycle for TLC.                          *)
EXTENDS ApprovalLifecycle

CONSTANTS a1, w1, w2, r1
=============================================================================
