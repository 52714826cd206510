----------------------------- MODULE ToolSlots -----------------------------
(***************************************************************************)
(* The state of the programs that MCFieldTools checks in one run: which of *)
(* them a behaviour is about, and the slots its variables are kept in.     *)
(***************************************************************************)
EXTENDS Integers

VARIABLES tool, s1, s2, s3, s4, s5, s6, s7, s8, s9, s10

slots == <<s1, s2, s3, s4, s5, s6, s7, s8, s9, s10>>
=============================================================================
