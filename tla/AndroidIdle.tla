----------------------------- MODULE AndroidIdle -----------------------------
(* android-idle-trial.py on the PC and android-idle-baseline.sh on the phone: *)
(* the radios are switched off for a measure of the idle battery and put back *)
(* by the program that arms, by the script if it finds no usable start, and   *)
(* by the return.  The PC loses the phone at any command.                     *)

VARIABLES
  radios,     \* "original" or "off"
  pc,         \* the running PC action: "none", "arm ..." or "return ..."
  script,     \* the baseline: "none", "waiting", "settling", "reading", "saved", "gone"
  before,     \* before.txt is on the phone
  saidPid,    \* the PC knows the baseline was started
  returned,   \* first-return-private.txt is on the PC
  powered,    \* external power
  armed,      \* the trial identifier is used
  refusal     \* a restoration was asked and not confirmed (history)

vars == <<radios, pc, script, before, saidPid, returned, powered, armed, refusal>>

IdleInit ==
  /\ radios = "original" /\ pc = "none" /\ script = "none"
  /\ before = FALSE /\ saidPid = FALSE /\ returned = FALSE /\ powered = TRUE
  /\ armed = FALSE /\ refusal = FALSE

PhoneSame == UNCHANGED <<radios, script, before, powered>>

-----------------------------------------------------------------------------
\* arm: the radios noted, the trial directories made, external power required.
\* Before the radios are touched a failure leaves only the used identifier.
Arm ==
  /\ pc = "none" /\ ~armed /\ armed' = TRUE
  /\ pc' \in {"arm radios", "none"}
  /\ pc' = "arm radios" => powered
  /\ UNCHANGED <<saidPid, returned, refusal>> /\ PhoneSame

\* The radios are switched off and read back; on any exception they are restored.
ArmRadios ==
  /\ pc = "arm radios"
  /\ \/ radios' = "off" /\ pc' = "arm start"
     \/ radios' \in {"original", "off"} /\ pc' = "arm restore"
  /\ UNCHANGED <<script, before, saidPid, returned, powered, armed, refusal>>

\* The baseline is started in the background; its number may not come back.
ArmStart ==
  /\ pc = "arm start"
  /\ \/ script' = "waiting" /\ pc' = "none" /\ saidPid' = TRUE
     \/ script' \in {"none", "waiting"} /\ pc' = "arm restore" /\ UNCHANGED saidPid
  /\ UNCHANGED <<radios, before, returned, powered, armed, refusal>>

\* restore(): the three commands, and the states read back as they were.
Restore(next) ==
  \/ radios' = "original" /\ pc' = next /\ UNCHANGED refusal
  \/ radios' \in {radios, "original"} /\ pc' = next /\ refusal' = TRUE

ArmRestore ==
  /\ pc = "arm restore" /\ Restore("none")
  /\ UNCHANGED <<script, before, saidPid, returned, powered, armed>>

\* return: the battery first, kept on the PC; a first return is never repeated.
ReturnBattery ==
  /\ pc = "none" /\ armed /\ ~returned
  /\ \/ returned' = TRUE /\ pc' = "return read"
     \/ UNCHANGED <<returned, pc>>
  /\ UNCHANGED <<saidPid, armed, refusal>> /\ PhoneSame

\* Mutant: the radios are only restored when every file was read.
AfterReadKept(ok) == IF ok THEN "return restore" ELSE "none"

\* What follows the reads: the radios are restored, whether they failed or not.
AfterRead(ok) == "return restore"

\* The files of the phone; a start that was never saved is an error.
ReturnRead ==
  /\ pc = "return read"
  /\ \E ok \in BOOLEAN : (ok => before) /\ pc' = AfterRead(ok)
  /\ UNCHANGED <<saidPid, returned, armed, refusal>> /\ PhoneSame

ReturnRestore ==
  /\ pc = "return restore" /\ Restore("none")
  /\ UNCHANGED <<script, before, saidPid, returned, powered, armed>>

-----------------------------------------------------------------------------
\* The baseline on the phone.
ScriptSame == UNCHANGED <<pc, saidPid, returned, powered, armed>>

\* Its trap: unless the start was saved, the radios are asked back.
ScriptFails ==
  /\ script' = "gone" /\ UNCHANGED before
  /\ \/ radios' = "original" /\ UNCHANGED refusal
     \/ UNCHANGED radios /\ refusal' = TRUE

\* Unplugged within fifteen minutes, or it gives up.
Waiting ==
  /\ script = "waiting"
  /\ \/ ~powered /\ script' = "settling" /\ UNCHANGED <<radios, before, refusal>>
     \/ powered /\ ScriptFails
  /\ ScriptSame

\* Ten seconds later still unplugged, then the start is written.
Settling ==
  /\ script = "settling"
  /\ \/ ~powered /\ script' = "reading" /\ UNCHANGED <<radios, before, refusal>>
     \/ powered /\ ScriptFails
  /\ ScriptSame

\* The radios in it must be off.
Reading ==
  /\ script = "reading"
  /\ \/ radios = "off" /\ before' = TRUE /\ script' = "saved" /\ UNCHANGED <<radios, refusal>>
     \/ radios # "off" /\ ScriptFails
  /\ ScriptSame

Power ==
  /\ powered' = ~powered
  /\ UNCHANGED <<radios, pc, script, before, saidPid, returned, armed, refusal>>

IdleNext ==
  \/ Arm \/ ArmRadios \/ ArmStart \/ ArmRestore
  \/ ReturnBattery \/ ReturnRead \/ ReturnRestore
  \/ Waiting \/ Settling \/ Reading \/ Power

IdleSpec == IdleInit /\ [][IdleNext]_vars

-----------------------------------------------------------------------------
\* With no PC action and no script left to restore them, and the return made or
\* the arming refused, the radios are as they were, unless a restoration was
\* asked and not confirmed.
RadiosBack ==
  /\ pc = "none" /\ script \in {"none", "saved", "gone"} /\ ~refusal
  /\ (returned \/ ~saidPid)
  => radios = "original"

-----------------------------------------------------------------------------
(* The inductive invariant.  Whoever leaves the radios off without a refusal    *)
(* leaves a baseline whose return is still to be made.                          *)

RadiosInv ==
  /\ radios \in {"original", "off"}
  /\ saidPid \in BOOLEAN /\ returned \in BOOLEAN /\ armed \in BOOLEAN /\ refusal \in BOOLEAN
  /\ returned => armed
  /\ pc \in {"arm radios", "arm start", "arm restore"} => ~returned
  /\ pc = "none" /\ radios = "off" => refusal \/ (saidPid /\ ~returned)
=============================================================================
