----------------------------- MODULE UsbGuard -----------------------------
(***************************************************************************)
(* lmi-usb-pc-guard.py: a block inhibitor of sleep is held while a PC is   *)
(* connected by USB and powers the phone.                                  *)
(*                                                                         *)
(* The service polls.  A poll reads the signals of the cable one after the *)
(* other while the cable may move, then starts, keeps or ends the child    *)
(* `systemd-inhibit ... sleep infinity`, which may also die by itself or   *)
(* ignore SIGTERM.  systemd starts the service again after a failure and   *)
(* kills its control group when it stops.                                  *)
(***************************************************************************)
EXTENDS Naturals

CONSTANTS
    RequiredPositives,  \* REQUIRED_POSITIVES
    Inhibitors          \* bound: the processes systemd-inhibit may become

NoChild == "none"

GuardAssumption ==
    /\ RequiredPositives \in Nat \ {0}
    /\ NoChild \notin Inhibitors

VARIABLES
    cable,      \* none, charger, pc: what is really plugged in
    service,    \* where main() is: top, vbus, update, term, asleep; or down
    guard,      \* the Guard: child, positives; and `stopping`
    seen,       \* the snapshot: the four signals together, then vbus
    alive,      \* inhibitors that run
    away        \* history: connected, or whether a poll was begun or acted upon
                \* since the PC left

guardVars == <<cable, service, guard, seen, alive, away>>

NewGuard == [child |-> NoChild, positives |-> 0, stopping |-> FALSE]
NoSnapshot == [candidate |-> FALSE, vbus |-> FALSE]

Init ==
    /\ cable = "none"
    /\ service = "down"
    /\ guard = NewGuard
    /\ seen = NoSnapshot
    /\ alive = {}
    /\ away = "connected"

\* systemd starts the service, the first time or after a failure.
Start ==
    /\ service = "down"
    /\ service' = "top"
    /\ guard' = NewGuard
    /\ UNCHANGED <<cable, seen, alive, away>>

\* The cable moves at any time.
Cable ==
    /\ cable' \in {"none", "charger", "pc"} \ {cable}
    /\ away' = IF "pc" \in {cable, cable'} THEN "connected" ELSE away
    /\ UNCHANGED <<service, guard, seen, alive>>

\* snapshot(), first half: online, udc, carrier and partner.  A read that
\* fails is a signal that is absent.
ReadSignals ==
    /\ service = "top"
    /\ ~guard.stopping
    /\ seen' \in {[candidate |-> c, vbus |-> FALSE] : c \in {cable = "pc", FALSE}}
    /\ service' = "vbus"
    /\ away' = IF away = "connected" /\ cable # "pc" THEN "begun" ELSE away
    /\ UNCHANGED <<cable, guard, alive>>

\* Second half: the voltage, only for a candidate or while the child is held.
ReadVbus ==
    /\ service = "vbus"
    /\ seen' \in {[seen EXCEPT !.vbus = v] :
                    v \in IF seen.candidate \/ guard.child # NoChild
                          THEN {cable # "none", FALSE} ELSE {FALSE}}
    /\ service' = "update"
    /\ UNCHANGED <<cable, guard, alive, away>>

\* qualifies()
Qualifies == seen.candidate /\ seen.vbus

\* A poll that began without a PC has been acted upon.
Polled == IF away = "begun" THEN "acted" ELSE away

\* release(): the child is forgotten first, then told to terminate, and killed
\* if it has not ended in three seconds.
Release ==
    /\ guard' = [guard EXCEPT !.child = NoChild, !.positives = 0]
    /\ alive' = alive \ {guard.child}

UpdateInvalid ==
    /\ service = "update"
    /\ ~Qualifies
    /\ Release
    /\ service' = "asleep"
    /\ away' = Polled
    /\ UNCHANGED <<cable, seen>>

Counted == IF guard.positives < RequiredPositives THEN guard.positives + 1
           ELSE RequiredPositives

\* The child that is still there, once poll() has been asked.
Held == IF guard.child \in alive THEN guard.child ELSE NoChild

\* Mutant: enough positives start a child, whatever the guard holds.
UpdateValidAgain ==
    /\ service = "update"
    /\ Qualifies
    /\ IF Counted >= RequiredPositives
       THEN \E i \in Inhibitors \ alive :
                /\ alive' = alive \cup {i}
                /\ guard' = [guard EXCEPT !.positives = Counted, !.child = i]
       ELSE /\ guard' = [guard EXCEPT !.positives = Counted, !.child = Held]
            /\ UNCHANGED alive
    /\ service' = "asleep"
    /\ away' = Polled
    /\ UNCHANGED <<cable, seen>>

UpdateValid ==
    /\ service = "update"
    /\ Qualifies
    /\ IF Held = NoChild /\ Counted >= RequiredPositives
       THEN \E i \in Inhibitors \ alive :
                /\ alive' = alive \cup {i}
                /\ guard' = [guard EXCEPT !.positives = Counted, !.child = i]
       ELSE /\ guard' = [guard EXCEPT !.positives = Counted, !.child = Held]
            /\ UNCHANGED alive
    /\ service' = "asleep"
    /\ away' = Polled
    /\ UNCHANGED <<cable, seen>>

\* time.sleep(INTERVAL), also after a signal.
Wake ==
    /\ service = "asleep"
    /\ service' = "top"
    /\ UNCHANGED <<cable, guard, seen, alive, away>>

\* SIGTERM or SIGINT only sets the flag the loop reads.
StopSignal ==
    /\ service \notin {"down", "stopped"}
    /\ ~guard.stopping
    /\ guard' = [guard EXCEPT !.stopping = TRUE]
    /\ UNCHANGED <<cable, service, seen, alive, away>>

\* The end of the loop: finally release().
Leave ==
    /\ service = "top"
    /\ guard.stopping
    /\ Release
    /\ service' = "stopped"
    /\ UNCHANGED <<cable, seen, away>>

\* The inhibitor dies by itself.
InhibitorDies ==
    /\ \E i \in alive : alive' = alive \ {i}
    /\ UNCHANGED <<cable, service, guard, seen, away>>

\* The service fails, or its watchdog ends it: systemd kills the group.
Fail ==
    /\ service \notin {"down", "stopped"}
    /\ service' = IF guard.stopping THEN "stopped" ELSE "down"
    /\ alive' = {}
    /\ UNCHANGED <<cable, guard, seen, away>>

Next ==
    \/ Start
    \/ Cable
    \/ ReadSignals
    \/ ReadVbus
    \/ UpdateInvalid
    \/ UpdateValid
    \/ Wake
    \/ StopSignal
    \/ Leave
    \/ InhibitorDies
    \/ Fail

Spec == Init /\ [][Next]_guardVars

-----------------------------------------------------------------------------
\* The phone can sleep again: once a whole poll was made with no PC connected,
\* nothing inhibits sleep, neither the child the guard holds nor one it has
\* lost sight of; and a service that stopped leaves nothing behind.
NoneAfterUnplug ==
    (away = "acted" /\ cable # "pc") \/ service = "stopped" => alive = {}

\* The guard never runs two inhibitors, also when one died between two polls
\* and was replaced.
OneInhibitor == \A i, j \in alive : i = j
-----------------------------------------------------------------------------
(* The inductive invariant: what is alive is the child the guard holds, or     *)
(* nothing; and a poll begun without a PC has seen no candidate.               *)

GuardTyped ==
    /\ cable \in {"none", "charger", "pc"}
    /\ service \in {"down", "top", "vbus", "update", "asleep", "stopped"}
    /\ away \in {"connected", "begun", "acted"}
    /\ guard \in [child : Inhibitors \cup {NoChild}, positives : Nat, stopping : BOOLEAN]
    /\ seen \in [candidate : BOOLEAN, vbus : BOOLEAN]

\* Only the child that is held is alive.
OnlyChild == NoChild \notin alive /\ \A i \in alive : i = guard.child

\* Away from a PC, a snapshot that is about to be acted upon has no candidate.
NoCandidate ==
    away # "connected" =>
        cable # "pc" /\ (service \in {"vbus", "update"} => ~seen.candidate)

Released ==
    (away = "acted" \/ service \in {"down", "stopped"}) => alive = {}

GuardInv == GuardTyped /\ OnlyChild /\ NoCandidate /\ Released
=============================================================================
