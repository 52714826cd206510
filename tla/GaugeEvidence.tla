--------------------------- MODULE GaugeEvidence ---------------------------
(***************************************************************************)
(* From the gauge to the conclusion: the observer writes its log, the      *)
(* phone may die at any time and lose the end of it, and the analyzer      *)
(* reads what is left, on another machine.                                 *)
(***************************************************************************)
EXTENDS GaugeObserver

VARIABLE dead       \* the phone lost power: the observer is gone

evidenceVars == <<vars, dead>>

Analysis == INSTANCE GaugeAnalysis WITH RecordedPlan <- PlanFor

\* What the flushed rows are worth after a power cut: a prefix of the lines,
\* the last of them possibly cut.  What was in memory is lost with it.
PowerLoss ==
    /\ ~dead
    /\ dead' = TRUE
    /\ \E n \in 0..Len(out.log), cut \in BOOLEAN :
        /\ cut => n < Len(out.log)
        /\ out' = [out EXCEPT !.log = SubSeq(out.log, 1, n)
                                      \o (IF cut THEN <<Torn>> ELSE <<>>)]
    /\ boot' = 0 /\ nextPoll' = 0 /\ reads' = 0
    /\ suspending' = Never /\ candidate' = Never /\ usbZero' = Never
    /\ phase' = IF phase = "stopped" THEN phase ELSE "dead"
    /\ UNCHANGED <<control, stopReason>>

EvidenceInit == Init /\ dead = FALSE

EvidenceNext == (~dead /\ Next /\ UNCHANGED dead) \/ PowerLoss

\* Poll and Tick: the timer fires while the phone is awake, and the phone does
\* not sleep for ever.
EvidenceSpec ==
    /\ EvidenceInit /\ [][EvidenceNext]_evidenceVars
    /\ WF_evidenceVars(~dead /\ Arm /\ UNCHANGED dead)
    /\ WF_evidenceVars(~dead /\ Tick /\ UNCHANGED dead)
    /\ WF_evidenceVars(~dead /\ Poll /\ UNCHANGED dead)

Log == out.log

-----------------------------------------------------------------------------
\* A log the analyzer calls structurally complete is the whole story: it has
\* every row the engine kept in memory, and its end is the engine's own.  A
\* sink that failed once, a torn line or a lost tail never passes for it.
CompleteIsWhole ==
    Analysis!CompleteStructurally(Log) =>
        /\ Len(Log) = out.rows
        /\ phase = "stopped"
        /\ Analysis!FinishedReason(Log) = stopReason

\* The two copies of the protocol agree: a probe the observer completed with
\* numeric currents is always usable for the analyzer, whatever came after,
\* and no other is.
CompleteProbesUsable ==
    \A i \in DOMAIN Analysis!Attempts(Log) :
        LET p == Analysis!Attempts(Log)[i]
        IN  (p.complete /\ p.odd = None) <=> i \in Analysis!Usable(Log)

\* Usable evidence was taken on battery: its row comes after the confirmed
\* unplug and before any row that reports a replug.
UsableWhileUnplugged ==
    \A i \in DOMAIN Log :
        (Log[i].event = "resume-signal" /\ Log[i].probe.complete) =>
            /\ \E j \in 1..(i - 1) : Log[j].event = "unplugged"
            /\ ~\E j \in 1..(i - 1) :
                    Log[j].event \in {"replugged", "replugged-during-prepare"}

\* Evidence is usable to the analyzer exactly when the observer completed it,
\* and then it was taken on battery.
UsableEvidence == CompleteProbesUsable /\ UsableWhileUnplugged

-----------------------------------------------------------------------------
(* What makes the last two inductive. *)

\* A sink that never failed has every row.  An end in the log is the engine's own
\* and the last row of all.
SinkWhole == (~dead /\ ~out.failed) => Len(Log) = out.rows

EndIsLast ==
    \A i \in DOMAIN Log :
        Log[i].event = "finished" =>
            /\ i = Len(Log) /\ i = out.rows
            /\ phase = "stopped" /\ Log[i].reason = stopReason

\* The engine observes after the unplug it has recorded, and no longer after a replug.
Replugged(event) == event \in {"replugged", "replugged-during-prepare"}

ObservesUnplugged ==
    /\ (~dead /\ phase = "observing") => \E j \in DOMAIN Log : Log[j].event = "unplugged"
    /\ ~dead /\ (\E j \in DOMAIN Log : Replugged(Log[j].event)) => phase = "stopped"

\* What a record of the probe can be: one of the first callbacks, in the mode of its
\* index; complete only with the whole plan read and for no reason to discard it.
ProbeSound(p, callbacks) ==
    /\ p.captured \in BOOLEAN /\ p.complete \in BOOLEAN
    /\ p.captured =>
        p.index \in 0..7 /\ p.index < callbacks /\ p.mode = ModeSequence[p.index + 1]
    /\ p.complete =>
        p.captured /\ p.reads = PlanReads
        /\ p.stop \in {None, "callback_limit_reached", "service_deadline"}

RowsSound(log, callbacks) ==
    /\ \A i \in DOMAIN log :
        log[i].event = "resume-signal" =>
            /\ ProbeSound(log[i].probe, callbacks)
            /\ \A j \in DOMAIN log :
                (log[j].event = "resume-signal" /\ j # i
                 /\ log[i].probe.captured /\ log[j].probe.captured)
                    => log[i].probe.index # log[j].probe.index
    /\ \A i \in DOMAIN log :
        (log[i].event = "resume-signal" /\ log[i].probe.complete) =>
            /\ \E j \in 1..(i - 1) : log[j].event = "unplugged"
            /\ \A j \in 1..(i - 1) : ~Replugged(log[j].event)

EvidenceInv ==
    /\ TypeOK /\ SinkWhole /\ EndIsLast /\ ObservesUnplugged
    /\ RowsSound(Log, control.attempts)

-----------------------------------------------------------------------------
\* The observation ends: no later than the first callback after the deadline.
Stops == <>(dead \/ phase = "stopped")
=============================================================================
