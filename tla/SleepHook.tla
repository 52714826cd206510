----------------------------- MODULE SleepHook -----------------------------
(***************************************************************************)
(* sleep_hook.py, called by systemd before and after each suspend, and     *)
(* compare_sleep.py, which pairs the records it left.                      *)
(*                                                                         *)
(* A write that fails is passed over in silence, so the log may miss any   *)
(* record, and what the comparison must not do is join two records of      *)
(* different transitions.  Times are in units of a transition's length.    *)
(***************************************************************************)
EXTENDS Integers, Sequences

CONSTANTS
    MaxTransitions,     \* bound: suspends
    MaxBoots            \* bound: boots

HookAssumption == MaxTransitions \in Nat /\ MaxBoots \in Nat

VARIABLES
    machine,    \* [boot, state, boottime, mono]: the phone
    number,     \* history: the transition in progress or the last one
    hookLog,    \* the lines of the log
    lost        \* history: records that could not be written

hookVars == <<machine, number, hookLog, lost>>

Phases == {"pre", "post"}

\* snapshot(): what a comparison looks at; the counters are left out.  The
\* boot id may be unreadable.  `of` is the transition the record belongs to.
Snapshot(phase, id) ==
    [phase |-> phase, boot |-> id, boottime |-> machine.boottime,
     mono |-> machine.mono, of |-> number]

\* A line written in part, with whatever is appended to it.
Broken == [phase |-> "broken"]

\* append_private(): the whole line, none of it, or the beginning of it.  A
\* line that follows the beginning of another is one broken line with it.
Appended(log, row) ==
    IF log # <<>> /\ log[Len(log)] = Broken THEN {log}
    ELSE {Append(log, row), log, Append(log, Broken)}

Init ==
    /\ machine = [boot |-> 1, state |-> "awake", boottime |-> 0, mono |-> 0]
    /\ number = 0
    /\ hookLog = <<>>
    /\ lost = 0

Unreadable == 0     \* a boot id that is not a string

\* main(): one record, or none when the write fails.
Write(phase) ==
    \E id \in {machine.boot, Unreadable} : \E log \in Appended(hookLog, Snapshot(phase,
          id)') :
        /\ hookLog' = log
        /\ lost' = IF log = Append(hookLog, Snapshot(phase, id)') THEN lost ELSE lost + 1

\* systemd is about to suspend.
Pre ==
    /\ machine.state = "awake"
    /\ number < MaxTransitions
    /\ number' = number + 1
    /\ machine' = [machine EXCEPT !.state = "asleep"]
    /\ Write("pre")

\* The suspend lasts, or is refused at once; then systemd calls the hook again.
Post ==
    /\ machine.state = "asleep"
    /\ \E slept \in 0..1 :
        machine' = [machine EXCEPT !.state = "awake", !.boottime = @ + 1 + slept,
                                   !.mono = @ + 1]
    /\ UNCHANGED number
    /\ Write("post")

\* The phone starts again, from sleep or not: its clocks too.
Reboot ==
    /\ machine.boot < MaxBoots
    /\ machine' = [boot |-> machine.boot + 1, state |-> "awake", boottime |-> 0, mono |-> 0]
    /\ UNCHANGED <<number, hookLog, lost>>

Next == Pre \/ Post \/ Reboot

Spec == Init /\ [][Next]_hookVars

-----------------------------------------------------------------------------
(* compare_sleep.py *)

NoRow == [phase |-> "none"]

\* compare(), on one pair: the intervals, None (-1) when they make no sense.
Pair(pre, post) ==
    LET elapsed == post.boottime - pre.boottime
        suspended == elapsed - (post.mono - pre.mono)
        sound == elapsed >= 0 /\ suspended >= 0
    IN  [comparable |-> pre.boot # Unreadable /\ pre.boot = post.boot,
         pre |-> pre, post |-> post,
         elapsed |-> IF sound THEN elapsed ELSE -1,
         suspended |-> IF sound THEN suspended ELSE -1]

\* Mutant: a record taken for a pair stays for the next.
PairingKept(acc, row) ==
    IF row.phase = "pre" THEN [acc EXCEPT !.pending = row]
    ELSE IF row.phase = "post" /\ acc.pending # NoRow
    THEN [acc EXCEPT !.results = Append(@, Pair(acc.pending, row))]
    ELSE acc

\* compare(): a pre replaces the one that waits, a post takes it.
Pairing(acc, row) ==
    IF row.phase = "pre" THEN [acc EXCEPT !.pending = row]
    ELSE IF row.phase = "post" /\ acc.pending # NoRow
    THEN [pending |-> NoRow, results |-> Append(acc.results, Pair(acc.pending, row))]
    ELSE acc

\* The loop of compare(): what it has after the first n records.
Paired(log) ==
    LET acc[n \in 0..Len(log)] ==
            IF n = 0 THEN [pending |-> NoRow, results |-> <<>>]
            ELSE Pairing(acc[n - 1], log[n])
    IN  acc

\* records() raises on a broken line, and there is no report.
Compare(log) ==
    IF \E i \in DOMAIN log : log[i] = Broken THEN <<>>
    ELSE Paired(log)[Len(log)].results

-----------------------------------------------------------------------------
\* A record that could not be written costs its pair and no other: with one
\* lost record every pair called comparable is the two ends of one transition,
\* and its intervals are never those of two boots.
OneLossNoFalsePair ==
    \A i \in DOMAIN Compare(hookLog) :
        LET p == Compare(hookLog)[i]
        IN  p.comparable =>
                /\ p.elapsed >= 0 /\ p.suspended >= 0
                /\ lost <= 1 => p.pre.of = p.post.of

-----------------------------------------------------------------------------
(* The inductive invariant *)

Records ==
    [phase : Phases, boot : Nat, boottime : Nat, mono : Nat, of : Nat] \cup {Broken}

Readable == \A i \in DOMAIN hookLog : hookLog[i] # Broken

HookTyped ==
    /\ machine \in [boot : Nat \ {0}, state : {"awake", "asleep"}, boottime : Nat,
         mono : Nat]
    /\ number \in Nat /\ lost \in Nat
    /\ hookLog \in Seq(Records)

\* Between two records of one boot the phone was up, or asleep besides.
Follows(pre, post) ==
    post.mono >= pre.mono /\ post.boottime - pre.boottime >= post.mono - pre.mono

\* A record that pairs with the next one has lost nothing between them.
NeighboursTrue ==
    \A i \in 1..(Len(hookLog) - 1) :
        LET pre == hookLog[i]
            post == hookLog[i + 1]
        IN  pre.phase = "pre" /\ post.phase = "post" /\ pre.boot # Unreadable
              /\ pre.boot = post.boot =>
                /\ Follows(pre, post)
                /\ lost <= 1 => pre.of = post.of

\* The last record, while its boot lasts: what comes after it was not written.
LastTrue ==
    hookLog # <<>> =>
        LET pre == hookLog[Len(hookLog)]
        IN  pre.phase = "pre" /\ pre.boot = machine.boot =>
                /\ Follows(pre, machine)
                /\ \/ machine.state = "asleep" /\ (number = pre.of \/ lost >= 2)
                   \/ machine.state = "awake" /\ lost >= 1

SleepInv ==
    /\ HookTyped
    /\ \A i \in DOMAIN hookLog : hookLog[i] # Broken => hookLog[i].boot <= machine.boot
    /\ Readable => NeighboursTrue /\ LastTrue
=============================================================================
