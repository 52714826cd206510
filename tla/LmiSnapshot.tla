------------------------------- MODULE LmiSnapshot -------------------------------
(***************************************************************************)
(* The rear camera on the Linux 7 line: the launcher lmi-snapshot in its   *)
(* V4L2 mode, the Bayer producer it starts and the CAMSS chain the         *)
(* producer borrows from the kernel.                                       *)
(*                                                                         *)
(* The launcher owns a lock and a lease file; it starts the producer,      *)
(* waits for the line V4L2_SOURCE_READY, opens the application and writes  *)
(* into the lease whether the application is in the foreground.  The       *)
(* producer changes two links and the formats of the chain, streams,       *)
(* looks at the lease every 250 ms, and is to give all of it back.  A      *)
(* producer may outlive a launcher that is killed, so that a new launcher  *)
(* and its producer can meet the old one: every launch has a slot of       *)
(* Launches, and a slot is used again once its producer is gone.           *)
(***************************************************************************)
EXTENDS Naturals, Sequences, FiniteSets

CONSTANTS Launches,   \* the launches whose producers can be alive together
          None

ASSUME LaunchesAssumption == IsFiniteSet(Launches) /\ Launches # {} /\ None \notin Launches

VARIABLES
  links,      \* the mutable links of the chain that are enabled
  fmt,        \* the formats of the four blocks: as at boot, or the camera's
  lease,      \* the text of foreground.json, <<>> when the file is absent
  lau,        \* the launcher
  src,        \* the producer of every launch
  wanted,     \* the application has the focus and the screen is unlocked
  lost        \* what no producer gives back: a step failed or was cut off

vars == <<links, fmt, lease, lau, src, wanted, lost>>

Links == {"csiphy_csid", "csid_vfe"}
Formats == {"boot", "camera"}

\* That no formats are saved is no format.
ASSUME SavedAssumption == None \notin Formats

Parts == {"links", "formats"}

\* Where the producer has changed something of the chain that it owes.
Borrowing == {"link2", "chain", "stream", "probe", "setup", "connect", "loop",
              "stop", "unlink2", "unlink1", "formats"}
Steps == Borrowing \union {"none", "save", "configure", "link1", "exit"}

Gone == [pc |-> "none", saved |-> None, streaming |-> FALSE, busy |-> FALSE,
         ready |-> FALSE, caught |-> FALSE, term |-> FALSE]
NoLauncher == [pc |-> "none", id |-> None, stopped |-> FALSE]

Init ==
  /\ links = {} /\ fmt = "boot" /\ lease = <<>>
  /\ lau = NoLauncher /\ src = [l \in Launches |-> Gone]
  /\ wanted = FALSE /\ lost = {}

-----------------------------------------------------------------------------
(* The lease: what the launcher writes and what the producer reads in it.  *)

\* json.dumps puts a blank after every colon and every comma.
Dumps(l, active) ==
  <<"pid", ":", " ", l, ",", " ", "active", ":", " ", IF active THEN "true" ELSE "false">>

\* strstr: the needle, with no blank that it does not have.
Strstr(text, needle) ==
  \E i \in 1..(1 + Len(text) - Len(needle)) : SubSeq(text, i, i + Len(needle) - 1) = needle

LeaseState(text) ==
  IF text = <<>> THEN "absent"
  ELSE IF Strstr(text, <<"active", ":", "true">>) /\ Strstr(text, <<"pid", ":">>)
       THEN "active" ELSE "inactive"

LeasePid(text) == text[4]

\* What the launcher has written, however the producer reads it.
LeaseActive == lease # <<>> /\ lease[Len(lease)] = "true"

-----------------------------------------------------------------------------
(* The kernel's side of the chain.                                         *)

\* The queue of the video node is another file's as long as that file holds
\* buffers, which it does until it is closed.
Busy(l) == \E k \in Launches \ {l} : src[k].busy

\* A link of a chain that streams cannot be changed; to ask for what it
\* already is always succeeds.
Refused(link, on) ==
  ((link \in links) # on) /\ \E k \in Launches : src[k].streaming

Linked(link, on) == links' = IF on THEN links \union {link} ELSE links \ {link}

-----------------------------------------------------------------------------
(* The Bayer producer.                                                     *)

Becomes(l, r) == src' = [src EXCEPT ![l] = r]
At(l, pc) == src[l].pc = pc
To(l, pc) == Becomes(l, [src[l] EXCEPT !.pc = pc])

\* A producer of a launcher that was killed has not ended yet: it may still
\* give the formats back after this one has saved them.
Others(l) == \E k \in Launches \ {l} : src[k].pc # "none"

\* The formats found, kept to be restored; with none saved, none is restored.
SaveFormats(l) ==
  /\ At(l, "save")
  /\ \/ /\ Becomes(l, [src[l] EXCEPT !.pc = "configure", !.saved = fmt])
        /\ lost' = IF Others(l) THEN lost \union {"formats"} ELSE lost
     \/ To(l, "configure") /\ lost' = lost \union {"formats"}
  /\ UNCHANGED <<links, fmt, lease, lau, wanted>>

\* The format of the video node, which only the owner of its buffers sets.
Configure(l) ==
  /\ At(l, "configure")
  /\ \/ ~ Busy(l) /\ To(l, "link1")
     \/ To(l, "exit")
  /\ UNCHANGED <<links, fmt, lease, lau, wanted, lost>>

\* The two links are enabled; a failure of the second leaves the first.
EnableLink(l, pc, link, next) ==
  /\ At(l, pc)
  /\ \/ ~ Refused(link, TRUE) /\ Linked(link, TRUE) /\ To(l, next) /\ UNCHANGED lost
     \/ /\ To(l, "exit") /\ UNCHANGED links
        /\ lost' = IF pc = "link2" THEN lost \union {"links"} ELSE lost
  /\ UNCHANGED <<fmt, lease, lau, wanted>>

\* A format that is refused is only logged.
ConfigureChain(l) ==
  /\ At(l, "chain")
  /\ fmt' \in {fmt, "camera"} /\ To(l, "stream")
  /\ UNCHANGED <<links, lease, lau, wanted, lost>>

\* STREAMON with the buffers mapped and queued.
Streams(l) == Becomes(l, [src[l] EXCEPT !.pc = "probe", !.streaming = TRUE, !.busy = TRUE])

\* REQBUFS, QUERYBUF, QBUF and STREAMON: a failure may come after the buffers.
\* Whether STREAMON looks at the links is the driver's business.
StreamOn(l) ==
  /\ At(l, "stream")
  /\ \/ ~ Busy(l) /\ Streams(l)
     \/ \E busy \in {FALSE, ~ Busy(l)} :
          Becomes(l, [src[l] EXCEPT !.pc = "unlink2", !.busy = busy])
  /\ UNCHANGED <<links, fmt, lease, lau, wanted, lost>>

\* Mutant: the exit with no frame does not give the chain back.
ProbeNoRestore(l) ==
  /\ At(l, "probe")
  /\ \/ Becomes(l, [src[l] EXCEPT !.pc = "setup", !.ready = TRUE])
     \/ To(l, "exit")
  /\ UNCHANGED <<links, fmt, lease, lau, wanted, lost>>

\* A frame within three seconds, and the line the launcher waits for; or none.
Probe(l) ==
  /\ At(l, "probe")
  /\ \/ Becomes(l, [src[l] EXCEPT !.pc = "setup", !.ready = TRUE])
     \/ To(l, "stop")
  /\ UNCHANGED <<links, fmt, lease, lau, wanted, lost>>

\* The loop takes over SIGTERM; PipeWire may not be there.
Setup(l) ==
  /\ At(l, "setup")
  /\ \/ Becomes(l, [src[l] EXCEPT !.pc = "connect", !.caught = TRUE])
     \/ To(l, "stop")
  /\ UNCHANGED <<links, fmt, lease, lau, wanted, lost>>

Connect(l) ==
  /\ At(l, "connect")
  /\ To(l, "loop") \/ To(l, "stop")
  /\ UNCHANGED <<links, fmt, lease, lau, wanted, lost>>

\* Mutant: a lease that is not active does not stop the stream.
FollowNoPause(l, read) ==
  \E on \in (IF read = "active" THEN {src[l].streaming, TRUE} ELSE {src[l].streaming}) :
    Becomes(l, [src[l] EXCEPT !.streaming = on])

\* A lease read as active starts the stream, which may fail, and any other
\* stops it.
Follow(l, read) ==
  \E on \in (IF read = "active" THEN {src[l].streaming, TRUE} ELSE {FALSE}) :
    Becomes(l, [src[l] EXCEPT !.streaming = on])

\* Every 250 ms: no lease, or a lease of others, ends the loop.
LeaseTick(l) ==
  /\ At(l, "loop")
  /\ LET read == LeaseState(lease)
         other == read = "active" /\ LeasePid(lease) # l
     IN IF read = "absent" \/ other THEN To(l, "stop") ELSE Follow(l, read)
  /\ UNCHANGED <<links, fmt, lease, lau, wanted, lost>>

\* The loop ends: by a signal, or when PipeWire reports an error.
Interrupted(l) ==
  /\ At(l, "loop") /\ src[l].term
  /\ To(l, "stop")
  /\ UNCHANGED <<links, fmt, lease, lau, wanted, lost>>

StreamError(l) ==
  /\ At(l, "loop")
  /\ To(l, "stop")
  /\ UNCHANGED <<links, fmt, lease, lau, wanted, lost>>

\* Mutant: the stream is given up with its buffers, before the chain.
StreamOffFreesQueue(l) ==
  /\ At(l, "stop")
  /\ Becomes(l, [src[l] EXCEPT !.pc = "unlink2", !.streaming = FALSE, !.busy = FALSE])
  /\ UNCHANGED <<links, fmt, lease, lau, wanted, lost>>

\* v4l2_stream_off: the buffers stay with the open file.
StreamOff(l) ==
  /\ At(l, "stop")
  /\ Becomes(l, [src[l] EXCEPT !.pc = "unlink2", !.streaming = FALSE])
  /\ UNCHANGED <<links, fmt, lease, lau, wanted, lost>>

\* restore_chain: both links, whatever becomes of the first.
DisableLink(l, pc, link, next) ==
  /\ At(l, pc)
  /\ \/ ~ Refused(link, FALSE) /\ Linked(link, FALSE) /\ UNCHANGED lost
     \/ UNCHANGED links /\ lost' = lost \union {"links"}
  /\ To(l, next)
  /\ UNCHANGED <<fmt, lease, lau, wanted>>

RestoreFormats(l) ==
  /\ At(l, "formats")
  /\ \/ fmt' = (IF src[l].saved = None THEN fmt ELSE src[l].saved) /\ UNCHANGED lost
     \/ UNCHANGED fmt /\ lost' = lost \union {"formats"}
  /\ To(l, "exit")
  /\ UNCHANGED <<links, lease, lau, wanted>>

\* The files are closed; the line of a producer that was ready stays in the pipe.
SourceExit(l) ==
  /\ At(l, "exit")
  /\ Becomes(l, [Gone EXCEPT !.ready = src[l].ready])
  /\ UNCHANGED <<links, fmt, lease, lau, wanted, lost>>

\* The process ends at once and its files are closed.
Dies(l) ==
  /\ Becomes(l, [Gone EXCEPT !.ready = src[l].ready])
  /\ lost' = IF src[l].pc \in Borrowing THEN lost \union Parts ELSE lost

\* SIGTERM: before the handlers it is the end, after them the loop reads it.
Terminated(l) ==
  IF src[l].pc = "none" THEN UNCHANGED <<src, lost>>
  ELSE IF ~ src[l].caught THEN Dies(l)
  ELSE Becomes(l, [src[l] EXCEPT !.term = TRUE]) /\ UNCHANGED lost

\* The kernel is out of memory.
SourceKilled(l) ==
  /\ src[l].pc # "none" /\ Dies(l)
  /\ UNCHANGED <<links, fmt, lease, lau, wanted>>

Source(l) ==
  \/ SaveFormats(l) \/ Configure(l)
  \/ EnableLink(l, "link1", "csiphy_csid", "link2")
  \/ EnableLink(l, "link2", "csid_vfe", "chain")
  \/ ConfigureChain(l) \/ StreamOn(l) \/ Probe(l) \/ Setup(l) \/ Connect(l)
  \/ LeaseTick(l) \/ Interrupted(l) \/ StreamOff(l)
  \/ DisableLink(l, "unlink2", "csid_vfe", "unlink1")
  \/ DisableLink(l, "unlink1", "csiphy_csid", "formats")
  \/ RestoreFormats(l) \/ SourceExit(l)

-----------------------------------------------------------------------------
(* The launcher.                                                           *)

Launcher(pc) == lau.pc = pc

\* The lock is taken, the lease says that nothing is in the foreground, and
\* the producer is started.  A launcher that finds the lock taken only raises
\* the window of the other.
Launch(l) ==
  /\ Launcher("none") /\ src[l].pc = "none"
  /\ lau' = [NoLauncher EXCEPT !.pc = "wait", !.id = l]
  /\ lease' = Dumps(l, FALSE)
  /\ Becomes(l, [Gone EXCEPT !.pc = "save"])
  /\ UNCHANGED <<links, fmt, wanted, lost>>

\* start_v4l2_producer: the line, or the end of the producer, or 30 seconds.
\* The signal that stops the launcher is not looked at here.
ProducerReady ==
  /\ Launcher("wait") /\ src[lau.id].ready
  /\ lau' = [lau EXCEPT !.pc = "loop"]
  /\ UNCHANGED <<links, fmt, lease, src, wanted, lost>>

NoFrame ==
  /\ Launcher("wait") /\ ~ src[lau.id].ready /\ src[lau.id].pc = "none"
  /\ lau' = [lau EXCEPT !.pc = "notice"]
  /\ UNCHANGED <<links, fmt, lease, src, wanted, lost>>

Deadline ==
  /\ Launcher("wait") /\ ~ src[lau.id].ready
  /\ lau' = [lau EXCEPT !.pc = "give up"]
  /\ Terminated(lau.id)
  /\ UNCHANGED <<links, fmt, lease, wanted>>

\* The notice closes when the user, or a signal that comes while it is shown,
\* says so.
NoticeClosed ==
  /\ Launcher("notice")
  /\ lau' = [lau EXCEPT !.pc = "final"]
  /\ UNCHANGED <<links, fmt, lease, src, wanted, lost>>

\* A turn of the loop.  The lease is written when it changes and every half
\* second; the inhibitor of sleep, which runs while it says yes, is left out.
Publish(active) ==
  /\ Launcher("loop") /\ ~ lau.stopped /\ src[lau.id].pc # "none"
  /\ lease' = Dumps(lau.id, active)
  /\ UNCHANGED <<links, fmt, lau, src, wanted, lost>>

\* The screen counts as locked when it does not answer.
Turn == \E active \in {wanted, FALSE} : Publish(active)

\* The loop ends: stopped, the application closed, or a child is gone.
LoopEnds ==
  /\ Launcher("loop")
  /\ lau' = [lau EXCEPT !.pc = "final"]
  /\ UNCHANGED <<links, fmt, lease, src, wanted, lost>>

\* finally: the lease says no, and the children are terminated.
Final ==
  /\ Launcher("final")
  /\ lau' = [lau EXCEPT !.pc = "reap"]
  /\ lease' = Dumps(lau.id, FALSE)
  /\ Terminated(lau.id)
  /\ UNCHANGED <<links, fmt, wanted>>

\* terminate: eight seconds, and then SIGKILL.
Kill ==
  /\ lau.pc \in {"give up", "reap"} /\ src[lau.id].pc # "none"
  /\ Dies(lau.id)
  /\ UNCHANGED <<links, fmt, lease, lau, wanted>>

Reaped ==
  /\ lau.pc \in {"give up", "reap"} /\ src[lau.id].pc = "none"
  /\ IF Launcher("reap") THEN lau' = NoLauncher /\ lease' = <<>>
                         ELSE lau' = [lau EXCEPT !.pc = "notice"] /\ UNCHANGED lease
  /\ UNCHANGED <<links, fmt, src, wanted, lost>>

\* SIGTERM or SIGINT to the launcher: a flag, and in the notice its end.
Stop ==
  /\ ~ Launcher("none") /\ ~ lau.stopped
  /\ lau' = [lau EXCEPT !.stopped = TRUE, !.pc = IF @ = "notice" THEN "final" ELSE @]
  /\ UNCHANGED <<links, fmt, lease, src, wanted, lost>>

\* Mutant: the producer is started without its parent-death signal.
LauncherKilledSilently ==
  /\ ~ Launcher("none")
  /\ lau' = NoLauncher
  /\ UNCHANGED <<links, fmt, lease, src, wanted, lost>>

\* The launcher is killed: its lock is free, its lease stays, and the kernel
\* sends SIGTERM to its children.
LauncherKilled ==
  /\ ~ Launcher("none")
  /\ lau' = NoLauncher
  /\ Terminated(lau.id)
  /\ UNCHANGED <<links, fmt, lease, wanted>>

User ==
  /\ wanted' = ~ wanted
  /\ UNCHANGED <<links, fmt, lease, lau, src, lost>>

-----------------------------------------------------------------------------
Next ==
  \/ \E l \in Launches : Launch(l) \/ Source(l) \/ StreamError(l) \/ SourceKilled(l)
  \/ ProducerReady \/ NoFrame \/ Deadline \/ NoticeClosed \/ Turn \/ LoopEnds
  \/ Final \/ Kill \/ Reaped \/ Stop \/ LauncherKilled \/ User

\* The producer and the launcher run and their timers fire.  Nothing makes a
\* user close the notice or the application.
Fairness ==
  /\ \A l \in Launches : WF_vars(Source(l)) /\ WF_vars(LeaseTick(l)) /\ WF_vars(Interrupted(l))
  /\ WF_vars(ProducerReady) /\ WF_vars(NoFrame) /\ WF_vars(Publish(wanted)) /\ WF_vars(Final)
  /\ WF_vars(Reaped) /\ WF_vars(LoopEnds /\ (lau.stopped \/ src[lau.id].pc = "none"))

Spec == Init /\ [][Next]_vars /\ Fairness

-----------------------------------------------------------------------------
\* Types; a launcher always has a producer's slot (main starts one before
\* anything else), and a stream has buffers of its own.
TypeOK ==
  /\ links \subseteq Links /\ fmt \in Formats /\ lost \subseteq Parts
  /\ wanted \in BOOLEAN
  /\ lease = <<>> \/ \E l \in Launches, a \in BOOLEAN : lease = Dumps(l, a)
  /\ lau \in [pc : {"none", "wait", "give up", "notice", "loop", "final", "reap"},
              id : Launches \union {None}, stopped : BOOLEAN]
  /\ (lau.id = None) <=> Launcher("none")
  /\ src \in [Launches -> [pc : Steps, saved : Formats \union {None}, streaming : BOOLEAN,
               busy : BOOLEAN, ready : BOOLEAN, caught : BOOLEAN, term : BOOLEAN]]
  /\ \A l \in Launches : src[l].streaming => src[l].busy

\* "it restores all of it when it stops": with no producer left, the links
\* are disabled and the formats are those of boot, on every exit of the
\* producer, unless a step of the kind that lost records has failed.
ChainReturned ==
  (\A l \in Launches : src[l].pc = "none") =>
     /\ links = {} \/ "links" \in lost
     /\ fmt = "boot" \/ "formats" \in lost

\* No two producers hold the video node, and the links of a chain that
\* streams are enabled, although a new producer may start while that of a
\* killed launcher gives the chain back.
StreamsLinked ==
  \A l \in Launches : src[l].streaming => links = Links /\ ~ Busy(l)

\* Each launch's producer is in a state of its own, and its stream is linked.
StreamsSound == TypeOK /\ StreamsLinked

\* A producer never outlives its launcher for good ("A killed launcher must
\* not leave its producer polling indefinitely").
NoOrphan ==
  \A l \in Launches : lau.id # l ~> (src[l].pc = "none" \/ lau.id = l)

\* The node does not go on streaming while the lease says that the
\* application is not in the foreground.
Paused ==
  \A l \in Launches :
    (At(l, "loop") /\ src[l].streaming /\ ~ LeaseActive) ~> (~ src[l].streaming \/ LeaseActive)

\* "The producer follows the foreground lease of the launcher": it streams
\* when the lease has said for a quarter of a second that it may.  With the
\* blank that json.dumps writes and strstr does not look for, it never does.
FollowsLease ==
  \A l \in Launches :
    (At(l, "loop") /\ lau.id = l /\ LeaseActive)
      ~> (~ At(l, "loop") \/ lau.id # l \/ ~ LeaseActive \/ src[l].streaming)
=============================================================================
