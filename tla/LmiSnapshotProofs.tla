-------------------------- MODULE LmiSnapshotProofs --------------------------
(***************************************************************************)
(* Proofs about LmiSnapshot: whatever number of launches meet, at most one *)
(* of their producers is past the video node, its stream is linked, and    *)
(* what it borrowed is given back or recorded as lost.                     *)
(***************************************************************************)
EXTENDS LmiSnapshot, TLAPS

Sources ==
  [pc : Steps, saved : Formats \union {None}, streaming : BOOLEAN, busy : BOOLEAN,
   ready : BOOLEAN, caught : BOOLEAN, term : BOOLEAN]
Launchers ==
  [pc : {"none", "wait", "give up", "notice", "loop", "final", "reap"},
   id : Launches \union {None}, stopped : BOOLEAN]

Typed ==
  /\ links \subseteq Links /\ fmt \in Formats /\ lost \subseteq Parts
  /\ wanted \in BOOLEAN
  /\ lease = <<>> \/ \E l \in Launches, a \in BOOLEAN : lease = Dumps(l, a)
  /\ lau \in Launchers
  /\ (lau.id = None) <=> (lau.pc = "none")
  /\ src \in [Launches -> Sources]

\* The steps of a producer that has got past the video node, and those between
\* a stream that was started and the restoration of the chain.
Streamable == {"probe", "setup", "connect", "loop", "stop"}
Ending == {"unlink2", "unlink1", "formats", "exit"}
Linking == {"chain", "stream"} \union Streamable
Past == {"link1", "link2", "chain", "stream"} \union Streamable \union (Ending \ {"exit"})
Apart == {"none", "save", "configure", "exit"}

\* A producer that has not taken over SIGTERM belongs to the launcher that runs:
\* it would not have survived that of another.
Owned(l) == src[l].caught \/ src[l].pc = "none" \/ lau.id = l

\* Buffers come with the stream and stay to the exit; SIGTERM is taken over after
\* them.
Staged(l) ==
  /\ src[l].busy => src[l].pc \in Streamable \union Ending
  /\ src[l].pc \in Streamable => src[l].busy
  /\ src[l].streaming => src[l].pc \in Streamable
  /\ src[l].caught => src[l].busy /\ src[l].pc \in {"connect", "loop", "stop"} \union Ending

\* Only one producer is past the video node.
Alone(l, k) ==
  /\ src[l].pc \in Past => src[k].pc \in Apart /\ ~src[k].busy
  /\ ~(src[l].busy /\ src[k].busy)

\* What the links are while a producer has them.
Holding(l) ==
  /\ src[l].pc = "link2" => "csiphy_csid" \in links
  /\ src[l].pc \in Linking => links = Links

ChainInv ==
  /\ Typed
  /\ \A l \in Launches : Owned(l) /\ Staged(l) /\ Holding(l)
  /\ \A l, k \in Launches : l # k => Alone(l, k)

\* Each link and the formats are as at boot, or the producer that will give them
\* back has not come to it yet, or they are recorded as lost.
LinksOwed ==
  \/ "links" \in lost
  \/ /\ "csid_vfe" \in links =>
          \E l \in Launches : src[l].pc \in Linking \union {"unlink2"}
     /\ "csiphy_csid" \in links =>
          \E l \in Launches : src[l].pc \in {"link2", "unlink2", "unlink1"} \union Linking

Restoring == (Linking \ {"chain"}) \union {"unlink2", "unlink1", "formats"}

FormatsOwed ==
  \/ "formats" \in lost
  \/ /\ fmt = "boot" \/ \E l \in Launches : src[l].pc \in Restoring
     /\ \A l \in Launches : src[l].pc \notin {"none", "save"} => src[l].saved = "boot"

SnapshotInv == ChainInv /\ LinksOwed /\ FormatsOwed

-----------------------------------------------------------------------------
(* Typing. *)

LEMMA GoneTyped ==
  ASSUME Typed, NEW l \in Launches
  PROVE  /\ Gone \in Sources
         /\ [Gone EXCEPT !.ready = src[l].ready] \in Sources
         /\ [Gone EXCEPT !.pc = "save"] \in Sources
<1>1. src[l].ready \in BOOLEAN
  BY DEF Typed, Sources
<1>2. Gone \in Sources
  BY DEF Gone, Sources, Steps, Borrowing
<1>3. "save" \in Steps
  BY DEF Steps
<1>4. QED
  BY <1>1, <1>2, <1>3 DEF Sources

LEMMA SrcTyped ==
  ASSUME Typed, NEW l \in Launches, NEW r \in Sources, Becomes(l, r)
  PROVE  src' \in [Launches -> Sources]
BY DEF Typed, Becomes

LEMMA ToTyped ==
  ASSUME Typed, NEW l \in Launches, NEW pc \in Steps
  PROVE  [src[l] EXCEPT !.pc = pc] \in Sources
BY DEF Typed, Sources

LEMMA StepNames == Steps = Past \union Apart /\ Past \subseteq Steps /\ Apart \subseteq Steps
BY DEF Steps, Borrowing, Past, Apart, Streamable, Ending

\* What a producer becomes in a step of its own, or by a signal.
LEMMA DiesTyped ==
  ASSUME Typed, NEW l \in Launches, Dies(l)
  PROVE  src' \in [Launches -> Sources] /\ lost' \subseteq Parts
<1>1. src' \in [Launches -> Sources]
  BY GoneTyped, SrcTyped DEF Dies
<1>2. QED
  BY <1>1 DEF Dies, Typed

LEMMA TerminatedTyped ==
  ASSUME Typed, NEW l \in Launches, Terminated(l)
  PROVE  src' \in [Launches -> Sources] /\ lost' \subseteq Parts
<1>1. CASE src[l].pc = "none"
  BY <1>1 DEF Terminated, Typed
<1>2. CASE src[l].pc # "none" /\ ~src[l].caught
  BY <1>2, DiesTyped DEF Terminated
<1>3. CASE src[l].pc # "none" /\ src[l].caught
  <2>1. [src[l] EXCEPT !.term = TRUE] \in Sources
    BY DEF Typed, Sources
  <2>2. QED
    BY <1>3, <2>1, SrcTyped DEF Terminated, Typed
<1>4. QED
  BY <1>1, <1>2, <1>3

LEMMA SourceTyped ==
  ASSUME Typed, NEW l \in Launches, Source(l) \/ StreamError(l) \/ SourceKilled(l)
  PROVE  Typed'
<1> DEFINE Rest == /\ links' \subseteq Links /\ fmt' \in Formats /\ lost' \subseteq Parts
                   /\ UNCHANGED <<wanted, lease, lau>>
<1>1. SUFFICES src' \in [Launches -> Sources] /\ Rest
  BY DEF Typed
<1>2. src[l] \in Sources
  BY DEF Typed
<1>3. \A pc \in Steps : To(l, pc) => src' \in [Launches -> Sources]
  BY ToTyped, SrcTyped DEF To
<1>4. CASE SaveFormats(l)
  <2>1. [src[l] EXCEPT !.pc = "configure", !.saved = fmt] \in Sources
    BY <1>2 DEF Sources, Typed, Steps
  <2>2. QED
    BY <1>3, <1>4, <2>1, SrcTyped DEF SaveFormats, Typed, Steps, Parts
<1>5. CASE Configure(l)
  BY <1>3, <1>5 DEF Configure, Typed, Steps, Borrowing
<1>6. CASE \/ EnableLink(l, "link1", "csiphy_csid", "link2")
           \/ EnableLink(l, "link2", "csid_vfe", "chain")
  BY <1>3, <1>6 DEF EnableLink, Linked, Links, Typed, Steps, Borrowing, Parts
<1>7. CASE ConfigureChain(l)
  BY <1>3, <1>7 DEF ConfigureChain, Typed, Steps, Borrowing, Formats
<1>8. CASE StreamOn(l)
  <2>1. [src[l] EXCEPT !.pc = "probe", !.streaming = TRUE, !.busy = TRUE] \in Sources
    BY <1>2 DEF Sources, Steps, Borrowing
  <2>2. \A b \in BOOLEAN : [src[l] EXCEPT !.pc = "unlink2", !.busy = b] \in Sources
    BY <1>2 DEF Sources, Steps, Borrowing
  <2>3. Busy(l) \in BOOLEAN
    BY DEF Busy
  <2>4. QED
    BY <1>8, <2>1, <2>2, <2>3, SrcTyped DEF StreamOn, Streams, Typed
<1>9. CASE Probe(l) \/ Setup(l) \/ Connect(l)
  <2>1. /\ [src[l] EXCEPT !.pc = "setup", !.ready = TRUE] \in Sources
        /\ [src[l] EXCEPT !.pc = "connect", !.caught = TRUE] \in Sources
    BY <1>2 DEF Sources, Steps, Borrowing
  <2>2. QED
    BY <1>3, <1>9, <2>1, SrcTyped DEF Probe, Setup, Connect, Typed, Steps, Borrowing
<1>10. CASE LeaseTick(l)
  <2>1. \A b \in BOOLEAN : [src[l] EXCEPT !.streaming = b] \in Sources
    BY <1>2 DEF Sources
  <2>2. CASE To(l, "stop")
    BY <1>3, <1>10, <2>2 DEF LeaseTick, Typed, Steps, Borrowing
  <2>3. CASE Follow(l, LeaseState(lease))
    <3>1. PICK b \in BOOLEAN : Becomes(l, [src[l] EXCEPT !.streaming = b])
      BY <1>2, <2>3 DEF Follow, Sources
    <3>2. QED
      BY <1>10, <2>1, <3>1, SrcTyped DEF LeaseTick, Typed
  <2>4. QED
    BY <1>10, <2>2, <2>3 DEF LeaseTick
<1>11. CASE Interrupted(l) \/ StreamError(l)
  BY <1>3, <1>11 DEF Interrupted, StreamError, Typed, Steps, Borrowing
<1>12. CASE StreamOff(l)
  <2>1. [src[l] EXCEPT !.pc = "unlink2", !.streaming = FALSE] \in Sources
    BY <1>2 DEF Sources, Steps, Borrowing
  <2>2. QED
    BY <1>12, <2>1, SrcTyped DEF StreamOff, Typed
<1>13. CASE \/ DisableLink(l, "unlink2", "csid_vfe", "unlink1")
            \/ DisableLink(l, "unlink1", "csiphy_csid", "formats")
  BY <1>3, <1>13 DEF DisableLink, Linked, Typed, Steps, Borrowing, Parts
<1>14. CASE RestoreFormats(l)
  BY <1>2, <1>3, <1>14 DEF RestoreFormats, Typed, Steps, Sources, Parts
<1>15. CASE SourceExit(l) \/ SourceKilled(l)
  BY <1>15, GoneTyped, SrcTyped, DiesTyped DEF SourceExit, SourceKilled, Typed
<1>16. QED
  BY <1>4, <1>5, <1>6, <1>7, <1>8, <1>9, <1>10, <1>11, <1>12, <1>13, <1>14, <1>15
     DEF Source

LauncherStep ==
  \/ ProducerReady \/ NoFrame \/ Deadline \/ NoticeClosed \/ Turn \/ LoopEnds
  \/ Final \/ Kill \/ Reaped \/ Stop \/ LauncherKilled

\* The producer's slot of a launcher that runs.
LEMMA IdTyped == ASSUME Typed, lau.pc # "none" PROVE lau.id \in Launches
BY DEF Typed, Launchers

LEMMA LauTyped ==
  ASSUME Typed, LauncherStep \/ \E l \in Launches : Launch(l)
  PROVE  lau' \in Launchers /\ ((lau'.id = None) <=> (lau'.pc = "none"))
<1> USE LaunchesAssumption DEF Typed, Launchers, NoLauncher, Launcher
<1>1. CASE \E l \in Launches : Launch(l)
  BY <1>1 DEF Launch
<1>2. CASE ProducerReady \/ NoFrame \/ Deadline
  BY <1>2 DEF ProducerReady, NoFrame, Deadline
<1>3. CASE NoticeClosed \/ Turn \/ LoopEnds \/ Kill
  BY <1>3 DEF NoticeClosed, Turn, Publish, LoopEnds, Kill
<1>4. CASE Final \/ Reaped
  <2>1. \/ lau' = NoLauncher
        \/ lau.pc # "none" /\ \E pc \in {"reap", "notice"} : lau' = [lau EXCEPT !.pc = pc]
    <3>1. CASE Final
      BY <3>1 DEF Final
    <3>2. CASE Reaped /\ lau.pc = "reap"
      BY <3>2 DEF Reaped
    <3>3. CASE Reaped /\ lau.pc # "reap"
      BY <3>3 DEF Reaped
    <3>4. QED
      BY <1>4, <3>1, <3>2, <3>3
  <2>2. CASE lau' = NoLauncher
    BY <2>2
  <2>3. CASE lau.pc # "none" /\ \E pc \in {"reap", "notice"} : lau' = [lau EXCEPT !.pc = pc]
    <3>1. PICK pc \in {"reap", "notice"} : lau' = [lau EXCEPT !.pc = pc]
      BY <2>3
    <3>2. lau'.id = lau.id /\ lau'.pc = pc /\ lau'.stopped = lau.stopped
      BY <3>1
    <3>3. QED
      BY <2>3, <3>1, <3>2
  <2>4. QED
    BY <2>1, <2>2, <2>3
<1>5. CASE Stop
  <2>1. (IF lau.pc = "notice" THEN "final" ELSE lau.pc)
          \in {"none", "wait", "give up", "notice", "loop", "final", "reap"} \ {"none"}
    BY <1>5 DEF Stop
  <2>2. QED
    BY <1>5, <2>1 DEF Stop
<1>6. CASE LauncherKilled
  BY <1>6 DEF LauncherKilled
<1>7. QED
  BY <1>1, <1>2, <1>3, <1>4, <1>5, <1>6 DEF LauncherStep

LEMMA LeaseTyped ==
  ASSUME Typed, LauncherStep \/ \E l \in Launches : Launch(l)
  PROVE  lease' = <<>> \/ \E l \in Launches, a \in BOOLEAN : lease' = Dumps(l, a)
<1>1. CASE UNCHANGED lease \/ lease' = <<>>
  BY <1>1 DEF Typed
<1>2. CASE \E l \in Launches : Launch(l)
  BY <1>2 DEF Launch
<1>3. CASE Final
  <2>1. lau.id \in Launches /\ lease' = Dumps(lau.id, FALSE)
    BY <1>3, IdTyped DEF Final, Launcher
  <2>2. QED
    BY <2>1
<1>4. CASE Turn
  <2>1. PICK a \in BOOLEAN : Publish(a)
    BY <1>4 DEF Turn, Typed
  <2>2. lau.id \in Launches /\ lease' = Dumps(lau.id, a)
    BY <2>1, IdTyped DEF Publish, Launcher
  <2>3. QED
    BY <2>2
<1>5. LauncherStep => UNCHANGED lease \/ lease' = <<>> \/ Final \/ Turn
  BY DEF LauncherStep, ProducerReady, NoFrame, Deadline, NoticeClosed, LoopEnds, Kill,
         Reaped, Stop, LauncherKilled
<1>6. QED
  BY <1>1, <1>2, <1>3, <1>4, <1>5

LEMMA LauncherTyped ==
  ASSUME Typed, LauncherStep \/ \E l \in Launches : Launch(l)
  PROVE  Typed'
<1>1. UNCHANGED <<links, fmt, wanted>>
  BY DEF LauncherStep, Launch, ProducerReady, NoFrame, Deadline, NoticeClosed, Turn,
         Publish, LoopEnds, Final, Kill, Reaped, Stop, LauncherKilled
<1>2. src' \in [Launches -> Sources] /\ lost' \subseteq Parts
  <2>1. CASE \E l \in Launches : Launch(l)
    BY <2>1, GoneTyped, SrcTyped DEF Launch, Typed
  <2>2. CASE Deadline \/ Final \/ LauncherKilled
    <3>1. lau.id \in Launches /\ Terminated(lau.id)
      BY <2>2, IdTyped DEF Deadline, Final, LauncherKilled, Launcher
    <3>2. QED
      BY <3>1, TerminatedTyped
  <2>3. CASE Kill
    <3>1. lau.id \in Launches /\ Dies(lau.id)
      BY <2>3, IdTyped DEF Kill
    <3>2. QED
      BY <3>1, DiesTyped
  <2>4. CASE UNCHANGED <<src, lost>>
    BY <2>4 DEF Typed
  <2>5. LauncherStep => UNCHANGED <<src, lost>> \/ Deadline \/ Final \/ LauncherKilled \/ Kill
    BY DEF LauncherStep, ProducerReady, NoFrame, NoticeClosed, Turn, Publish, LoopEnds,
           Reaped, Stop
  <2>6. QED
    BY <2>1, <2>2, <2>3, <2>4, <2>5
<1>3. QED
  BY <1>1, <1>2, LauTyped, LeaseTyped DEF Typed

LEMMA NextTyped ==
  ASSUME Typed, [Next]_vars
  PROVE  Typed'
<1>1. CASE UNCHANGED vars \/ User
  BY <1>1 DEF User, vars, Typed
<1>2. CASE LauncherStep \/ \E l \in Launches : Launch(l)
  BY <1>2, LauncherTyped
<1>3. CASE \E l \in Launches : Source(l) \/ StreamError(l) \/ SourceKilled(l)
  BY <1>3, SourceTyped
<1>4. QED
  BY <1>1, <1>2, <1>3 DEF Next, LauncherStep

-----------------------------------------------------------------------------
(* A step in which one producer at most changes, or the launcher that has   *)
(* it: what such a step must satisfy to keep the invariant.                 *)

ChainMove(l) ==
  /\ lau'.id = lau.id \/ lau.id \in {None, l}
  /\ Owned(l)' /\ Staged(l)' /\ Holding(l)'
  /\ src'[l].pc \in Past =>
       src[l].pc \in Past \/ \A k \in Launches \ {l} : src[k].pc = "none"
  /\ src'[l].busy => src[l].busy \/ src[l].pc \in Past
  /\ links' = links \/ src[l].pc \in Past

OwesVfe == Linking \union {"unlink2"}
OwesCsid == {"link2", "unlink2", "unlink1"} \union Linking

LinksMove(l) ==
  \/ "links" \in lost'
  \/ /\ "csid_vfe" \in links' => "csid_vfe" \in links \/ src'[l].pc \in OwesVfe
     /\ "csiphy_csid" \in links' => "csiphy_csid" \in links \/ src'[l].pc \in OwesCsid
     /\ src[l].pc \in OwesVfe => src'[l].pc \in OwesVfe \/ "csid_vfe" \notin links'
     /\ src[l].pc \in OwesCsid => src'[l].pc \in OwesCsid \/ "csiphy_csid" \notin links'

FormatsMove(l) ==
  \/ "formats" \in lost'
  \/ /\ fmt' = fmt \/ fmt' = "boot" \/ src'[l].pc \in Restoring
     /\ src[l].pc \in Restoring => src'[l].pc \in Restoring \/ fmt' = "boot"
     /\ src'[l].pc \notin {"none", "save"} => src'[l].saved = "boot"

OnlyAt(l) ==
  /\ \A k \in Launches \ {l} : src'[k] = src[k]
  /\ lost \subseteq lost'

LEMMA ChainMoves ==
  ASSUME ChainInv, Typed', NEW l \in Launches, OnlyAt(l), ChainMove(l)
  PROVE  ChainInv'
<1>1. \A k \in Launches \ {l} : src'[k] = src[k]
  BY DEF OnlyAt
<1>2. \A k \in Launches : Owned(k)'
  <2> SUFFICES ASSUME NEW k \in Launches \ {l} PROVE Owned(k)'
    BY DEF ChainMove
  <2>1. Owned(k) /\ (lau'.id = lau.id \/ lau.id \in {None, l})
    BY DEF ChainInv, ChainMove
  <2>2. QED
    BY <1>1, <2>1, LaunchesAssumption DEF Owned
<1>3. \A k \in Launches : Staged(k)'
  BY <1>1 DEF ChainInv, ChainMove, Staged
<1>4. \A k \in Launches \ {l} : Holding(k)'
  <2> SUFFICES ASSUME NEW k \in Launches \ {l} PROVE Holding(k)'
    OBVIOUS
  <2>1. CASE links' = links
    BY <1>1, <2>1 DEF ChainInv, Holding
  <2>2. CASE src[l].pc \in Past
    <3>1. src'[k].pc \in Apart
      BY <1>1, <2>2 DEF ChainInv, Alone
    <3>2. QED
      BY <3>1 DEF Holding, Apart, Linking, Streamable
  <2>3. QED
    BY <2>1, <2>2 DEF ChainMove
<1>5. \A k \in Launches \ {l} : Alone(l, k)' /\ Alone(k, l)'
  <2> SUFFICES ASSUME NEW k \in Launches \ {l} PROVE Alone(l, k)' /\ Alone(k, l)'
    OBVIOUS
  <2>1. src'[k] = src[k] /\ Alone(l, k) /\ Alone(k, l)
    BY <1>1 DEF ChainInv
  <2>2. src[k].pc = "none" => ~src[k].busy /\ src[k].pc \in Apart /\ src[k].pc \notin Past
    BY DEF ChainInv, Staged, Streamable, Ending, Apart, Past
  <2>3. src[l].pc \in Steps /\ src'[l].pc \in Steps /\ Apart \cap Past = {}
    BY StepNames DEF Typed, ChainInv, Sources, Apart, Past, Streamable, Ending
  <2>4. src'[l].pc \in Past => src[k].pc \in Apart /\ ~src[k].busy
    BY <2>1, <2>2 DEF ChainMove, Alone
  <2>5. ~(src'[l].busy /\ src[k].busy)
    BY <2>1 DEF ChainMove, Alone
  <2>6. src[k].pc \in Past => src'[l].pc \in Apart /\ ~src'[l].busy
    <3> SUFFICES ASSUME src[k].pc \in Past PROVE src'[l].pc \in Apart /\ ~src'[l].busy
      OBVIOUS
    <3>1. src[l].pc \notin Past /\ ~src[l].busy /\ src[k].pc # "none"
      BY <2>1, <2>2, <2>3 DEF Alone
    <3>2. src'[l].pc \notin Past /\ ~src'[l].busy
      BY <3>1 DEF ChainMove
    <3>3. QED
      BY <2>3, <3>2, StepNames
  <2>7. QED
    BY <2>1, <2>4, <2>5, <2>6 DEF Alone
<1>6. \A j, k \in Launches \ {l} : j # k => Alone(j, k)'
  BY <1>1 DEF ChainInv, Alone
<1>7. QED
  BY <1>2, <1>3, <1>4, <1>5, <1>6 DEF ChainInv, ChainMove

LEMMA LinksMoves ==
  ASSUME LinksOwed, NEW l \in Launches, OnlyAt(l), LinksMove(l)
  PROVE  LinksOwed'
<1> DEFINE Owe(link, set) == link \in links => \E k \in Launches : src[k].pc \in set
<1>1. LinksOwed <=> "links" \in lost \/ (Owe("csid_vfe", OwesVfe) /\ Owe("csiphy_csid", OwesCsid))
  BY DEF LinksOwed, OwesVfe, OwesCsid
<1>2. LinksOwed' <=> "links" \in lost' \/ (Owe("csid_vfe", OwesVfe)' /\ Owe("csiphy_csid", OwesCsid)')
  BY DEF LinksOwed, OwesVfe, OwesCsid
<1> HIDE DEF OwesVfe, OwesCsid
<1>3. QED
  BY <1>1, <1>2 DEF OnlyAt, LinksMove

LEMMA FormatsMoves ==
  ASSUME FormatsOwed, NEW l \in Launches, OnlyAt(l), FormatsMove(l)
  PROVE  FormatsOwed'
<1> HIDE DEF Restoring
<1>1. QED
  BY DEF FormatsOwed, OnlyAt, FormatsMove

-----------------------------------------------------------------------------
(* The steps of a producer. *)

Moves(l) == OnlyAt(l) /\ ChainMove(l) /\ LinksMove(l) /\ FormatsMove(l)

LEMMA BecomesIs ==
  ASSUME Typed, NEW l \in Launches, NEW r, Becomes(l, r)
  PROVE  src'[l] = r /\ \A k \in Launches \ {l} : src'[k] = src[k]
BY DEF Typed, Becomes

LEMMA ToIs ==
  ASSUME Typed, NEW l \in Launches, NEW pc, To(l, pc)
  PROVE  /\ src'[l].pc = pc
         /\ src'[l].saved = src[l].saved /\ src'[l].streaming = src[l].streaming
         /\ src'[l].busy = src[l].busy /\ src'[l].caught = src[l].caught
         /\ \A k \in Launches \ {l} : src'[k] = src[k]
<1>1. src[l] \in Sources
  BY DEF Typed
<1>2. QED
  BY <1>1, BecomesIs DEF To, Sources

\* Before it has the video node a producer has changed nothing.
LEMMA BeginMoves ==
  ASSUME Typed, SnapshotInv, NEW l \in Launches, SaveFormats(l) \/ Configure(l)
  PROVE  Moves(l)
<1>1. src[l] \in Sources /\ Owned(l) /\ Staged(l) /\ Holding(l)
  BY DEF Typed, SnapshotInv, ChainInv
<1>2. UNCHANGED <<links, fmt, lau>>
  BY DEF SaveFormats, Configure
<1>3. CASE SaveFormats(l)
  <2>0. lost \subseteq lost'
    BY <1>3 DEF SaveFormats
  <2>1. /\ src'[l].pc = "configure" /\ src[l].pc = "save"
        /\ src'[l].streaming = src[l].streaming /\ src'[l].busy = src[l].busy
        /\ src'[l].caught = src[l].caught
        /\ \A k \in Launches \ {l} : src'[k] = src[k]
    <3>1. CASE Becomes(l, [src[l] EXCEPT !.pc = "configure", !.saved = fmt])
      <4>1. /\ src'[l] = [src[l] EXCEPT !.pc = "configure", !.saved = fmt]
            /\ \A k \in Launches \ {l} : src'[k] = src[k]
        BY <3>1, BecomesIs
      <4>2. QED
        BY <1>1, <1>3, <4>1 DEF SaveFormats, At, Sources
    <3>2. CASE To(l, "configure")
      BY <1>3, <3>2, ToIs DEF SaveFormats, At
    <3>3. QED
      BY <1>3, <3>1, <3>2 DEF SaveFormats
  <2>2. "formats" \in lost' \/ src'[l].saved = "boot"
    <3>1. CASE To(l, "configure") /\ lost' = lost \union {"formats"}
      BY <3>1
    <3>2. CASE Others(l) /\ lost' = lost \union {"formats"}
      BY <3>2
    <3>3. CASE /\ Becomes(l, [src[l] EXCEPT !.pc = "configure", !.saved = fmt])
               /\ ~Others(l) /\ lost' = lost
      <4>1. src'[l].saved = fmt
        BY <1>1, <3>3, BecomesIs DEF Sources
      <4>2. \A k \in Launches : src[k].pc \notin Restoring
        BY <2>1, <3>3 DEF Others, Restoring, Linking, Streamable
      <4>3. "formats" \in lost \/ fmt = "boot"
        BY <4>2 DEF SnapshotInv, FormatsOwed
      <4>4. QED
        BY <3>3, <4>1, <4>3
    <3>4. QED
      BY <1>3, <3>1, <3>2, <3>3 DEF SaveFormats
  <2>3. OnlyAt(l)
    BY <2>0, <2>1 DEF OnlyAt
  <2>4. ChainMove(l)
    BY <1>1, <1>2, <2>1
       DEF ChainMove, Owned, Staged, Holding, Past, Linking, Streamable, Ending
  <2>5. LinksMove(l) /\ FormatsMove(l)
    BY <1>2, <2>1, <2>2
       DEF LinksMove, FormatsMove, OwesVfe, OwesCsid, Restoring, Linking, Streamable
  <2>6. QED
    BY <2>3, <2>4, <2>5 DEF Moves
<1>4. CASE Configure(l)
  <2>1. /\ src[l].pc = "configure" /\ lost' = lost
        /\ src'[l].pc = "exit" \/ (src'[l].pc = "link1" /\ ~Busy(l))
        /\ src'[l].saved = src[l].saved /\ src'[l].streaming = src[l].streaming
        /\ src'[l].busy = src[l].busy /\ src'[l].caught = src[l].caught
        /\ \A k \in Launches \ {l} : src'[k] = src[k]
    BY <1>4, ToIs DEF Configure, At
  <2>2. ~Busy(l) => \A k \in Launches \ {l} : src[k].pc = "none"
    <3>1. lau.id = l
      BY <1>1, <2>1 DEF Owned, Staged, Streamable, Ending
    <3>2. \A k \in Launches \ {l} : src[k].pc = "none" \/ src[k].busy
      BY <3>1 DEF SnapshotInv, ChainInv, Owned, Staged
    <3>3. QED
      BY <3>2 DEF Busy
  <2>3. OnlyAt(l)
    BY <2>1 DEF OnlyAt
  <2>4. ChainMove(l)
    BY <1>1, <1>2, <2>1, <2>2
       DEF ChainMove, Owned, Staged, Holding, Past, Linking, Streamable, Ending
  <2>5. LinksMove(l) /\ FormatsMove(l)
    BY <1>2, <2>1 DEF SnapshotInv, FormatsOwed, LinksMove, FormatsMove, OwesVfe, OwesCsid,
                      Restoring, Linking, Streamable
  <2>6. QED
    BY <2>3, <2>4, <2>5 DEF Moves
<1>5. QED
  BY <1>3, <1>4

\* Two links and the formats are taken over, each before the step that streams.
LEMMA BorrowMoves ==
  ASSUME Typed, SnapshotInv, NEW l \in Launches,
         \/ EnableLink(l, "link1", "csiphy_csid", "link2")
         \/ EnableLink(l, "link2", "csid_vfe", "chain")
         \/ ConfigureChain(l)
  PROVE  Moves(l)
<1>1. Owned(l) /\ Staged(l) /\ Holding(l)
  BY DEF SnapshotInv, ChainInv
<1>2. lau' = lau
  BY DEF EnableLink, ConfigureChain
<1>3. ASSUME NEW from \in {"link1", "link2", "chain"}, src[l].pc = from,
             NEW to \in {"link2", "chain", "stream", "exit"}, To(l, to)
      PROVE  /\ src'[l].pc = to
             /\ src'[l].saved = src[l].saved
             /\ Owned(l)' /\ Staged(l)'
             /\ \A k \in Launches \ {l} : src'[k] = src[k]
             /\ from # "link1" => from \in OwesCsid
             /\ from = "chain" => from \in OwesVfe
  <2>1. /\ src'[l].pc = to
        /\ src'[l].saved = src[l].saved /\ src'[l].streaming = src[l].streaming
        /\ src'[l].busy = src[l].busy /\ src'[l].caught = src[l].caught
        /\ \A k \in Launches \ {l} : src'[k] = src[k]
    BY <1>3, ToIs
  <2>2. QED
    BY <1>1, <1>2, <1>3, <2>1
       DEF Owned, Staged, Streamable, Ending, OwesCsid, OwesVfe, Linking
<1>4. CASE EnableLink(l, "link1", "csiphy_csid", "link2")
  <2>1. /\ src[l].pc = "link1" /\ lost' = lost /\ fmt' = fmt
        /\ \/ To(l, "link2") /\ links' = links \union {"csiphy_csid"}
           \/ To(l, "exit") /\ links' = links
    BY <1>4 DEF EnableLink, At, Linked
  <2>2. /\ src'[l].saved = src[l].saved /\ Owned(l)' /\ Staged(l)'
        /\ \A k \in Launches \ {l} : src'[k] = src[k]
        /\ \/ src'[l].pc = "link2" /\ links' = links \union {"csiphy_csid"}
           \/ src'[l].pc = "exit" /\ links' = links
    BY <1>3, <2>1
  <2>3. OnlyAt(l) /\ ChainMove(l)
    BY <1>2, <2>1, <2>2 DEF OnlyAt, ChainMove, Holding, Past, Linking, Streamable
  <2>4. LinksMove(l) /\ FormatsMove(l)
    BY <2>1, <2>2 DEF SnapshotInv, FormatsOwed, LinksMove, FormatsMove, OwesVfe, OwesCsid,
                      Restoring, Linking, Streamable
  <2>5. QED
    BY <2>3, <2>4 DEF Moves
<1>5. CASE EnableLink(l, "link2", "csid_vfe", "chain")
  <2>1. /\ src[l].pc = "link2" /\ fmt' = fmt /\ lost \subseteq lost'
        /\ \/ To(l, "chain") /\ links' = links \union {"csid_vfe"} /\ lost' = lost
           \/ To(l, "exit") /\ links' = links /\ "links" \in lost'
    BY <1>5 DEF EnableLink, At, Linked
  <2>2. /\ src'[l].saved = src[l].saved /\ Owned(l)' /\ Staged(l)'
        /\ \A k \in Launches \ {l} : src'[k] = src[k]
        /\ \/ src'[l].pc = "chain" /\ links' = links \union {"csid_vfe"}
           \/ src'[l].pc = "exit" /\ links' = links /\ "links" \in lost'
    BY <1>3, <2>1
  <2>3. links \union {"csid_vfe"} = Links
    BY <1>1, <2>1 DEF Holding, Typed, Links
  <2>4. OnlyAt(l) /\ ChainMove(l)
    BY <1>2, <2>1, <2>2, <2>3 DEF OnlyAt, ChainMove, Holding, Past, Linking, Streamable
  <2>5. LinksMove(l) /\ FormatsMove(l)
    BY <2>1, <2>2 DEF SnapshotInv, FormatsOwed, LinksMove, FormatsMove, OwesVfe, OwesCsid,
                      Restoring, Linking, Streamable
  <2>6. QED
    BY <2>4, <2>5 DEF Moves
<1>6. CASE ConfigureChain(l)
  <2>1. src[l].pc = "chain" /\ lost' = lost /\ links' = links /\ To(l, "stream")
    BY <1>6 DEF ConfigureChain, At
  <2>2. /\ src'[l].pc = "stream" /\ src'[l].saved = src[l].saved
        /\ Owned(l)' /\ Staged(l)'
        /\ \A k \in Launches \ {l} : src'[k] = src[k]
    BY <1>3, <2>1
  <2>3. OnlyAt(l) /\ ChainMove(l)
    BY <1>1, <1>2, <2>1, <2>2 DEF OnlyAt, ChainMove, Holding, Past, Linking, Streamable
  <2>4. LinksMove(l) /\ FormatsMove(l)
    BY <2>1, <2>2 DEF SnapshotInv, FormatsOwed, LinksMove, FormatsMove, OwesVfe, OwesCsid,
                      Restoring, Linking, Streamable
  <2>5. QED
    BY <2>3, <2>4 DEF Moves
<1>7. QED
  BY <1>4, <1>5, <1>6

\* The stream and its buffers: nothing else of the chain changes.
LEMMA StreamMoves ==
  ASSUME Typed, SnapshotInv, NEW l \in Launches,
         \/ StreamOn(l) \/ Probe(l) \/ Setup(l) \/ Connect(l) \/ LeaseTick(l)
         \/ Interrupted(l) \/ StreamError(l) \/ StreamOff(l)
  PROVE  Moves(l)
<1>1. src[l] \in Sources /\ Owned(l) /\ Staged(l) /\ Holding(l)
  BY DEF Typed, SnapshotInv, ChainInv
<1>2. UNCHANGED <<links, fmt, lau, lost>>
  BY DEF StreamOn, Probe, Setup, Connect, LeaseTick, Interrupted, StreamError, StreamOff
<1>3. /\ \A k \in Launches \ {l} : src'[k] = src[k]
      /\ src[l].pc \in {"stream"} \union Streamable
      /\ src'[l].pc \in Streamable \union {"unlink2"}
      /\ src'[l].saved = src[l].saved
      /\ Owned(l)' /\ Staged(l)'
  <2>1. CASE \E to \in {"loop", "stop"} :
               To(l, to) /\ src[l].pc \in {"probe", "setup", "connect", "loop"}
               /\ (to = "loop" => src[l].pc = "connect")
    <3>1. PICK to \in {"loop", "stop"} :
            /\ To(l, to) /\ src[l].pc \in {"probe", "setup", "connect", "loop"}
            /\ (to = "loop" => src[l].pc = "connect")
      BY <2>1
    <3>2. /\ src'[l].pc = to
          /\ src'[l].saved = src[l].saved /\ src'[l].streaming = src[l].streaming
          /\ src'[l].busy = src[l].busy /\ src'[l].caught = src[l].caught
          /\ \A k \in Launches \ {l} : src'[k] = src[k]
      BY <3>1, ToIs
    <3>3. QED
      BY <1>1, <1>2, <3>1, <3>2 DEF Owned, Staged, Streamable, Ending
  <2>2. CASE StreamOn(l)
    <3>1. \/ src'[l] = [src[l] EXCEPT !.pc = "probe", !.streaming = TRUE, !.busy = TRUE]
          \/ \E b \in BOOLEAN : src'[l] = [src[l] EXCEPT !.pc = "unlink2", !.busy = b]
      BY <2>2, BecomesIs DEF StreamOn, Streams, Busy
    <3>2. \A k \in Launches \ {l} : src'[k] = src[k]
      BY <2>2, BecomesIs DEF StreamOn, Streams
    <3>3. src[l].pc = "stream" /\ ~src[l].streaming /\ ~src[l].caught
      BY <1>1, <2>2 DEF StreamOn, At, Staged, Streamable, Ending
    <3>4. QED
      BY <1>1, <1>2, <3>1, <3>2, <3>3 DEF Owned, Staged, Streamable, Ending, Sources
  <2>3. CASE \/ At(l, "probe") /\ Becomes(l, [src[l] EXCEPT !.pc = "setup", !.ready = TRUE])
             \/ At(l, "setup") /\ Becomes(l, [src[l] EXCEPT !.pc = "connect", !.caught = TRUE])
             \/ At(l, "stop") /\ Becomes(l, [src[l] EXCEPT !.pc = "unlink2", !.streaming = FALSE])
             \/ /\ At(l, "loop")
                /\ \E b \in BOOLEAN : Becomes(l, [src[l] EXCEPT !.streaming = b])
    <3>1. \/ src[l].pc = "probe" /\ src'[l] = [src[l] EXCEPT !.pc = "setup", !.ready = TRUE]
          \/ src[l].pc = "setup" /\ src'[l] = [src[l] EXCEPT !.pc = "connect", !.caught = TRUE]
          \/ src[l].pc = "stop" /\ src'[l] = [src[l] EXCEPT !.pc = "unlink2", !.streaming = FALSE]
          \/ src[l].pc = "loop" /\ \E b \in BOOLEAN : src'[l] = [src[l] EXCEPT !.streaming = b]
      BY <2>3, BecomesIs DEF At
    <3>2. \A k \in Launches \ {l} : src'[k] = src[k]
      BY <2>3 DEF Becomes, Typed
    <3>3. /\ src'[l].saved = src[l].saved
          /\ src'[l].streaming => src[l].streaming \/ src'[l].pc = "loop"
          /\ src'[l].busy = src[l].busy
          /\ src'[l].caught = src[l].caught \/ src'[l].pc = "connect"
          /\ src'[l].pc \in {"setup", "connect", "loop"} \/ ~src'[l].streaming
      BY <1>1, <3>1 DEF Sources
    <3>4. \/ src[l].pc = "probe" /\ src'[l].pc = "setup" /\ src'[l].caught = src[l].caught
          \/ src[l].pc = "setup" /\ src'[l].pc = "connect" /\ src'[l].caught
          \/ src[l].pc = "stop" /\ src'[l].pc = "unlink2" /\ src'[l].caught = src[l].caught
          \/ src[l].pc = "loop" /\ src'[l].pc = "loop" /\ src'[l].caught = src[l].caught
      BY <1>1, <3>1 DEF Sources
    <3>5. Owned(l)' /\ Staged(l)'
      BY <1>1, <1>2, <3>3, <3>4 DEF Owned, Staged, Streamable, Ending
    <3>6. QED
      BY <3>2, <3>3, <3>4, <3>5 DEF Streamable
  <2>4. LeaseTick(l) => \/ At(l, "loop") /\ To(l, "stop")
                        \/ /\ At(l, "loop")
                           /\ \E b \in BOOLEAN : Becomes(l, [src[l] EXCEPT !.streaming = b])
    BY <1>1 DEF LeaseTick, Follow, Sources
  <2>5. QED
    BY <2>1, <2>2, <2>3, <2>4
       DEF Probe, Setup, Connect, Interrupted, StreamError, StreamOff, At
<1>4. src[l].pc \in Linking /\ src[l].pc # "chain"
  BY <1>3 DEF Linking, Streamable
<1>5. OnlyAt(l) /\ ChainMove(l)
  BY <1>1, <1>2, <1>3, <1>4 DEF OnlyAt, ChainMove, Holding, Past, Linking, Streamable
<1>6. LinksMove(l) /\ FormatsMove(l)
  BY <1>2, <1>3 DEF SnapshotInv, FormatsOwed, LinksMove, FormatsMove, OwesVfe, OwesCsid,
                    Restoring, Linking, Streamable
<1>7. QED
  BY <1>5, <1>6 DEF Moves

\* The way out: the links, then the formats, whatever becomes of each.
LEMMA ReturnMoves ==
  ASSUME Typed, SnapshotInv, NEW l \in Launches,
         \/ DisableLink(l, "unlink2", "csid_vfe", "unlink1")
         \/ DisableLink(l, "unlink1", "csiphy_csid", "formats")
         \/ RestoreFormats(l)
  PROVE  Moves(l)
<1>1. Owned(l) /\ Staged(l) /\ Holding(l)
  BY DEF SnapshotInv, ChainInv
<1>2. lau' = lau /\ lost \subseteq lost'
  BY DEF DisableLink, RestoreFormats
<1>3. ASSUME NEW from \in {"unlink2", "unlink1", "formats"}, src[l].pc = from,
             NEW to \in {"unlink1", "formats", "exit"}, To(l, to)
      PROVE  /\ src'[l].pc = to /\ src'[l].saved = src[l].saved
             /\ OnlyAt(l) /\ ChainMove(l)
  <2>1. /\ src'[l].pc = to
        /\ src'[l].saved = src[l].saved /\ src'[l].streaming = src[l].streaming
        /\ src'[l].busy = src[l].busy /\ src'[l].caught = src[l].caught
        /\ \A k \in Launches \ {l} : src'[k] = src[k]
    BY <1>3, ToIs
  <2>2. src[l].pc \in Past
    BY <1>3 DEF Past, Ending
  <2>3. Owned(l)' /\ Staged(l)' /\ Holding(l)'
    BY <1>1, <1>2, <1>3, <2>1 DEF Owned, Staged, Holding, Linking, Streamable, Ending
  <2>4. QED
    BY <1>2, <2>1, <2>2, <2>3 DEF OnlyAt, ChainMove
<1>4. CASE DisableLink(l, "unlink2", "csid_vfe", "unlink1")
  <2>1. /\ src[l].pc = "unlink2" /\ fmt' = fmt /\ To(l, "unlink1")
        /\ links' = links \ {"csid_vfe"} \/ (links' = links /\ "links" \in lost')
    BY <1>4 DEF DisableLink, At, Linked
  <2>2. src'[l].pc = "unlink1" /\ src'[l].saved = src[l].saved /\ OnlyAt(l) /\ ChainMove(l)
    BY <1>3, <2>1
  <2>3. LinksMove(l) /\ FormatsMove(l)
    BY <1>2, <2>1, <2>2 DEF SnapshotInv, FormatsOwed, LinksMove, FormatsMove, OwesVfe,
                            OwesCsid, Restoring, Linking, Streamable
  <2>4. QED
    BY <2>2, <2>3 DEF Moves
<1>5. CASE DisableLink(l, "unlink1", "csiphy_csid", "formats")
  <2>1. /\ src[l].pc = "unlink1" /\ fmt' = fmt /\ To(l, "formats")
        /\ links' = links \ {"csiphy_csid"} \/ (links' = links /\ "links" \in lost')
    BY <1>5 DEF DisableLink, At, Linked
  <2>2. src'[l].pc = "formats" /\ src'[l].saved = src[l].saved /\ OnlyAt(l) /\ ChainMove(l)
    BY <1>3, <2>1
  <2>3. LinksMove(l) /\ FormatsMove(l)
    BY <1>2, <2>1, <2>2 DEF SnapshotInv, FormatsOwed, LinksMove, FormatsMove, OwesVfe,
                            OwesCsid, Restoring, Linking, Streamable
  <2>4. QED
    BY <2>2, <2>3 DEF Moves
<1>6. CASE RestoreFormats(l)
  <2>1. /\ src[l].pc = "formats" /\ links' = links /\ To(l, "exit")
        /\ \/ fmt' = (IF src[l].saved = None THEN fmt ELSE src[l].saved)
           \/ "formats" \in lost'
    BY <1>6 DEF RestoreFormats, At
  <2>2. src'[l].pc = "exit" /\ src'[l].saved = src[l].saved /\ OnlyAt(l) /\ ChainMove(l)
    BY <1>3, <2>1
  <2>3. "formats" \in lost \/ src[l].saved = "boot"
    BY <2>1 DEF SnapshotInv, FormatsOwed
  <2>4. None # "boot"
    BY SavedAssumption DEF Formats
  <2>5. LinksMove(l) /\ FormatsMove(l)
    BY <1>2, <2>1, <2>2, <2>3, <2>4 DEF LinksMove, FormatsMove, OwesVfe, OwesCsid,
                                        Restoring, Linking, Streamable
  <2>6. QED
    BY <2>2, <2>5 DEF Moves
<1>7. QED
  BY <1>4, <1>5, <1>6

\* The end of the process, in its turn or at once.  The launcher that had it may
\* go with it.
LEMMA EndMoves ==
  ASSUME Typed, SnapshotInv, NEW l \in Launches,
         SourceExit(l) \/ (Dies(l) /\ UNCHANGED <<links, fmt>>),
         lau'.id = lau.id \/ lau.id = l
  PROVE  Moves(l)
<1>1. /\ src'[l] = [Gone EXCEPT !.ready = src[l].ready]
      /\ \A k \in Launches \ {l} : src'[k] = src[k]
  BY BecomesIs DEF SourceExit, Dies
<1>2. /\ src'[l].pc = "none" /\ ~src'[l].busy /\ ~src'[l].streaming /\ ~src'[l].caught
      /\ UNCHANGED <<links, fmt>>
  BY <1>1 DEF Gone, SourceExit
<1>3. /\ lost \subseteq lost'
      /\ src[l].pc \in Borrowing => lost' = lost \union Parts
  BY DEF SourceExit, Dies, At, Borrowing
<1>4. OnlyAt(l) /\ ChainMove(l)
  BY <1>1, <1>2, <1>3
     DEF OnlyAt, ChainMove, Owned, Staged, Holding, Past, Linking, Streamable, Ending
<1>5. /\ src[l].pc \in OwesVfe \union OwesCsid \union Restoring => src[l].pc \in Borrowing
      /\ Parts = {"links", "formats"}
  BY DEF OwesVfe, OwesCsid, Restoring, Linking, Streamable, Borrowing, Parts
<1>6. LinksMove(l) /\ FormatsMove(l)
  BY <1>2, <1>3, <1>5 DEF LinksMove, FormatsMove
<1>7. QED
  BY <1>4, <1>6 DEF Moves

-----------------------------------------------------------------------------
(* The steps of the launcher. *)

\* SIGTERM ends a producer or is kept for its loop.
LEMMA TerminatedMoves ==
  ASSUME Typed, SnapshotInv, NEW l \in Launches, Terminated(l), lau.id = l,
         UNCHANGED <<links, fmt>>
  PROVE  Moves(l)
<1>1. Owned(l) /\ Staged(l) /\ Holding(l)
  BY DEF SnapshotInv, ChainInv
<1>2. CASE src[l].pc = "none"
  <2>1. UNCHANGED <<src, lost>>
    BY <1>2 DEF Terminated
  <2>2. OnlyAt(l) /\ ChainMove(l)
    BY <1>1, <1>2, <2>1 DEF OnlyAt, ChainMove, Owned, Staged, Holding, Past, Linking,
                            Streamable, Ending
  <2>3. LinksMove(l) /\ FormatsMove(l)
    BY <1>2, <2>1 DEF LinksMove, FormatsMove
  <2>4. QED
    BY <2>2, <2>3 DEF Moves
<1>3. CASE src[l].pc # "none" /\ ~src[l].caught
  BY <1>3, EndMoves DEF Terminated
<1>4. CASE src[l].pc # "none" /\ src[l].caught
  <2>1. Becomes(l, [src[l] EXCEPT !.term = TRUE]) /\ lost' = lost
    BY <1>4 DEF Terminated
  <2>2. /\ src'[l].pc = src[l].pc
        /\ src'[l].saved = src[l].saved /\ src'[l].streaming = src[l].streaming
        /\ src'[l].busy = src[l].busy /\ src'[l].caught = src[l].caught
        /\ \A k \in Launches \ {l} : src'[k] = src[k]
    BY <2>1, BecomesIs DEF Typed, Sources
  <2>3. OnlyAt(l) /\ ChainMove(l)
    BY <1>1, <1>4, <2>1, <2>2 DEF OnlyAt, ChainMove, Owned, Staged, Holding
  <2>4. LinksMove(l) /\ FormatsMove(l)
    BY <2>1, <2>2 DEF SnapshotInv, FormatsOwed, LinksMove, FormatsMove
  <2>5. QED
    BY <2>3, <2>4 DEF Moves
<1>5. QED
  BY <1>2, <1>3, <1>4

\* A launch takes a free slot, when every producer that is left has taken over
\* SIGTERM.
LEMMA LaunchMoves ==
  ASSUME Typed, SnapshotInv, NEW l \in Launches, Launch(l)
  PROVE  Moves(l)
<1>1. /\ src'[l] = [Gone EXCEPT !.pc = "save"]
      /\ \A k \in Launches \ {l} : src'[k] = src[k]
  BY BecomesIs DEF Launch
<1>2. /\ src'[l].pc = "save" /\ ~src'[l].busy /\ ~src'[l].streaming /\ ~src'[l].caught
      /\ src[l].pc = "none" /\ lau.id = None /\ lau'.id = l
      /\ UNCHANGED <<links, fmt, lost>>
  BY <1>1 DEF Gone, Launch, Launcher, NoLauncher, Typed
<1>3. OnlyAt(l) /\ ChainMove(l)
  BY <1>1, <1>2
     DEF OnlyAt, ChainMove, Owned, Staged, Holding, Past, Linking, Streamable, Ending
<1>4. LinksMove(l) /\ FormatsMove(l)
  BY <1>2 DEF LinksMove, FormatsMove, OwesVfe, OwesCsid, Restoring, Linking, Streamable
<1>5. QED
  BY <1>3, <1>4 DEF Moves

-----------------------------------------------------------------------------
(* The invariant. *)

LEMMA InitHolds == Init => SnapshotInv
<1> SUFFICES ASSUME Init PROVE SnapshotInv
  OBVIOUS
<1>1. Gone \in Sources
  BY DEF Gone, Sources, Steps, Borrowing
<1>2. Typed
  BY <1>1, LaunchesAssumption DEF Init, Typed, Launchers, NoLauncher, Formats, Links, Parts
<1>3. \A l \in Launches : /\ src[l].pc = "none" /\ ~src[l].busy /\ ~src[l].streaming
                          /\ ~src[l].caught
  BY DEF Init, Gone
<1>4. ChainInv
  BY <1>2, <1>3 DEF ChainInv, Owned, Staged, Holding, Alone, Past, Linking, Streamable, Ending
<1>5. LinksOwed /\ FormatsOwed
  BY <1>3 DEF Init, LinksOwed, FormatsOwed
<1>6. QED
  BY <1>4, <1>5 DEF SnapshotInv

LEMMA MovesHold ==
  ASSUME SnapshotInv, Typed', NEW l \in Launches, Moves(l)
  PROVE  SnapshotInv'
BY ChainMoves, LinksMoves, FormatsMoves DEF SnapshotInv, Moves

\* A step that leaves the chain and the producers alone; the launcher keeps its
\* slot or gives up one whose producer is gone.
LEMMA QuietHolds ==
  ASSUME SnapshotInv, Typed', UNCHANGED <<links, fmt, src, lost>>,
         lau'.id = lau.id \/ (lau.id \in Launches /\ src[lau.id].pc = "none")
  PROVE  SnapshotInv'
<1>1. \A l \in Launches : Owned(l)' /\ Staged(l)' /\ Holding(l)'
  BY DEF SnapshotInv, ChainInv, Owned, Staged, Holding
<1>2. \A l, k \in Launches : l # k => Alone(l, k)'
  BY DEF SnapshotInv, ChainInv, Alone
<1>3. LinksOwed' /\ FormatsOwed'
  BY DEF SnapshotInv, LinksOwed, FormatsOwed
<1>4. QED
  BY <1>1, <1>2, <1>3 DEF SnapshotInv, ChainInv

LEMMA NextHolds == SnapshotInv /\ [Next]_vars => SnapshotInv'
<1> SUFFICES ASSUME SnapshotInv, [Next]_vars PROVE SnapshotInv'
  OBVIOUS
<1>1. Typed /\ Typed'
  BY NextTyped DEF SnapshotInv, ChainInv
<1>2. CASE UNCHANGED vars \/ User
  BY <1>1, <1>2, QuietHolds DEF vars, User
<1>3. CASE \E l \in Launches : Source(l) \/ StreamError(l) \/ SourceKilled(l)
  <2>1. PICK l \in Launches : Source(l) \/ StreamError(l) \/ SourceKilled(l)
    BY <1>3
  <2>2. Moves(l)
    <3>1. CASE SourceKilled(l)
      BY <1>1, <3>1, EndMoves DEF SourceKilled
    <3>2. CASE SourceExit(l)
      BY <1>1, <3>2, EndMoves DEF SourceExit
    <3>3. CASE (Source(l) \/ StreamError(l)) /\ ~SourceExit(l)
      BY <1>1, <3>3, BeginMoves, BorrowMoves, StreamMoves, ReturnMoves DEF Source
    <3>4. QED
      BY <2>1, <3>1, <3>2, <3>3
  <2>3. QED
    BY <1>1, <2>2, MovesHold
<1>4. CASE \E l \in Launches : Launch(l)
  BY <1>1, <1>4, LaunchMoves, MovesHold
<1>5. CASE Deadline \/ Final \/ LauncherKilled
  <2>1. lau.id \in Launches /\ Terminated(lau.id) /\ UNCHANGED <<links, fmt>>
    BY <1>1, <1>5, IdTyped DEF Deadline, Final, LauncherKilled, Launcher
  <2>2. QED
    BY <1>1, <2>1, TerminatedMoves, MovesHold
<1>6. CASE Kill
  <2>1. lau.id \in Launches /\ Dies(lau.id) /\ UNCHANGED <<links, fmt, lau>>
    BY <1>1, <1>6, IdTyped DEF Kill
  <2>2. QED
    BY <1>1, <2>1, EndMoves, MovesHold
<1>7. CASE ProducerReady \/ NoFrame \/ NoticeClosed \/ Turn \/ LoopEnds \/ Reaped \/ Stop
  <2>1. UNCHANGED <<links, fmt, src, lost>>
    BY <1>7 DEF ProducerReady, NoFrame, NoticeClosed, Turn, Publish, LoopEnds, Reaped, Stop
  <2>2. CASE Reaped
    <3>1. lau.id \in Launches /\ src[lau.id].pc = "none"
      BY <1>1, <2>2, IdTyped DEF Reaped
    <3>2. QED
      BY <1>1, <2>1, <3>1, QuietHolds
  <2>3. CASE ~Reaped
    <3>1. lau'.id = lau.id
      BY <1>1, <1>7, <2>3
         DEF ProducerReady, NoFrame, NoticeClosed, Turn, Publish, LoopEnds, Stop, Typed, Launchers
    <3>2. QED
      BY <1>1, <2>1, <3>1, QuietHolds
  <2>4. QED
    BY <2>2, <2>3
<1>8. QED
  BY <1>2, <1>3, <1>4, <1>5, <1>6, <1>7 DEF Next

LEMMA SnapshotInvHolds == Spec => []SnapshotInv
BY InitHolds, NextHolds, PTL DEF Spec

\* No stream ever runs over a chain whose links are not its own, however many
\* producers of killed launchers are still on their way out
\* (userspace/camera/diagnostics/native-pipewire-v4l2-bayer-source.c, main).
THEOREM StreamsSoundHolds == Spec => []StreamsSound
<1>1. SnapshotInv => StreamsSound
  <2> SUFFICES ASSUME SnapshotInv PROVE TypeOK /\ StreamsLinked
    BY DEF StreamsSound
  <2>1. \A l \in Launches : src[l].streaming => src[l].busy /\ links = Links
    BY DEF SnapshotInv, ChainInv, Staged, Holding, Linking
  <2>2. \A l \in Launches : src[l].streaming => ~Busy(l)
    BY <2>1 DEF SnapshotInv, ChainInv, Alone, Busy
  <2>3. QED
    BY <2>1, <2>2
       DEF SnapshotInv, ChainInv, Typed, TypeOK, StreamsLinked, Sources, Launchers, Launcher
<1>2. QED
  BY <1>1, SnapshotInvHolds, PTL

\* Whatever ended the producers, with none left the chain is as it was at boot or
\* a step that failed has been recorded (restore_chain(), restore_formats()).
THEOREM ChainReturnedHolds == Spec => []ChainReturned
<1>1. SnapshotInv => ChainReturned
  <2> SUFFICES ASSUME SnapshotInv, \A l \in Launches : src[l].pc = "none"
               PROVE  /\ links = {} \/ "links" \in lost
                      /\ fmt = "boot" \/ "formats" \in lost
    BY DEF ChainReturned
  <2>1. "links" \in lost \/ ("csid_vfe" \notin links /\ "csiphy_csid" \notin links)
    BY DEF SnapshotInv, LinksOwed, Linking, Streamable
  <2>2. links \subseteq {"csiphy_csid", "csid_vfe"}
    BY DEF SnapshotInv, ChainInv, Typed, Links
  <2>3. "formats" \in lost \/ fmt = "boot"
    BY DEF SnapshotInv, FormatsOwed, Restoring, Linking, Streamable
  <2>4. QED
    BY <2>1, <2>2, <2>3
<1>2. QED
  BY <1>1, SnapshotInvHolds, PTL
=============================================================================
