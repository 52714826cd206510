----------------------------- MODULE HalCapture -----------------------------
(***************************************************************************)
(* The capture client that runs in the private runtime                     *)
(* (userspace/camera/diagnostics/camera-module-capture.c): the thread of   *)
(* main(), which hands buffers to the vendor's camera HAL, waits for each  *)
(* and saves pictures, and the HAL's own threads, which call back under    *)
(* capture_mutex.  "still" and "sequence" use one buffer, frame by frame   *)
(* (capture_one); "pipeline" and "foreground" keep N in flight             *)
(* (capture_pipeline).  Frame numbers are uint32_t: here modulo Modulus.   *)
(***************************************************************************)
EXTENDS Integers

CONSTANTS N,            \* PIPELINE_SLOTS
          Limit,        \* frame_count of the modes that are not "foreground"
          Modulus,      \* 2^32
          Warm          \* the first frame that is saved, 15 in the code

HalAssumption ==
    /\ N \in Nat \ {0} /\ Limit \in Nat /\ Modulus \in Nat /\ Warm \in Nat
    /\ Limit >= N /\ Modulus > Limit + 2 * N

VARIABLES mode,         \* argv
          prog,         \* the main thread
          slot,         \* pipeline[], or the capture_* variables as slot 0
          handle,       \* the buffers allocated
          taken,        \* the requests the HAL has and has not answered
          writer,       \* the frame the camera may still write into a buffer
          content,      \* the frame last written into it
          fences,       \* the descriptors the HAL has given, one per frame
          image,        \* preview.ppm or test.jpg
          trouble       \* something failed that is not the client's doing

halVars == <<mode, prog, slot, handle, taken, writer, content, fences, image,
             trouble>>

-----------------------------------------------------------------------------
Piped == mode \in {"pipeline", "foreground"}
SlotIds == IF Piped THEN 0..(N - 1) ELSE {0}
Frames == 0..(Modulus - 1)
UInt(n) == n % Modulus
SlotOf(f) == IF Piped THEN (f - 1) % N ELSE 0

NoFence == -1
Stdin == 0              \* what a slot's fence is before capture_pipeline()
Torn == -1              \* a picture of no single frame

Count == IF mode = "foreground" THEN Modulus - 1 - N ELSE Limit

Saves(f) ==
    CASE mode = "still"    -> f = Count
      [] mode = "sequence" -> f >= Warm /\ f % 3 = 0
      [] OTHER             -> f >= Warm

Fresh(f) == [frame |-> f, received |-> FALSE, error |-> FALSE, bad |-> FALSE,
             fence |-> NoFence]

Close(fs, f) ==
    IF f = NoFence THEN fs
    ELSE [fs EXCEPT ![f] = IF @ = "open" THEN "closed" ELSE "twice"]

Init ==
    /\ mode \in {"still", "sequence", "pipeline", "foreground"}
    /\ prog = [pc |-> "begin", slot |-> 0, frame |-> 1, last |-> Count,
               next |-> 1, status |-> "ok"]
    /\ slot = [s \in SlotIds |->
                 [Fresh(0) EXCEPT !.fence = IF Piped THEN Stdin ELSE NoFence]]
    /\ handle = [s \in SlotIds |-> "none"]
    /\ taken = {}
    /\ writer = [s \in SlotIds |-> 0] /\ content = [s \in SlotIds |-> 0]
    /\ fences = [f \in Frames |-> IF f = Stdin THEN "open" ELSE "none"]
    /\ image = [frame |-> 0, of |-> 0]
    /\ trouble = FALSE

-----------------------------------------------------------------------------
(* The main thread. *)

Fail == /\ prog' = [prog EXCEPT !.pc = "close", !.status = "failed"]
        /\ trouble' = TRUE

Hal == <<taken, writer, content>>

\* The device is opened and its stream configured; capture_pipeline() then asks
\* for buffers and settings before it marks its fences as absent.
Begin ==
    /\ prog.pc = "begin"
    /\ \/ Fail /\ UNCHANGED slot
       \/ /\ prog' = [prog EXCEPT !.pc = "allocate"]
          /\ slot' = [s \in SlotIds |-> [slot[s] EXCEPT !.fence = NoFence]]
          /\ UNCHANGED trouble
    /\ UNCHANGED <<mode, handle, Hal, fences, image>>

Allocate ==
    /\ prog.pc = "allocate"
    /\ \/ /\ handle' = [handle EXCEPT ![prog.slot] = "held"]
          /\ prog' = IF prog.slot + 1 \in SlotIds
                     THEN [prog EXCEPT !.slot = @ + 1]
                     ELSE [prog EXCEPT !.pc = "reset"]
          /\ UNCHANGED trouble
       \/ Fail /\ UNCHANGED handle
    /\ UNCHANGED <<mode, slot, Hal, fences, image>>

\* The slot of the next request forgets the last one.  capture_one() asks for the
\* request's settings first.
Reset ==
    /\ prog.pc = "reset"
    /\ \/ /\ slot' = [slot EXCEPT ![SlotOf(prog.next)] = Fresh(prog.next)]
          /\ prog' = [prog EXCEPT !.pc = "request"]
          /\ UNCHANGED trouble
       \/ ~Piped /\ Fail /\ UNCHANGED slot
    /\ UNCHANGED <<mode, handle, Hal, fences, image>>

\* After a request: the rest of the first N, the wait for the frame itself, or that
\* for the frame after the one whose buffer was given back.
Submitted ==
    IF ~Piped THEN [prog EXCEPT !.pc = "wait"]
    ELSE IF prog.frame = 1 /\ prog.next < N
         THEN [prog EXCEPT !.pc = "reset", !.next = @ + 1]
    ELSE IF prog.frame = 1 /\ prog.next = N THEN [prog EXCEPT !.pc = "wait"]
    ELSE [prog EXCEPT !.pc = "turn"]

Request ==
    /\ prog.pc = "request"
    /\ \/ /\ taken' = taken \union {prog.next}
          /\ writer' = [writer EXCEPT ![SlotOf(prog.next)] = prog.next]
          /\ prog' = Submitted
          /\ UNCHANGED trouble
       \/ Fail /\ UNCHANGED <<taken, writer>>
    /\ UNCHANGED <<mode, slot, handle, content, fences, image>>

Answered(s) == slot[s].received \/ slot[s].error

\* Without a good result capture_one() flushes the device, if the HAL can, and
\* capture_pipeline() only returns.
NoResult ==
    \E pc \in {"close"} \union (IF Piped THEN {} ELSE {"flush"}) :
        prog' = [prog EXCEPT !.pc = pc, !.status = "failed"]

\* Mutant: a wait without an end.
WaitForever ==
    /\ prog.pc = "wait"
    /\ LET s == SlotOf(prog.frame)
           good == /\ slot[s].received /\ ~slot[s].error /\ ~slot[s].bad
                   /\ slot[s].frame = prog.frame
       IN  /\ Answered(s)
           /\ IF good THEN prog' = [prog EXCEPT !.pc = "fence"] ELSE NoResult
           /\ UNCHANGED trouble
    /\ UNCHANGED <<mode, slot, handle, Hal, fences, image>>

\* Five seconds at most; what the slot says is read under the mutex.
Wait ==
    /\ prog.pc = "wait"
    /\ LET s == SlotOf(prog.frame)
           good == /\ slot[s].received /\ ~slot[s].error /\ ~slot[s].bad
                   /\ slot[s].frame = prog.frame
       IN  \/ /\ Answered(s)
              /\ IF good THEN prog' = [prog EXCEPT !.pc = "fence"] ELSE NoResult
              /\ UNCHANGED trouble
           \/ ~Answered(s) /\ NoResult /\ trouble' = TRUE
    /\ UNCHANGED <<mode, slot, handle, Hal, fences, image>>

\* The vendor's flush(), which may never return; the HAL may still answer meanwhile.
Flush ==
    /\ prog.pc = "flush"
    /\ prog' = [prog EXCEPT !.pc = "close"]
    /\ UNCHANGED <<mode, slot, handle, Hal, fences, image, trouble>>

\* Mutant: the fence is closed and still remembered.
FenceKept ==
    /\ prog.pc = "fence"
    /\ LET s == SlotOf(prog.frame) IN
       \/ /\ slot[s].fence # NoFence => writer[s] # prog.frame
          /\ fences' = Close(fences, slot[s].fence)
          /\ UNCHANGED slot
          /\ prog' = [prog EXCEPT !.pc = "image"]
          /\ UNCHANGED trouble
       \/ slot[s].fence # NoFence /\ Fail /\ UNCHANGED <<slot, fences>>
    /\ UNCHANGED <<mode, handle, Hal, image>>

\* Mutant: the fence is closed without a wait.
FenceUnwaited ==
    /\ prog.pc = "fence"
    /\ LET s == SlotOf(prog.frame) IN
       \/ /\ fences' = Close(fences, slot[s].fence)
          /\ slot' = [slot EXCEPT ![s].fence = NoFence]
          /\ prog' = [prog EXCEPT !.pc = "image"]
          /\ UNCHANGED trouble
       \/ slot[s].fence # NoFence /\ Fail /\ UNCHANGED <<slot, fences>>
    /\ UNCHANGED <<mode, handle, Hal, image>>

\* The release fence: signalled within a second, or the run fails.
Fence ==
    /\ prog.pc = "fence"
    /\ LET s == SlotOf(prog.frame) IN
       \/ /\ slot[s].fence # NoFence => writer[s] # prog.frame
          /\ fences' = Close(fences, slot[s].fence)
          /\ slot' = [slot EXCEPT ![s].fence = NoFence]
          /\ prog' = [prog EXCEPT !.pc = "image"]
          /\ UNCHANGED trouble
       \/ slot[s].fence # NoFence /\ Fail /\ UNCHANGED <<slot, fences>>
    /\ UNCHANGED <<mode, handle, Hal, image>>

Shown(s) == IF writer[s] = 0 THEN content[s] ELSE Torn

\* The buffer is locked for the processor, saved, unlocked.  A preview is renamed
\* over the last one; test.jpg is written in place.  capture_one() locks the
\* buffer of a frame it does not save, too.
Image ==
    /\ prog.pc = "image"
    /\ LET s == SlotOf(prog.frame) IN
       \/ /\ image' = IF Saves(prog.frame)
                      THEN [frame |-> prog.frame, of |-> Shown(s)] ELSE image
          /\ \/ prog' = [prog EXCEPT !.pc = "advance"] /\ UNCHANGED trouble
             \/ (Saves(prog.frame) \/ ~Piped) /\ Fail
       \/ /\ Saves(prog.frame) \/ ~Piped
          /\ image' \in {image} \union
                 (IF mode = "still" /\ Saves(prog.frame)
                  THEN {[frame |-> prog.frame, of |-> Torn]} ELSE {})
          /\ Fail
    /\ UNCHANGED <<mode, slot, handle, Hal, fences>>

\* Mutant: one request too few is waited for.
DrainEarly(late) ==
    LET drain == UInt(prog.frame + N - 2)
    IN  IF late /\ prog.last = Count /\ drain < prog.last THEN drain
        ELSE prog.last

\* After 25 seconds nothing more is queued, and what is queued is waited for.
Drain(late) ==
    LET drain == UInt(prog.frame + N - 1)
    IN  IF late /\ prog.last = Count /\ drain < prog.last THEN drain
        ELSE prog.last

Advance ==
    /\ prog.pc = "advance"
    /\ \E late \in IF mode = "pipeline" THEN BOOLEAN ELSE {FALSE} :
         LET last == Drain(late)
             next == IF Piped THEN UInt(prog.frame + N) ELSE UInt(prog.frame + 1)
         IN  prog' = IF ~Piped \/ next > last
                     THEN [prog EXCEPT !.pc = "turn", !.last = last]
                     ELSE [prog EXCEPT !.pc = "reset", !.last = last, !.next = next]
    /\ UNCHANGED <<mode, slot, handle, Hal, fences, image, trouble>>

\* The loop's increment and test.
Turn ==
    /\ prog.pc = "turn"
    /\ LET frame == UInt(prog.frame + 1)
       IN  prog' = IF frame > prog.last THEN [prog EXCEPT !.pc = "close"]
                   ELSE [prog EXCEPT !.frame = frame,
                                     !.next = IF Piped THEN @ ELSE frame,
                                     !.pc = IF Piped THEN "wait" ELSE "reset"]
    /\ UNCHANGED <<mode, slot, handle, Hal, fences, image, trouble>>

\* device->close() returns when the HAL's threads and the hardware have stopped.  If
\* it fails the program ends there.
CloseDevice ==
    /\ prog.pc = "close"
    /\ \/ /\ prog' = [prog EXCEPT !.pc = "release"]
          /\ taken' = {} /\ writer' = [s \in SlotIds |-> 0]
          /\ UNCHANGED trouble
       \/ /\ prog' = [prog EXCEPT !.pc = "aborted", !.status = "failed"]
          /\ trouble' = TRUE
          /\ UNCHANGED <<taken, writer>>
    /\ UNCHANGED <<mode, slot, handle, content, fences, image>>

\* Slot by slot, what is left of fences and buffers is given back.
CloseAll ==
    [f \in Frames |->
        LET holders == {s \in SlotIds : slot[s].fence = f}
        IN  IF holders = {} THEN fences[f]
            ELSE IF fences[f] = "open" /\ \E s \in holders : holders = {s}
            THEN "closed" ELSE "twice"]

Release ==
    /\ prog.pc = "release"
    /\ fences' = CloseAll
    /\ handle' = [s \in SlotIds |->
                    IF handle[s] = "held" THEN "released" ELSE handle[s]]
    /\ \/ prog' = [prog EXCEPT !.pc = "exited"] /\ UNCHANGED trouble
       \/ /\ \E s \in SlotIds : handle[s] = "held"
          /\ prog' = [prog EXCEPT !.pc = "exited", !.status = "failed"]
          /\ trouble' = TRUE
    /\ UNCHANGED <<mode, slot, Hal, image>>

-----------------------------------------------------------------------------
(* The HAL's threads, between the opening and the closing of the device. *)

Open == prog.pc \notin {"begin", "release", "exited", "aborted"}

\* Mutant: the frame number is not compared.
DeliverAny(f, outcome, fence) ==
    [s \in SlotIds |->
        IF slot[s].received THEN slot[s]
        ELSE [slot[s] EXCEPT !.received = TRUE, !.bad = outcome = "bad",
                             !.error = @ \/ outcome = "wrong", !.fence = fence]]

\* prepare_result_callback(): each slot of this frame that has no answer yet.
Deliver(f, outcome, fence) ==
    [s \in SlotIds |->
        IF slot[s].frame # f \/ slot[s].received THEN slot[s]
        ELSE [slot[s] EXCEPT !.received = TRUE, !.bad = outcome = "bad",
                             !.error = @ \/ outcome = "wrong", !.fence = fence]]

\* The buffer comes back: written, or to be written until its fence is signalled;
\* with an error; or it is not the buffer of the request (not looked at by
\* capture_one(), which has one).
Result(f) ==
    /\ Open /\ f \in taken
    /\ \E outcome \in {"good", "bad"} \union (IF Piped THEN {"wrong"} ELSE {}),
          fenced \in BOOLEAN :
         /\ slot' = Deliver(f, outcome, IF fenced THEN f ELSE NoFence)
         /\ fences' = IF fenced THEN [fences EXCEPT ![f] = "open"] ELSE fences
         /\ IF fenced THEN UNCHANGED <<writer, content>>
            ELSE /\ writer' = [writer EXCEPT ![SlotOf(f)] = 0]
                 /\ content' = [content EXCEPT ![SlotOf(f)] = f]
         /\ trouble' = (trouble \/ outcome # "good")
    /\ taken' = taken \ {f}
    /\ UNCHANGED <<mode, prog, handle, image>>

\* The hardware is done with a buffer that was given back early.
Signal(s) ==
    /\ Open /\ writer[s] # 0 /\ writer[s] \notin taken
    /\ content' = [content EXCEPT ![s] = writer[s]]
    /\ writer' = [writer EXCEPT ![s] = 0]
    /\ UNCHANGED <<mode, prog, slot, handle, taken, fences, image, trouble>>

\* prepare_notify_callback(): an error of one request, or of the device (code 1).
Notify(f, device) ==
    /\ Open /\ (device \/ f \in taken)
    /\ slot' = [s \in SlotIds |->
                  IF device \/ slot[s].frame = f
                  THEN [slot[s] EXCEPT !.error = TRUE] ELSE slot[s]]
    /\ trouble' = TRUE
    /\ UNCHANGED <<mode, prog, handle, Hal, fences, image>>

-----------------------------------------------------------------------------
\* What the main thread does by itself, and its calls into the vendor's library.
Own == Wait \/ Fence \/ Advance \/ Turn \/ (Piped /\ Reset)

Calls ==
    \/ Begin \/ Allocate \/ (~Piped /\ Reset) \/ Request \/ Flush \/ Image
    \/ CloseDevice \/ Release

Next ==
    \/ Own \/ Calls
    \/ \E f \in Frames : Result(f)
    \/ \E s \in SlotIds : Signal(s)
    \/ \E f \in Frames : Notify(f, FALSE)
    \/ Notify(0, TRUE)

\* Every wait of the main thread has an end.  No call into the vendor's library need
\* return, and a camera need not answer.
Spec == Init /\ [][Next]_halVars /\ WF_halVars(Own)

-----------------------------------------------------------------------------
\* The picture that was saved as a frame's is that frame, whole, although buffers go
\* round and answers come in any order; only a test.jpg that could not be written is
\* not, and then the program says that it failed (lines 448-519 and 564-570).
ImageTrue ==
    image.of = image.frame \/ (mode = "still" /\ prog.status = "failed")

\* "Reuse one genuine buffer only after previous result/fence/unlock completed" (line
\* 741): a buffer is given to another frame, or back to the allocator, only when the
\* camera no longer writes the one before.
BufferFree ==
    \A s \in SlotIds :
        writer[s] # 0 => writer'[s] \in {writer[s], 0} /\ handle'[s] # "released"

\* Fences are descriptors the HAL gives away: whatever ends a run that gets to its
\* clean-up has closed each of them once (lines 446, 562, 761, 768), and has given
\* every buffer back.
FencesClosedOnce ==
    prog.pc = "exited" =>
        /\ \A f \in Frames \ {Stdin} : fences[f] \in {"none", "closed"}
        /\ \A s \in SlotIds : handle[s] # "held"

\* A run that says it succeeded leaves the HAL nothing to answer when it closes the
\* device, and one that met no trouble succeeds: the end after 25 seconds drains what
\* is queued, no more and no less (lines 573-578), and the frame numbers of the mode
\* without an end do not wrap (line 743).
StatusTrue ==
    /\ prog.pc = "close" /\ prog.status = "ok"
         => taken = {} /\ \A s \in SlotIds : writer[s] = 0
    /\ prog.pc \in {"close", "release", "exited"} /\ ~trouble
         => prog.status = "ok"

\* "vendor configure/flush/close calls can block despite this client's bounded result
\* and release-fence waits" (lines 5-6): the client is over, or in a call into the
\* vendor's library, which alone can hold it; a camera that does not answer or signal
\* cannot do so by its silence.
InVendorCall ==
    \/ prog.pc \in {"begin", "allocate", "request", "flush", "image", "close", "release"}
    \/ ~Piped /\ prog.pc = "reset"
OverOrInCall == prog.pc \in {"exited", "aborted"} \/ InVendorCall

-----------------------------------------------------------------------------
(* The inductive invariant.  The requests the main thread has made and not yet   *)
(* turned to are in flight: each has a slot of its own, and every other slot is   *)
(* free, its buffer not written and its fence closed.                            *)

Depth == IF Piped THEN N ELSE 1

Awaiting == prog.pc \in {"wait", "fence", "image", "advance"}
Requesting == prog.pc \in {"reset", "request"}
Working == Awaiting \/ Requesting \/ prog.pc = "turn"

InFlight(f) ==
    /\ f \in 1..(Modulus - 1)
    /\ \/ Awaiting /\ prog.frame <= f /\ f < prog.frame + Depth /\ f <= prog.last
       \/ Requesting /\ prog.next - Depth < f /\ f < prog.next
       \/ /\ prog.pc = "turn" /\ Piped
          /\ prog.frame < f /\ f <= prog.frame + N /\ f <= prog.last

SlotTypes ==
    [frame : Frames, received : BOOLEAN, error : BOOLEAN, bad : BOOLEAN,
     fence : Frames \union {NoFence}]

ProgTypes ==
    [pc : {"begin", "allocate", "reset", "request", "wait", "flush", "fence", "image",
           "advance", "turn", "close", "release", "exited", "aborted"},
     slot : SlotIds, frame : 1..Count, last : 1..Count, next : 1..Count,
     status : {"ok", "failed"}]

HalTyped ==
    /\ mode \in {"still", "sequence", "pipeline", "foreground"}
    /\ prog \in ProgTypes /\ prog.frame <= prog.last
    /\ slot \in [SlotIds -> SlotTypes]
    /\ handle \in [SlotIds -> {"none", "held", "released"}]
    /\ taken \subseteq Frames
    /\ writer \in [SlotIds -> Frames] /\ content \in [SlotIds -> Frames]
    /\ fences \in [Frames -> {"none", "open", "closed", "twice"}]
    /\ image \in [frame : Int, of : Int]
    /\ trouble \in BOOLEAN

\* What the next request is, and that nothing was asked before the first.
NextRequest ==
    /\ Requesting =>
         /\ prog.next <= prog.last
         /\ \/ ~Piped /\ prog.next = prog.frame
            \/ Piped /\ prog.next = prog.frame + N
            \/ Piped /\ prog.frame = 1 /\ prog.next <= N /\ N <= prog.last
    /\ prog.pc \in {"begin", "allocate"} =>
         /\ prog.frame = 1 /\ prog.next = 1 /\ prog.last = Count
         /\ \A s \in SlotIds : slot[s].frame = 0
    /\ prog.pc = "allocate" => \A s \in SlotIds : slot[s].fence = NoFence

OwnSlots ==
    \A s \in SlotIds : slot[s].frame = 0 \/ SlotOf(slot[s].frame) = s

\* A slot, its buffer and the HAL agree on the frame.
SlotAgrees ==
    /\ OwnSlots
    /\ \A s \in SlotIds :
         /\ writer[s] \in {0, slot[s].frame}
         /\ slot[s].received =>
              /\ writer[s] = 0 => content[s] = slot[s].frame
              /\ slot[s].fence = NoFence => writer[s] = 0
    /\ \A f \in taken :
         /\ f # 0 /\ slot[SlotOf(f)].frame = f /\ ~slot[SlotOf(f)].received
         /\ writer[SlotOf(f)] = f

\* A fence is open while its slot remembers it.
FenceRemembered ==
    /\ \A s \in SlotIds : slot[s].fence \notin {NoFence, Stdin} =>
         /\ slot[s].fence = slot[s].frame /\ slot[s].received
         /\ fences[slot[s].fence] = "open"
    /\ \A f \in Frames \ {Stdin} :
         /\ fences[f] # "twice"
         /\ fences[f] = "open" => slot[SlotOf(f)].fence = f

FlightHasSlots ==
    Working =>
        /\ \A f \in Frames : InFlight(f) => slot[SlotOf(f)].frame = f
        /\ \A s \in SlotIds :
             ~InFlight(slot[s].frame) => writer[s] = 0 /\ slot[s].fence = NoFence

\* The slot of the frame that is asked for, or looked at.
SlotInHand ==
    /\ prog.pc = "request" =>
         slot[SlotOf(prog.next)].frame = prog.next /\ ~slot[SlotOf(prog.next)].received
    /\ prog.pc \in {"fence", "image", "advance"} => slot[SlotOf(prog.frame)].received
    /\ prog.pc \in {"image", "advance"} => slot[SlotOf(prog.frame)].fence = NoFence

NoTrouble ==
    ~trouble =>
        prog.status = "ok" /\ \A s \in SlotIds : ~slot[s].error /\ ~slot[s].bad

Ending ==
    /\ prog.pc \in {"release", "exited"} => \A s \in SlotIds : writer[s] = 0
    /\ prog.pc = "release" => OwnSlots
    /\ prog.pc = "close" /\ prog.status = "ok" =>
         taken = {} /\ \A s \in SlotIds : writer[s] = 0
    /\ prog.pc = "flush" => prog.status = "failed"
    /\ \A s \in SlotIds : handle[s] = "released" => prog.pc = "exited"

HalInv ==
    /\ HalTyped /\ NextRequest /\ FlightHasSlots /\ SlotInHand /\ NoTrouble /\ Ending
    /\ (prog.pc \notin {"release", "exited", "aborted"} => SlotAgrees)
    /\ (prog.pc \notin {"exited", "aborted"} => FenceRemembered)
    /\ ImageTrue /\ FencesClosedOnce
=============================================================================
