----------------------------- MODULE EappRuntime ------------------------------
(***************************************************************************)
(* The high-level runtime for iPod games (sys/eapp/mod.rs): a guest that   *)
(* runs its entry point, then frame after frame, and the callbacks of its  *)
(* file requests between two frames; the bump allocator; and the buttons,  *)
(* which the UI thread holds down and the guest polls as press and release *)
(* events.                                                                 *)
(*                                                                         *)
(* The guest is any program: it may call any import at any moment.  Its    *)
(* memory is left out but for the blocks and events the runtime puts there.*)
(* What OpenGLES and the DMA frames do to the window is in LiveGl; here    *)
(* either shows some frame.                                                *)
(***************************************************************************)
EXTENDS Integers, Sequences, FiniteSets

CONSTANTS
  Reqs, Null,   \* the guest's request objects, and the null pointer
  Completing,   \* CLICKY_EAPP_ASYNC3_COMPLETE is set (and the game is Tetris)
  FileObjs,     \* the guest's file objects
  Paths,        \* the host files they may open
  Sizes,        \* lengths the guest allocates, in granules of 16 bytes
  Boot,         \* the lengths of the application object and the frame context
  Word,         \* granules in the address space: 2^28
  HeapStart, HeapEnd, \* the heap, in granules
  Buttons,      \* the buttons of the host, and the event id of each
  IdOf,
  Wrap,         \* where the wrapping counters wrap: 2^64
  MaxCalls,     \* bound: pending guest calls
  MaxOpens      \* bound: files opened (the handles wrap at 2^32)

AllIds == {IdOf[b] : b \in Buttons}

ASSUME EappAssumption ==
  /\ Null \notin Reqs
  /\ Completing \in BOOLEAN
  /\ Word \in Nat /\ HeapStart \in Nat /\ HeapEnd \in Nat
  /\ 0 < HeapStart /\ HeapStart <= HeapEnd /\ HeapEnd < Word
  /\ Sizes \subseteq 1 .. Word
  /\ Boot \in (1 .. Word - 1) \X (1 .. Word - 1)
  /\ Wrap \in Nat /\ MaxCalls \in Nat /\ MaxCalls < Wrap
  /\ MaxOpens \in Nat
  /\ IsFiniteSet(AllIds)

VARIABLES
  phase,      \* bootstrap_phase; Done is never reached
  at,         \* what the guest is in: its entry, a frame, a callback, a fault
  frames,     \* frame_counter
  calls,      \* pending_guest_calls: the request each call is for
  pending,    \* async_pending_requests
  queued,     \* async_callback_queued_count
  invoked,    \* guest_callback_invocation_count
  running,    \* the request of the callback that runs, from its r0
  feeding,    \* history: that callback has queued a call itself
  handle,     \* next_async_file_handle
  files,      \* async_open_files, the path of each handle
  fobj,       \* history: the handle and path of each open file object
  nextAlloc,  \* next_alloc
  blocks,     \* history: the blocks handed out
  held,       \* EappInputState: the buttons that are down
  prevMask,   \* input_event_prev_mask
  belief,     \* history: the ids that are down by the events the guest got
  missed,     \* history: the ids whose latest edge was in a list that got lost
  window      \* render_state: what the host window shows

callVars  == <<calls, pending, queued, invoked>>
guestVars == <<phase, at, frames, running, feeding>>
fileVars  == <<handle, files, fobj>>
heapVars  == <<nextAlloc, blocks>>
inputVars == <<prevMask, belief, missed>>
vars == <<callVars, guestVars, fileVars, heapVars, inputVars, held, window>>

Running == at # "fault"
NoReq == "no request"

(* Eapp::from_image: the guest starts at its entry address, everything else*)
(* is empty and the first page of work RAM is not on the heap.             *)
Init == /\ phase = "Entry" /\ at = "entry" /\ frames = 0
        /\ calls = <<>> /\ pending = {} /\ queued = 0 /\ invoked = 0
        /\ running = NoReq /\ feeding = FALSE
        /\ handle = 1 /\ files = <<>> /\ fobj = [f \in FileObjs |-> <<>>]
        /\ nextAlloc = HeapStart /\ blocks = {}
        /\ held = {} /\ prevMask = {} /\ belief = {} /\ missed = {}
        /\ window = "default"

-------------------------------------------------------------------------------
(* The allocator: a pure function of next_alloc.  The length is rounded up *)
(* to granules; one in the last 15 bytes of the address space wraps to 0.  *)
Rounded(size) == IF size = Word THEN 0 ELSE size
Fits(next, size) == next + Rounded(size) <= HeapEnd

(* Mutant: next_alloc moves although the block did not fit.                *)
NextUnchecked(next, size) == next + Rounded(size)

(* Mutant: the end of the last block is not kept when it just fits.        *)
NextForgetting(next, size) ==
  IF next + Rounded(size) < HeapEnd THEN next + Rounded(size) ELSE next

NextAfter(next, size) == IF Fits(next, size) THEN next + Rounded(size) ELSE next
Block(next, size) == IF Fits(next, size) THEN {[addr |-> next, size |-> Rounded(size)]} ELSE {}

(* miscTBD:0, InputEvents:1 and every other alloc_zeroed on the guest's    *)
(* behalf.  len + 0xf panics in a debug build and wraps in a release build.*)
Allocate ==
  /\ Running
  /\ \E size \in Sizes :
       \/ /\ nextAlloc' = NextAfter(nextAlloc, size)
          /\ blocks' = blocks \cup Block(nextAlloc, size)
          /\ UNCHANGED at
       \/ size = Word /\ at' = "fault" /\ UNCHANGED heapVars
  /\ UNCHANGED <<callVars, phase, frames, running, feeding, fileVars, inputVars, held, window>>

-------------------------------------------------------------------------------
Bump(n) == IF n + 1 = Wrap THEN 0 ELSE n + 1

(* Mutant: the latest call is the first to run.                            *)
EnqueueFirst(r) == /\ calls' = <<r>> \o calls
                   /\ queued' = Bump(queued)
                   /\ feeding' = (feeding \/ at = "callback")

(* pending_guest_calls.push_back, with its counter.                        *)
Enqueue(r) == /\ calls' = Append(calls, r)
              /\ queued' = Bump(queued)
              /\ feeding' = (feeding \/ at = "callback")

(* Mutant: a request without a callback stays pending.                     *)
RequestKeeps(r, found, callback) ==
  /\ pending' = IF found THEN pending \cup ({r} \ {Null}) ELSE pending \ {r}
  /\ IF found /\ callback
     THEN Enqueue(r)
     ELSE UNCHANGED <<calls, queued, feeding>>

(* AsyncFileIO:3, a read into the buffer of a request object.  The data are*)
(* in place before it returns, and its callback is queued even if the file *)
(* could not be read or delivered.  A request without a callback, like one *)
(* for a path that cannot be resolved or created, is not pending after it. *)
Request(r, found, callback) ==
  /\ pending' = IF found /\ callback THEN pending \cup ({r} \ {Null}) ELSE pending \ {r}
  /\ IF found /\ callback
     THEN Enqueue(r)
     ELSE UNCHANGED <<calls, queued, feeding>>

ReadRequest ==
  /\ Running /\ Len(calls) < MaxCalls
  /\ \E r \in Reqs \cup {Null}, found, callback \in BOOLEAN :
       /\ r = Null => ~callback
       /\ Request(r, found, callback)
  /\ window' = "info"
  /\ UNCHANGED <<invoked, phase, at, frames, running, fileVars, heapVars, inputVars, held>>

(* A request that completes at once and never counts as pending; without a *)
(* path on the host, a callback or an owner nothing is queued.             *)
AtOnce == (\E r \in Reqs : Enqueue(r)) \/ UNCHANGED <<calls, queued, feeding>>

(* AsyncFileIO:7 enumerates a directory, AsyncFileIO:0 opens a stream.     *)
ListDirectory ==
  /\ Running /\ Len(calls) < MaxCalls
  /\ AtOnce
  /\ window' = "info"
  /\ UNCHANGED <<pending, invoked, phase, at, frames, running, fileVars, heapVars, inputVars, held>>

OpenStream ==
  /\ Running /\ Len(calls) < MaxCalls
  /\ IF Completing THEN AtOnce ELSE UNCHANGED <<calls, queued, feeding>>
  /\ window' = "info"
  /\ UNCHANGED <<pending, invoked, phase, at, frames, running, fileVars, heapVars, inputVars, held>>

(* AsyncFileIO:1 and :2 complete a request without a path: no fill.        *)
CompleteOwner ==
  /\ Running /\ Completing /\ Len(calls) < MaxCalls
  /\ \E r \in Reqs : Enqueue(r)
  /\ UNCHANGED <<pending, invoked, phase, at, frames, running, fileVars, heapVars,
                 inputVars, held, window>>

-------------------------------------------------------------------------------
(* Mutant: the handle is not used up.                                      *)
OpenSame(p) == /\ handle' = handle
               /\ files' = [h \in DOMAIN files \cup {handle} |->
                              IF h = handle THEN p ELSE files[h]]

(* AsyncFileIO:12 and Filesytem:0: the next handle stands for the path.    *)
(* Handles are never closed; only :12 gives its handle to the guest.       *)
Open(p) == /\ handle' = handle + 1
           /\ files' = [h \in DOMAIN files \cup {handle} |->
                          IF h = handle THEN p ELSE files[h]]

OpenFile ==
  /\ Running /\ handle <= MaxOpens
  /\ \E p \in Paths, f \in FileObjs :
       /\ Open(p)
       /\ fobj' = [fobj EXCEPT ![f] = <<handle, p>>]
  /\ window' = "info"
  /\ UNCHANGED <<callVars, guestVars, heapVars, inputVars, held>>

FilesystemOpen ==
  /\ Running /\ handle <= MaxOpens
  /\ \E p \in Paths : Open(p)
  /\ UNCHANGED <<callVars, guestVars, fobj, heapVars, inputVars, held, window>>

(* AsyncFileIO:16 tells whether a handle is open, and AsyncFileIO:14 reads *)
(* its file from the host.                                                 *)
Known(h) == h \in DOMAIN files
ReadFrom(h) == IF Known(h) THEN files[h] ELSE <<>>

-------------------------------------------------------------------------------
(* Mutant: the call stays at the front of the queue.                       *)
ResumePeek ==
  IF calls = <<>>
  THEN /\ at' = "frame" /\ running' = NoReq /\ feeding' = FALSE
       /\ UNCHANGED callVars
  ELSE /\ at' = "callback" /\ running' = Head(calls) /\ feeding' = FALSE
       /\ invoked' = Bump(invoked)
       /\ pending' = pending \ {Head(calls)}
       /\ UNCHANGED <<calls, queued>>

(* dispatch_pending_guest_call, or else queue_next_frame.                  *)
Resume ==
  IF calls = <<>>
  THEN /\ at' = "frame" /\ running' = NoReq /\ feeding' = FALSE
       /\ UNCHANGED callVars
  ELSE /\ at' = "callback" /\ running' = Head(calls) /\ feeding' = FALSE
       /\ calls' = Tail(calls)
       /\ invoked' = Bump(invoked)
       /\ pending' = pending \ {Head(calls)}
       /\ UNCHANGED queued

(* handle_bootstrap_return, Entry: the two objects, then the first frame,  *)
(* whatever calls the entry point has queued.                              *)
EntryReturn ==
  /\ at = "entry" /\ phase = "Entry"
  /\ phase' = "Running" /\ at' = "frame"
  /\ LET next == NextAfter(nextAlloc, Boot[1])
     IN  /\ nextAlloc' = NextAfter(next, Boot[2])
         /\ blocks' = blocks \cup Block(nextAlloc, Boot[1]) \cup Block(next, Boot[2])
  /\ window' = "info"
  /\ UNCHANGED <<callVars, frames, running, feeding, fileVars, inputVars, held>>

(* handle_bootstrap_return, Running: a frame returns; so does, for the     *)
(* runtime, a callback that jumps to address 0.                            *)
FrameReturn ==
  /\ at \in {"frame", "callback"} /\ phase = "Running"
  /\ frames' = Bump(frames)
  /\ Resume
  /\ UNCHANGED <<phase, fileVars, heapVars, inputVars, held, window>>

(* handle_guest_callback_return.                                           *)
CallbackReturn ==
  /\ at = "callback"
  /\ Resume
  /\ UNCHANGED <<phase, frames, fileVars, heapVars, inputVars, held, window>>

-------------------------------------------------------------------------------
(* The UI thread presses and releases a button.                            *)
Key == /\ \E b \in Buttons : held' = IF b \in held THEN held \ {b} ELSE held \cup {b}
       /\ UNCHANGED <<callVars, guestVars, fileVars, heapVars, inputVars, window>>

Mask == {IdOf[b] : b \in held}
Pressed == Mask \ prevMask

(* Mutant: only a press makes an event.                                    *)
ReleasedNever == {}

Released == prevMask \ Mask
Free == HeapEnd - nextAlloc
Nodes(n) == {[addr |-> nextAlloc + i, size |-> 1] : i \in 0 .. n - 1}

(* Mutant: what is held again at the next poll is not pressed again.       *)
SeenOnce == belief \cup Pressed

(* The guest's picture after the events of this list.                      *)
Seen == (belief \cup Pressed) \ Released

(* InputEvents:0: a list with one node for each edge since the last poll,  *)
(* built from its tail.  When a node cannot be allocated, the next one     *)
(* fails as well and the head becomes 0: the list is lost as a whole.  The *)
(* head is stored in the object that r4 points to, if that is in work RAM: *)
(* a guest that keeps something else there gets no list at all.  Either way*)
(* prev_mask has moved on and the nodes made are spent.                    *)
Poll ==
  /\ Running
  /\ LET changed == Pressed \cup Released
         edges == Cardinality(changed)
         made  == IF edges <= Free THEN edges ELSE Free
     IN  /\ prevMask' = Mask
         /\ nextAlloc' = nextAlloc + made
         /\ blocks' = blocks \cup Nodes(made)
         /\ \E object \in BOOLEAN :
              IF object /\ edges <= Free
              THEN belief' = Seen /\ missed' = missed \ changed
              ELSE missed' = missed \cup changed /\ UNCHANGED belief
  /\ UNCHANGED <<callVars, guestVars, fileVars, held, window>>

(* OpenGLES and the DMA frames draw on the window, unhandled modules fill  *)
(* it, and without live GL the OpenGLES imports do as well.                *)
Draw == /\ Running
        /\ window' \in {"frame", "opengl", "warn"}
        /\ UNCHANGED <<callVars, guestVars, fileVars, heapVars, inputVars, held>>

(* A fatal MemException ends run().                                        *)
Fault == /\ Running
         /\ at' = "fault"
         /\ UNCHANGED <<callVars, phase, frames, running, feeding, fileVars, heapVars,
                        inputVars, held, window>>

Return == EntryReturn \/ FrameReturn \/ CallbackReturn

Next == \/ Allocate \/ ReadRequest \/ ListDirectory \/ OpenStream \/ CompleteOwner
        \/ OpenFile \/ FilesystemOpen
        \/ Return \/ Key \/ Poll \/ Draw \/ Fault

Spec == Init /\ [][Next]_vars

(* A game that returns from what it is called for, and that polls.         *)
FairSpec == Spec /\ WF_vars(Return) /\ WF_vars(Poll)

-------------------------------------------------------------------------------
TypeOK == /\ phase \in {"Entry", "Running"}
          /\ at \in {"entry", "frame", "callback", "fault"}
          /\ {frames, queued, invoked} \subseteq 0 .. Wrap - 1
          /\ calls \in Seq(Reqs) /\ Len(calls) <= MaxCalls
          /\ pending \subseteq Reqs
          /\ running \in Reqs \cup {NoReq}
          /\ feeding \in BOOLEAN
          /\ nextAlloc \in HeapStart .. HeapEnd
          /\ blocks \subseteq [addr : HeapStart .. HeapEnd, size : 0 .. HeapEnd]
          /\ held \subseteq Buttons
          /\ {prevMask, belief, missed} \subseteq SUBSET AllIds
          /\ window \in {"default", "info", "frame", "opengl", "warn"}

(* No completion is lost or doubled: the calls counted as queued are those *)
(* counted as dispatched and those still in the queue, in any wrapping.    *)
CompletionsAccounted ==
  \/ queued = invoked + Len(calls)
  \/ queued + Wrap = invoked + Len(calls)

(* No request stays pending for good: what async_pending_requests holds has*)
(* a completion in the queue.                                              *)
PendingIsQueued == \A r \in pending : \E i \in 1 .. Len(calls) : calls[i] = r

(* A file object reads the file it was opened for, whatever other imports  *)
(* open, while the handles do not wrap.                                    *)
OwnFile ==
  \A f \in FileObjs : fobj[f] # <<>> =>
     Known(fobj[f][1]) /\ ReadFrom(fobj[f][1]) = fobj[f][2]

(* The blocks of the heap do not overlap, and none is past its end.        *)
BlocksApart ==
  /\ \A b \in blocks : b.addr + b.size <= HeapEnd
  /\ \A a, b \in blocks : a # b => a.addr + a.size <= b.addr \/ b.addr + b.size <= a.addr

(* The next edges are relative to the truth: of every button whose latest  *)
(* edge was not lost, the guest believes what prev_mask remembers, also if *)
(* earlier lists were lost and however polls and keys alternate.           *)
BeliefIsPrev == \A i \in AllIds \ missed : i \in belief <=> i \in prevMask

(* Every completion runs, whatever else the guest requests meanwhile.      *)
CompletionRuns ==
  \A r \in Reqs : (\E i \in 1 .. Len(calls) : calls[i] = r) ~> (running = r \/ at = "fault")

(* Frames go on once callbacks stop requesting more files.                 *)
FramesResume == <>[](~feeding) => []<>(at \in {"frame", "fault"})

(* A button that stays as it is comes to be known to a guest that polls,   *)
(* unless the very edge that made it so was lost, for want of memory or of *)
(* an object; then the guest never learns of it.                           *)
InputArrives ==
  \A i \in AllIds, down \in BOOLEAN :
     <>[]((i \in Mask) = down)
       => <>[]((i \in belief) = down) \/ <>[](i \in missed) \/ <>(at = "fault")
===============================================================================
