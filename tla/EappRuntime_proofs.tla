-------------------------- MODULE EappRuntime_proofs --------------------------
(***************************************************************************)
(* What holds of EappRuntime for any guest: any requests, files, lengths   *)
(* and buttons.  Each invariant concerns one group of the variables, and   *)
(* most actions leave a group alone.                                       *)
(***************************************************************************)
EXTENDS EappRuntime, SequenceTheorems, FiniteSetTheorems, TLAPS

-------------------------------------------------------------------------------
(* The queue of guest calls.                                               *)
CallType == /\ queued \in 0 .. Wrap - 1 /\ invoked \in 0 .. Wrap - 1
            /\ calls \in Seq(Reqs) /\ Len(calls) <= MaxCalls
            /\ pending \subseteq Reqs

CallInv == CallType /\ CompletionsAccounted /\ PendingIsQueued

LEMMA Bounds == Wrap \in Nat /\ MaxCalls \in Nat /\ MaxCalls < Wrap
  BY EappAssumption

LEMMA HeapBounds ==
  /\ Word \in Nat /\ HeapStart \in Nat /\ HeapEnd \in Nat
  /\ HeapStart <= HeapEnd /\ HeapEnd < Word
  BY EappAssumption

(* One more call queued, one more dispatched: n is the length of the queue.*)
Accounted(q, i, n) == q = i + n \/ q + Wrap = i + n

LEMMA OneMoreQueued ==
  ASSUME NEW q \in 0 .. Wrap - 1, NEW i \in 0 .. Wrap - 1, NEW n \in Nat, n < MaxCalls,
         Accounted(q, i, n)
  PROVE  Accounted(Bump(q), i, n + 1)
  BY Bounds DEF Accounted, Bump

LEMMA OneMoreInvoked ==
  ASSUME NEW q \in 0 .. Wrap - 1, NEW i \in 0 .. Wrap - 1, NEW n \in Nat \ {0},
         n <= MaxCalls, Accounted(q, i, n)
  PROVE  Accounted(q, Bump(i), n - 1)
  BY Bounds DEF Accounted, Bump

LEMMA BumpStays ==
  ASSUME NEW n \in 0 .. Wrap - 1
  PROVE  Bump(n) \in 0 .. Wrap - 1
  BY EappAssumption DEF Bump

(* A call that is queued takes the counters and the queue one further.     *)
LEMMA EnqueueCounts ==
  ASSUME CallInv, NEW r \in Reqs, Len(calls) < MaxCalls, Enqueue(r), invoked' = invoked
  PROVE  /\ CallType' <=> pending' \subseteq Reqs
         /\ CompletionsAccounted'
         /\ \A x \in pending \cup {r} : \E i \in 1 .. Len(calls') : calls'[i] = x
  <1>1. calls' = Append(calls, r) /\ queued' = Bump(queued)
    BY DEF Enqueue
  <1>2. calls' \in Seq(Reqs) /\ Len(calls') = Len(calls) + 1 /\ Len(calls) \in Nat
    BY <1>1 DEF CallInv, CallType
  <1>3. queued' \in 0 .. Wrap - 1
    BY <1>1, BumpStays DEF CallInv, CallType
  <1>4. CompletionsAccounted'
    <2>1. Accounted(queued, invoked, Len(calls))
      BY DEF CallInv, CompletionsAccounted, Accounted
    <2>2. Accounted(queued', invoked', Len(calls) + 1)
      BY <1>1, <1>2, <2>1, OneMoreQueued DEF CallInv, CallType
    <2> QED
      BY <1>2, <2>2 DEF CompletionsAccounted, Accounted
  <1>5. ASSUME NEW x \in pending \cup {r}
        PROVE  \E i \in 1 .. Len(calls') : calls'[i] = x
    <2>1. CASE x = r
      <3>1. calls'[Len(calls) + 1] = r
        BY <1>1, <1>2 DEF CallInv, CallType
      <3> QED
        BY <2>1, <3>1, <1>2
    <2>2. CASE x \in pending
      <3>1. PICK i \in 1 .. Len(calls) : calls[i] = x
        BY <2>2 DEF CallInv, PendingIsQueued
      <3>2. calls'[i] = x
        BY <1>1, <3>1 DEF CallInv, CallType
      <3> QED
        BY <3>2, <1>2
    <2> QED
      BY <2>1, <2>2
  <1>6. CallType' <=> pending' \subseteq Reqs
    <2>1. Len(calls') <= MaxCalls
      BY <1>2, Bounds
    <2>2. invoked' \in 0 .. Wrap - 1
      BY DEF CallInv, CallType
    <2> QED
      BY <1>2, <1>3, <2>1, <2>2 DEF CallType
  <1> QED
    BY <1>4, <1>5, <1>6

(* A dispatch moves one call from the queue to the counter of invocations. *)
LEMMA ResumeCounts ==
  ASSUME CallInv, Resume
  PROVE  CallInv'
  <1>1. CASE calls = <<>>
    BY <1>1 DEF Resume, CallInv, CallType, CompletionsAccounted, PendingIsQueued, callVars
  <1>2. CASE calls # <<>>
    <2>1. /\ calls' = Tail(calls) /\ invoked' = Bump(invoked) /\ queued' = queued
          /\ pending' = pending \ {Head(calls)}
      BY <1>2 DEF Resume
    <2>2. /\ Len(calls) \in Nat \ {0} /\ calls' \in Seq(Reqs) /\ Len(calls') = Len(calls) - 1
          /\ \A i \in 1 .. Len(calls') : calls'[i] = calls[i + 1]
      BY <1>2, <2>1, EmptySeq, LenProperties, HeadTailProperties DEF CallInv, CallType
    <2>3. invoked' \in 0 .. Wrap - 1
      BY <2>1, BumpStays DEF CallInv, CallType
    <2>4. CompletionsAccounted'
      <3>1. Accounted(queued, invoked, Len(calls))
        BY DEF CallInv, CompletionsAccounted, Accounted
      <3>2. Accounted(queued', invoked', Len(calls) - 1)
        BY <2>1, <2>2, <3>1, OneMoreInvoked DEF CallInv, CallType
      <3> QED
        BY <2>2, <3>2 DEF CompletionsAccounted, Accounted
    <2>5. ASSUME NEW x \in pending'
          PROVE  \E i \in 1 .. Len(calls') : calls'[i] = x
      <3>1. PICK i \in 1 .. Len(calls) : calls[i] = x
        BY <2>1 DEF CallInv, PendingIsQueued
      <3>2. i # 1
        BY <2>1, <2>2, <3>1, HeadTailProperties DEF CallInv, CallType
      <3>3. i - 1 \in 1 .. Len(calls') /\ calls'[i - 1] = x
        BY <3>1, <3>2, <2>2
      <3> QED
        BY <3>3
    <2>6. /\ queued' \in 0 .. Wrap - 1 /\ Len(calls') <= MaxCalls
          /\ pending' \subseteq Reqs
      BY <2>1, <2>2, Bounds DEF CallInv, CallType
    <2> QED
      BY <2>2, <2>3, <2>4, <2>5, <2>6 DEF CallInv, CallType, PendingIsQueued
  <1> QED
    BY <1>1, <1>2

LEMMA CallStep ==
  ASSUME CallInv, Next
  PROVE  CallInv'
  <1> DEFINE Kept == UNCHANGED callVars
  <1>1. Kept => CallInv'
    BY DEF callVars, CallInv, CallType, CompletionsAccounted, PendingIsQueued
  <1>2. CASE ReadRequest
    <2>1. PICK r \in Reqs \cup {Null}, found \in BOOLEAN, callback \in BOOLEAN :
             (r = Null => ~callback) /\ Request(r, found, callback)
      BY <1>2 DEF ReadRequest
    <2>2. CASE found /\ callback
      <3>1. r \in Reqs /\ Enqueue(r) /\ pending' = pending \cup {r} /\ invoked' = invoked
        BY <1>2, <2>1, <2>2, EappAssumption DEF ReadRequest, Request
      <3>2. Len(calls) < MaxCalls
        BY <1>2 DEF ReadRequest
      <3> QED
        BY <3>1, <3>2, EnqueueCounts DEF CallInv, CallType, PendingIsQueued
    <2>3. CASE ~(found /\ callback)
      <3>1. pending' \subseteq pending /\ UNCHANGED <<calls, queued, invoked>>
        BY <1>2, <2>1, <2>3 DEF ReadRequest, Request
      <3> QED
        BY <3>1 DEF CallInv, CallType, CompletionsAccounted, PendingIsQueued
    <2> QED
      BY <2>2, <2>3
  <1>3. CASE ListDirectory \/ OpenStream \/ CompleteOwner
    <2>1. \/ \E r \in Reqs : Enqueue(r)
          \/ UNCHANGED <<calls, queued>>
      BY <1>3 DEF ListDirectory, OpenStream, AtOnce, CompleteOwner
    <2>2. Len(calls) < MaxCalls /\ pending' = pending /\ invoked' = invoked
      BY <1>3 DEF ListDirectory, OpenStream, AtOnce, CompleteOwner
    <2>3. CASE \E r \in Reqs : Enqueue(r)
      BY <2>2, <2>3, EnqueueCounts DEF CallInv, CallType, PendingIsQueued
    <2> QED
      BY <2>1, <2>2, <2>3, <1>1 DEF callVars
  <1>4. CASE FrameReturn \/ CallbackReturn
    BY <1>4, ResumeCounts DEF FrameReturn, CallbackReturn
  <1>5. CASE EntryReturn
    BY <1>5, <1>1 DEF EntryReturn
  <1>6. CASE Allocate \/ OpenFile \/ FilesystemOpen \/ Key \/ Poll \/ Draw \/ Fault
    BY <1>6, <1>1 DEF Allocate, OpenFile, FilesystemOpen, Key, Poll, Draw, Fault
  <1> QED
    BY <1>2, <1>3, <1>4, <1>5, <1>6 DEF Next, Return

(* Every completion the runtime accepts is dispatched once or still in the *)
(* queue, and no request is pending without one.                           *)
THEOREM CompletionsKept == Spec => [](CompletionsAccounted /\ PendingIsQueued)
  <1>1. Init => CallInv
    BY EappAssumption
       DEF Init, CallInv, CallType, CompletionsAccounted, PendingIsQueued
  <1>2. CallInv /\ [Next]_vars => CallInv'
    <2>1. CallInv /\ UNCHANGED vars => CallInv'
      BY DEF vars, callVars, CallInv, CallType, CompletionsAccounted, PendingIsQueued
    <2> QED
      BY <2>1, CallStep
  <1>3. CallInv => CompletionsAccounted /\ PendingIsQueued
    BY DEF CallInv
  <1> QED
    BY <1>1, <1>2, <1>3, PTL DEF Spec

-------------------------------------------------------------------------------
(* The file handles: all that have been handed out are below the next.     *)
FileInv == /\ handle \in Nat
           /\ DOMAIN fobj = FileObjs
           /\ \A f \in FileObjs : fobj[f] # <<>> =>
                /\ fobj[f][1] \in DOMAIN files
                /\ files[fobj[f][1]] = fobj[f][2]
                /\ fobj[f][1] \in Nat /\ fobj[f][1] < handle

LEMMA OpenKeeps ==
  ASSUME FileInv, NEW p, Open(p)
  PROVE  /\ handle' = handle + 1
         /\ handle \in DOMAIN files' /\ files'[handle] = p
         /\ \A h \in DOMAIN files : h # handle => h \in DOMAIN files' /\ files'[h] = files[h]
  BY DEF Open

LEMMA FileStep ==
  ASSUME FileInv, Next
  PROVE  FileInv'
  <1>1. UNCHANGED fileVars => FileInv'
    BY DEF fileVars, FileInv
  <1>2. CASE OpenFile
    <2>1. PICK p \in Paths, g \in FileObjs :
             Open(p) /\ fobj' = [fobj EXCEPT ![g] = <<handle, p>>]
      BY <1>2 DEF OpenFile
    <2>2. handle' \in Nat /\ DOMAIN fobj' = FileObjs
      BY <2>1, OpenKeeps DEF FileInv
    <2>3. ASSUME NEW f \in FileObjs, fobj'[f] # <<>>
          PROVE  /\ fobj'[f][1] \in DOMAIN files'
                 /\ files'[fobj'[f][1]] = fobj'[f][2]
                 /\ fobj'[f][1] \in Nat /\ fobj'[f][1] < handle'
      <3>1. CASE f = g
        <4>1. fobj'[f] = <<handle, p>>
          BY <2>1, <3>1 DEF FileInv
        <4> QED
          BY <4>1, <2>1, OpenKeeps DEF FileInv
      <3>2. CASE f # g
        <4>1. fobj'[f] = fobj[f]
          BY <2>1, <3>2 DEF FileInv
        <4>2. /\ fobj[f][1] \in DOMAIN files /\ files[fobj[f][1]] = fobj[f][2]
              /\ fobj[f][1] \in Nat /\ fobj[f][1] < handle
          BY <4>1, <2>3 DEF FileInv
        <4>3. fobj[f][1] # handle /\ handle \in Nat
          BY <4>2 DEF FileInv
        <4>4. fobj[f][1] \in DOMAIN files' /\ files'[fobj[f][1]] = files[fobj[f][1]]
          BY <4>2, <4>3, <2>1, OpenKeeps
        <4>5. fobj[f][1] < handle'
          BY <4>2, <4>3, <2>1, OpenKeeps
        <4> QED
          BY <4>1, <4>2, <4>4, <4>5
      <3> QED
        BY <3>1, <3>2
    <2> QED
      BY <2>2, <2>3 DEF FileInv
  <1>3. CASE FilesystemOpen
    <2>1. PICK p \in Paths : Open(p) /\ fobj' = fobj
      BY <1>3 DEF FilesystemOpen
    <2>2. handle' = handle + 1 /\ handle \in Nat /\ DOMAIN fobj' = FileObjs
      BY <2>1, OpenKeeps DEF FileInv
    <2>3. ASSUME NEW f \in FileObjs, fobj[f] # <<>>
          PROVE  /\ fobj[f][1] \in DOMAIN files' /\ files'[fobj[f][1]] = fobj[f][2]
                 /\ fobj[f][1] \in Nat /\ fobj[f][1] < handle'
      <3>1. /\ fobj[f][1] \in DOMAIN files /\ files[fobj[f][1]] = fobj[f][2]
            /\ fobj[f][1] \in Nat /\ fobj[f][1] < handle
        BY <2>3 DEF FileInv
      <3>2. fobj[f][1] # handle /\ fobj[f][1] < handle'
        BY <3>1, <2>2
      <3> QED
        BY <3>1, <3>2, <2>1, OpenKeeps
    <2> QED
      BY <2>1, <2>2, <2>3 DEF FileInv
  <1>4. CASE FrameReturn \/ CallbackReturn \/ EntryReturn
    BY <1>4, <1>1 DEF FrameReturn, CallbackReturn, EntryReturn
  <1>5. CASE Allocate \/ ReadRequest \/ ListDirectory \/ OpenStream \/ CompleteOwner \/ Key \/ Poll \/ Draw \/ Fault
    BY <1>5, <1>1 DEF Allocate, ReadRequest, ListDirectory, OpenStream, AtOnce, CompleteOwner, Key, Poll, Draw, Fault
  <1> QED
    BY <1>2, <1>3, <1>4, <1>5 DEF Next, Return

(* A file object reads the file it was opened for.                         *)
THEOREM FilesKept == Spec => []OwnFile
  <1>1. Init => FileInv
    BY DEF Init, FileInv
  <1>2. FileInv /\ [Next]_vars => FileInv'
    <2>1. FileInv /\ UNCHANGED vars => FileInv'
      BY DEF vars, fileVars, FileInv
    <2> QED
      BY <2>1, FileStep
  <1>3. FileInv => OwnFile
    BY DEF FileInv, OwnFile, Known, ReadFrom
  <1> QED
    BY <1>1, <1>2, <1>3, PTL DEF Spec

-------------------------------------------------------------------------------
(* The buttons: there are finitely many edges, and the guest knows them.   *)
InputInv == held \subseteq Buttons /\ prevMask \subseteq AllIds /\ BeliefIsPrev

LEMMA EdgesCount ==
  ASSUME InputInv
  PROVE  Cardinality(Pressed \cup Released) \in Nat
  <1>1. Pressed \cup Released \subseteq AllIds
    BY DEF InputInv, Pressed, Released, Mask, AllIds
  <1>2. IsFiniteSet(Pressed \cup Released)
    BY <1>1, EappAssumption, FS_Subset
  <1> QED
    BY <1>2, FS_CardinalityType

LEMMA InputStep ==
  ASSUME InputInv, Next
  PROVE  InputInv'
  <1>1. UNCHANGED <<inputVars, held>> => InputInv'
    BY DEF inputVars, InputInv, BeliefIsPrev
  <1>2. CASE Poll
    <2>1. prevMask' = Mask /\ held' = held /\ Mask \subseteq AllIds
      BY <1>2 DEF Poll, InputInv, Mask, AllIds
    <2>2. ASSUME NEW i \in AllIds \ missed'
          PROVE  i \in belief' <=> i \in Mask
      <3>1. PICK object \in BOOLEAN :
              \/ belief' = Seen /\ missed' = missed \ (Pressed \cup Released)
              \/ belief' = belief /\ missed' = missed \cup (Pressed \cup Released)
        BY <1>2 DEF Poll
      <3>2. i \in Pressed \cup Released <=> ~(i \in Mask <=> i \in prevMask)
        BY DEF Pressed, Released
      <3>3. i \notin missed => (i \in belief <=> i \in prevMask)
        BY <2>2 DEF InputInv, BeliefIsPrev
      <3>4. CASE belief' = Seen /\ missed' = missed \ (Pressed \cup Released)
        <4>1. i \in Seen <=> (i \in belief \/ i \in Pressed) /\ i \notin Released
          BY DEF Seen
        <4>2. CASE i \in Pressed \cup Released
          BY <3>4, <4>1, <4>2 DEF Pressed, Released
        <4>3. CASE i \notin Pressed \cup Released
          BY <2>2, <3>2, <3>3, <3>4, <4>1, <4>3
        <4> QED
          BY <4>2, <4>3
      <3>5. CASE belief' = belief /\ missed' = missed \cup (Pressed \cup Released)
        BY <2>2, <3>2, <3>3, <3>5
      <3> QED
        BY <3>1, <3>4, <3>5
    <2> QED
      BY <2>1, <2>2 DEF InputInv, BeliefIsPrev, AllIds
  <1>3. CASE Key
    BY <1>3 DEF Key, InputInv, BeliefIsPrev, inputVars
  <1>4. CASE FrameReturn \/ CallbackReturn \/ EntryReturn
    BY <1>4, <1>1 DEF FrameReturn, CallbackReturn, EntryReturn
  <1>5. CASE \/ Allocate \/ ReadRequest \/ ListDirectory \/ OpenStream \/ CompleteOwner \/ OpenFile
             \/ FilesystemOpen \/ Draw \/ Fault
    BY <1>5, <1>1 DEF Allocate, ReadRequest, ListDirectory, OpenStream, AtOnce, CompleteOwner, OpenFile,
                      FilesystemOpen, Draw, Fault
  <1> QED
    BY <1>2, <1>3, <1>4, <1>5 DEF Next, Return

(* Of every button whose latest edge was not lost with its list, the guest *)
(* has been told what the runtime takes for told, also after lists that    *)
(* found no memory or no object.                                           *)
THEOREM EventsTellTheTruth == Spec => []BeliefIsPrev
  <1>1. Init => InputInv
    BY DEF Init, InputInv, BeliefIsPrev
  <1>2. InputInv /\ [Next]_vars => InputInv'
    <2>1. InputInv /\ UNCHANGED vars => InputInv'
      BY DEF vars, inputVars, InputInv, BeliefIsPrev
    <2> QED
      BY <2>1, InputStep
  <1>3. InputInv => BeliefIsPrev
    BY DEF InputInv
  <1> QED
    BY <1>1, <1>2, <1>3, PTL DEF Spec

-------------------------------------------------------------------------------
(* The heap: every block ends at or before next_alloc.                     *)
Apart(a, b) == a.addr + a.size <= b.addr \/ b.addr + b.size <= a.addr

HeapInv == /\ nextAlloc \in HeapStart .. HeapEnd
           /\ blocks \subseteq [addr : Nat, size : Nat]
           /\ \A b \in blocks : b.addr + b.size <= nextAlloc
           /\ \A a, b \in blocks : a # b => Apart(a, b)

(* One more block at the end.                                              *)
LEMMA OneMore ==
  ASSUME NEW set, NEW next \in HeapStart .. HeapEnd, NEW size \in 0 .. Word,
         set \subseteq [addr : Nat, size : Nat],
         \A b \in set : b.addr + b.size <= next,
         \A a, b \in set : a # b => Apart(a, b)
  PROVE  LET new   == set \cup Block(next, size)
             after == NextAfter(next, size)
         IN  /\ after \in HeapStart .. HeapEnd
             /\ new \subseteq [addr : Nat, size : Nat]
             /\ \A b \in new : b.addr + b.size <= after
             /\ \A a, b \in new : a # b => Apart(a, b)
  <1> DEFINE new   == set \cup Block(next, size)
             after == NextAfter(next, size)
             block == [addr |-> next, size |-> Rounded(size)]
  <1>1. Rounded(size) \in Nat /\ next \in Nat
    BY EappAssumption DEF Rounded
  <1>2. CASE Fits(next, size)
    <2>1. after = next + Rounded(size) /\ after <= HeapEnd /\ after \in HeapStart .. HeapEnd
      BY <1>1, <1>2, EappAssumption DEF NextAfter, Fits
    <2>2. new = set \cup {block}
      BY <1>2 DEF Block
    <2>3. block \in [addr : Nat, size : Nat] /\ block.addr = next /\ block.size = Rounded(size)
      BY <1>1
    <2> HIDE DEF block, after, new
    <2>4. \A b \in new : b.addr + b.size <= after
      <3>1. ASSUME NEW b \in set
            PROVE  b.addr + b.size <= after
        <4>1. b.addr \in Nat /\ b.size \in Nat /\ b.addr + b.size <= next
          OBVIOUS
        <4> QED
          BY <4>1, <2>1, <1>1
      <3> QED
        BY <3>1, <2>1, <2>2, <2>3
    <2>5. \A b \in set : Apart(b, block) /\ Apart(block, b)
      BY <2>3 DEF Apart
    <2> QED
      BY <2>1, <2>2, <2>3, <2>4, <2>5 DEF after, new
  <1>3. CASE ~Fits(next, size)
    BY <1>3 DEF Block, NextAfter
  <1> QED
    BY <1>2, <1>3

LEMMA HeapStep ==
  ASSUME HeapInv, InputInv, Next
  PROVE  HeapInv'
  <1>1. UNCHANGED heapVars => HeapInv'
    BY DEF heapVars, HeapInv
  <1>2. CASE Allocate
    <2>1. CASE UNCHANGED heapVars
      BY <2>1, <1>1
    <2>2. CASE ~UNCHANGED heapVars
      <3>1. PICK size \in Sizes : /\ nextAlloc' = NextAfter(nextAlloc, size)
                                  /\ blocks' = blocks \cup Block(nextAlloc, size)
        BY <1>2, <2>2 DEF Allocate
      <3>2. size \in 0 .. Word
        BY EappAssumption
      <3>3. /\ NextAfter(nextAlloc, size) \in HeapStart .. HeapEnd
            /\ (blocks \cup Block(nextAlloc, size)) \subseteq [addr : Nat, size : Nat]
            /\ \A b \in blocks \cup Block(nextAlloc, size) :
                 b.addr + b.size <= NextAfter(nextAlloc, size)
            /\ \A a, b \in blocks \cup Block(nextAlloc, size) : a # b => Apart(a, b)
        BY <3>2, OneMore DEF HeapInv
      <3> QED
        BY <3>1, <3>3 DEF HeapInv
    <2> QED
      BY <2>1, <2>2
  <1>3. CASE EntryReturn
    <2> DEFINE next == NextAfter(nextAlloc, Boot[1])
               mid  == blocks \cup Block(nextAlloc, Boot[1])
    <2>1. Boot[1] \in 0 .. Word /\ Boot[2] \in 0 .. Word
      <3>1. Boot \in (1 .. Word - 1) \X (1 .. Word - 1)
        BY EappAssumption
      <3>2. Boot[1] \in 1 .. Word - 1 /\ Boot[2] \in 1 .. Word - 1
        BY <3>1
      <3> QED
        BY <3>2, HeapBounds
    <2>2. /\ next \in HeapStart .. HeapEnd
          /\ mid \subseteq [addr : Nat, size : Nat]
          /\ \A b \in mid : b.addr + b.size <= next
          /\ \A a, b \in mid : a # b => Apart(a, b)
      BY <2>1, OneMore DEF HeapInv
    <2>3. nextAlloc' = NextAfter(next, Boot[2]) /\ blocks' = mid \cup Block(next, Boot[2])
      BY <1>3 DEF EntryReturn
    <2> HIDE DEF next, mid
    <2>4. /\ NextAfter(next, Boot[2]) \in HeapStart .. HeapEnd
          /\ (mid \cup Block(next, Boot[2])) \subseteq [addr : Nat, size : Nat]
          /\ \A b \in mid \cup Block(next, Boot[2]) :
               b.addr + b.size <= NextAfter(next, Boot[2])
          /\ \A a, b \in mid \cup Block(next, Boot[2]) : a # b => Apart(a, b)
      BY <2>1, <2>2, OneMore
    <2> QED
      BY <2>3, <2>4 DEF HeapInv
  <1>4. CASE Poll
    <2> DEFINE edges == Cardinality(Pressed \cup Released)
               made  == IF edges <= Free THEN edges ELSE Free
    <2>1. nextAlloc' = nextAlloc + made /\ blocks' = blocks \cup Nodes(made)
      BY <1>4 DEF Poll
    <2>2. CASE made \in Nat /\ made <= Free
      <3>1. nextAlloc \in Nat /\ nextAlloc' \in HeapStart .. HeapEnd
        BY <2>1, <2>2, EappAssumption DEF HeapInv, Free
      <3>2. ASSUME NEW b \in Nodes(made)
            PROVE  /\ b \in [addr : Nat, size : Nat]
                   /\ nextAlloc <= b.addr /\ b.addr + b.size <= nextAlloc' /\ b.size = 1
        <4>1. PICK i \in 0 .. made - 1 : b = [addr |-> nextAlloc + i, size |-> 1]
          BY DEF Nodes
        <4>2. nextAlloc + i \in Nat /\ nextAlloc + i + 1 <= nextAlloc' /\ nextAlloc <= nextAlloc + i
          BY <3>1, <2>1, <2>2
        <4> QED
          BY <4>1, <4>2
      <3>3. ASSUME NEW a \in Nodes(made), NEW b \in Nodes(made), a # b
            PROVE  Apart(a, b)
        <4>1. PICK i \in 0 .. made - 1 : a = [addr |-> nextAlloc + i, size |-> 1]
          BY DEF Nodes
        <4>2. PICK j \in 0 .. made - 1 : b = [addr |-> nextAlloc + j, size |-> 1]
          BY DEF Nodes
        <4>3. i # j
          BY <4>1, <4>2, <3>3
        <4> QED
          BY <4>1, <4>2, <4>3, <3>1, <2>2 DEF Apart
      <3>4. ASSUME NEW a \in blocks, NEW b \in Nodes(made)
            PROVE  Apart(a, b) /\ Apart(b, a)
        <4>1. a.addr \in Nat /\ a.size \in Nat /\ a.addr + a.size <= nextAlloc
          BY DEF HeapInv
        <4>2. b.addr \in Nat /\ nextAlloc <= b.addr
          BY <3>2
        <4>3. a.addr + a.size <= b.addr
          BY <4>1, <4>2, <3>1
        <4> QED
          BY <4>3 DEF Apart
      <3>5. ASSUME NEW b \in blocks
            PROVE  b.addr + b.size <= nextAlloc'
        <4>1. b.addr \in Nat /\ b.size \in Nat /\ b.addr + b.size <= nextAlloc
          BY DEF HeapInv
        <4> QED
          BY <4>1, <3>1, <2>1, <2>2
      <3> HIDE DEF made
      <3> QED
        BY <2>1, <3>1, <3>2, <3>3, <3>4, <3>5 DEF HeapInv
    <2>3. made \in Nat /\ made <= Free
      <3>1. Free \in Nat
        BY EappAssumption DEF HeapInv, Free
      <3>2. edges \in Nat
        BY EdgesCount
      <3> QED
        BY <3>1, <3>2
    <2> QED
      BY <2>2, <2>3
  <1>5. CASE FrameReturn \/ CallbackReturn
    BY <1>5, <1>1 DEF FrameReturn, CallbackReturn
  <1>6. CASE \/ OpenFile \/ FilesystemOpen \/ ReadRequest \/ ListDirectory \/ OpenStream \/ CompleteOwner
             \/ Key \/ Draw \/ Fault
    BY <1>6, <1>1 DEF OpenFile, FilesystemOpen, ReadRequest, ListDirectory, OpenStream, AtOnce, CompleteOwner, Key,
                      Draw, Fault
  <1> QED
    BY <1>2, <1>3, <1>4, <1>5, <1>6 DEF Next, Return

(* The blocks of the heap never overlap and never leave it, whatever is    *)
(* allocated in whatever order.                                            *)
THEOREM HeapIsSound == Spec => []BlocksApart
  <1> DEFINE I == HeapInv /\ InputInv
  <1>1. Init => I
    BY EappAssumption DEF Init, HeapInv, InputInv, BeliefIsPrev
  <1>2. I /\ [Next]_vars => I'
    <2>1. I /\ UNCHANGED vars => I'
      BY DEF vars, inputVars, heapVars, HeapInv, InputInv, BeliefIsPrev
    <2> QED
      BY <2>1, HeapStep, InputStep
  <1>3. I => BlocksApart
    <2> SUFFICES ASSUME HeapInv PROVE BlocksApart
      OBVIOUS
    <2>1. ASSUME NEW b \in blocks
          PROVE  b.addr + b.size <= HeapEnd
      <3>1. b.addr \in Nat /\ b.size \in Nat /\ b.addr + b.size <= nextAlloc
        BY DEF HeapInv
      <3> QED
        BY <3>1, EappAssumption DEF HeapInv
    <2> QED
      BY <2>1 DEF HeapInv, BlocksApart, Apart
  <1> QED
    BY <1>1, <1>2, <1>3, PTL DEF Spec

-------------------------------------------------------------------------------
(* The rest of the state has finite types, too, and no block lies below the*)
(* heap.                                                                   *)
RestInv == /\ phase \in {"Entry", "Running"}
           /\ at \in {"entry", "frame", "callback", "fault"}
           /\ frames \in 0 .. Wrap - 1
           /\ running \in Reqs \cup {NoReq}
           /\ feeding \in BOOLEAN /\ missed \subseteq AllIds
           /\ belief \subseteq AllIds
           /\ window \in {"default", "info", "frame", "opengl", "warn"}
           /\ \A b \in blocks : HeapStart <= b.addr

(* A call that is queued comes from the guest, whatever it is in.          *)
LEMMA EnqueueRest ==
  ASSUME RestInv, NEW r, Enqueue(r)
  PROVE  feeding' \in BOOLEAN
  BY DEF Enqueue, RestInv

LEMMA ResumeRest ==
  ASSUME RestInv, CallInv, Resume
  PROVE  /\ at' \in {"frame", "callback"} /\ running' \in Reqs \cup {NoReq}
         /\ feeding' \in BOOLEAN
  <1>1. calls # <<>> => Head(calls) \in Reqs
    BY HeadTailProperties DEF CallInv, CallType
  <1> QED
    BY <1>1 DEF Resume

LEMMA RestStep ==
  ASSUME RestInv, CallInv, InputInv, HeapInv, Next
  PROVE  RestInv'
  <1>1. CASE ReadRequest \/ ListDirectory \/ OpenStream \/ CompleteOwner
    <2>1. feeding' \in BOOLEAN
      <3>1. feeding' = feeding \/ \E r \in Reqs \cup {Null} : Enqueue(r)
        BY <1>1 DEF ReadRequest, Request, ListDirectory, OpenStream, AtOnce, CompleteOwner
      <3> QED
        BY <3>1, EnqueueRest DEF RestInv
    <2>2. /\ UNCHANGED <<phase, at, frames, running, missed, belief, blocks>>
          /\ window' = "info" \/ window' = window
      BY <1>1 DEF ReadRequest, ListDirectory, OpenStream, CompleteOwner, heapVars, inputVars
    <2> QED
      BY <2>1, <2>2 DEF RestInv
  <1>2. CASE OpenFile \/ FilesystemOpen \/ Key \/ Draw \/ Fault
    BY <1>2 DEF OpenFile, FilesystemOpen, Key, Draw, Fault, RestInv, guestVars, heapVars, inputVars
  <1>3. CASE FrameReturn
    <2>1. frames' \in 0 .. Wrap - 1
      BY <1>3, BumpStays DEF FrameReturn, RestInv
    <2>2. /\ at' \in {"frame", "callback"} /\ running' \in Reqs \cup {NoReq}
          /\ feeding' \in BOOLEAN
      BY <1>3, ResumeRest DEF FrameReturn
    <2>3. UNCHANGED <<phase, missed, belief, window, blocks>>
      BY <1>3 DEF FrameReturn, heapVars, inputVars
    <2> QED
      BY <2>1, <2>2, <2>3 DEF RestInv
  <1>4. CASE CallbackReturn
    <2>1. /\ at' \in {"frame", "callback"} /\ running' \in Reqs \cup {NoReq}
          /\ feeding' \in BOOLEAN
      BY <1>4, ResumeRest DEF CallbackReturn
    <2>2. UNCHANGED <<phase, frames, missed, belief, window, blocks>>
      BY <1>4 DEF CallbackReturn, heapVars, inputVars
    <2> QED
      BY <2>1, <2>2 DEF RestInv
  <1>5. ASSUME NEW next, next \in HeapStart .. HeapEnd, NEW size,
               NEW b \in Block(next, size)
        PROVE  HeapStart <= b.addr
    BY <1>5, HeapBounds DEF Block
  <1>6. CASE Allocate
    <2>1. /\ UNCHANGED <<phase, frames, running, feeding, missed, belief, window>>
          /\ at' = at \/ at' = "fault"
      BY <1>6 DEF Allocate, inputVars
    <2>2. blocks' = blocks \/ \E size \in Sizes : blocks' = blocks \cup Block(nextAlloc, size)
      BY <1>6 DEF Allocate, heapVars
    <2>3. \A b \in blocks' : HeapStart <= b.addr
      BY <1>5, <2>2 DEF RestInv, HeapInv
    <2> QED
      BY <2>1, <2>3 DEF RestInv
  <1>7. CASE EntryReturn
    <2> DEFINE next == NextAfter(nextAlloc, Boot[1])
    <2>1. phase' = "Running" /\ at' = "frame" /\ window' = "info"
          /\ UNCHANGED <<frames, running, feeding, missed, belief>>
          /\ blocks' = blocks \cup Block(nextAlloc, Boot[1]) \cup Block(next, Boot[2])
      BY <1>7 DEF EntryReturn, inputVars
    <2>2. next \in HeapStart .. HeapEnd
      <3>1. Boot[1] \in 0 .. Word
        <4>1. Boot \in (1 .. Word - 1) \X (1 .. Word - 1)
          BY EappAssumption
        <4>2. Boot[1] \in 1 .. Word - 1
          BY <4>1
        <4> QED
          BY <4>2, HeapBounds
      <3> QED
        BY <3>1, OneMore DEF HeapInv
    <2> HIDE DEF next
    <2>3. \A b \in blocks' : HeapStart <= b.addr
      BY <1>5, <2>1, <2>2 DEF RestInv, HeapInv
    <2> QED
      BY <2>1, <2>3 DEF RestInv
  <1>8. CASE Poll
    <2>1. UNCHANGED <<phase, at, frames, running, feeding, window>>
      BY <1>8 DEF Poll, guestVars
    <2>2. /\ missed' \subseteq missed \cup Pressed \cup Released
          /\ belief' = Seen \/ belief' = belief
      BY <1>8 DEF Poll
    <2>3. Seen \subseteq AllIds /\ missed \cup Pressed \cup Released \subseteq AllIds
      BY DEF Seen, Pressed, Released, Mask, AllIds, InputInv, RestInv
    <2>4. PICK made : blocks' = blocks \cup Nodes(made)
      BY <1>8 DEF Poll
    <2>5. ASSUME NEW b \in Nodes(made)
          PROVE  HeapStart <= b.addr
      <3>1. PICK i \in 0 .. made - 1 : b = [addr |-> nextAlloc + i, size |-> 1]
        BY DEF Nodes
      <3>2. b.addr = nextAlloc + i /\ i \in Int /\ 0 <= i
        BY <3>1
      <3> QED
        BY <3>2, HeapBounds DEF HeapInv
    <2>6. \A b \in blocks' : HeapStart <= b.addr
      BY <2>4, <2>5 DEF RestInv
    <2> QED
      BY <2>1, <2>2, <2>3, <2>6 DEF RestInv
  <1> QED
    BY <1>1, <1>2, <1>3, <1>4, <1>6, <1>7, <1>8 DEF Next, Return

(* The state of the runtime keeps its type: no counter leaves its width, no*)
(* call is for anything but a request object, and the bump allocator hands *)
(* out nothing outside the heap.                                           *)
THEOREM TypeCorrect == Spec => []TypeOK
  <1> DEFINE I == CallInv /\ InputInv /\ HeapInv /\ RestInv
  <1>1. Init => I
    <2>1. Init => CallInv
      BY EappAssumption DEF Init, CallInv, CallType, CompletionsAccounted, PendingIsQueued
    <2>2. Init => HeapInv /\ InputInv
      BY EappAssumption DEF Init, HeapInv, InputInv, BeliefIsPrev
    <2>3. Init => RestInv
      <3>1. 0 \in 0 .. Wrap - 1
        BY Bounds
      <3> QED
        BY <3>1 DEF Init, RestInv
    <2> QED
      BY <2>1, <2>2, <2>3
  <1>2. I /\ [Next]_vars => I'
    <2>1. I /\ UNCHANGED vars => I'
      BY DEF vars, callVars, guestVars, inputVars, heapVars, HeapInv, InputInv, BeliefIsPrev, RestInv,
             CallInv, CallType, CompletionsAccounted, PendingIsQueued
    <2> QED
      BY <2>1, CallStep, HeapStep, InputStep, RestStep
  <1>3. I => TypeOK
    <2> SUFFICES ASSUME CallInv, InputInv, HeapInv, RestInv PROVE TypeOK
      OBVIOUS
    <2>1. ASSUME NEW b \in blocks
          PROVE  b \in [addr : HeapStart .. HeapEnd, size : 0 .. HeapEnd]
      <3>1. b \in [addr : Nat, size : Nat] /\ b.addr + b.size <= nextAlloc /\ HeapStart <= b.addr
        BY DEF HeapInv, RestInv
      <3>2. b.addr \in Nat /\ b.size \in Nat
        BY <3>1
      <3>3. b.addr \in HeapStart .. HeapEnd /\ b.size \in 0 .. HeapEnd
        BY <3>1, <3>2, HeapBounds DEF HeapInv
      <3> QED
        BY <3>1, <3>3
    <2> QED
      BY <2>1 DEF TypeOK, CallInv, CallType, InputInv, HeapInv, RestInv
  <1> QED
    BY <1>1, <1>2, <1>3, PTL DEF Spec
===============================================================================
