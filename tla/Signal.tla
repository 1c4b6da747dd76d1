-------------------------------- MODULE Signal --------------------------------
(***************************************************************************)
(* Signal lines of clicky-core (signal/mod.rs), at the grain of the atomic *)
(* operations the code performs.                                           *)
(*                                                                         *)
(* signal::new makes one Master and one Slave.  Cloning a Master copies    *)
(* the Arc of its own_signal flag, so every clone ("handle") of a line     *)
(* works on the same flag and on the same counter.  Handles live on        *)
(* different threads: the emulator thread, the UI thread and, in native    *)
(* builds, the executor's pool.                                            *)
(*                                                                         *)
(* All lines of this module share one Trigger, as the lines made with      *)
(* clones of one irq::Pending or gpio::Changed do.  One consumer polls the *)
(* trigger (Ipod4g::step) and then reads the lines.                        *)
(***************************************************************************)
EXTENDS Integers

CONSTANTS
  Lines,       \* the signal lines behind one trigger
  Threads,     \* the threads that hold handles
  Handles,     \* the Masters, clones included
  LineOf,      \* the line a handle drives
  ThreadOf,    \* the thread a handle is used from
  Uses,        \* the calls made on a handle: "assert", "clear" or both
  Kind         \* TriggerKind of the shared trigger: "Hi", "Lo" or "Edge"

ASSUME SignalAssumption ==
  /\ LineOf   \in [Handles -> Lines]
  /\ ThreadOf \in [Handles -> Threads]
  /\ Uses     \in [Handles -> SUBSET {"assert", "clear"}]
  /\ Kind \in {"Hi", "Lo", "Edge"}

VARIABLES
  own,        \* Master::own_signal, one per line: every clone shares it
  signal,     \* the counter Slave::asserted compares with zero
  trigger,    \* the flag inside the shared Trigger
  call,       \* what each thread is doing inside assert() or clear()
  panicked,   \* an assert! of the code failed
  seen,       \* the level the consumer last read from each line
  unread      \* lines the consumer still has to read after a notification

lineVars     == <<own, signal, trigger, call, panicked>>
consumerVars == <<seen, unread>>
vars == <<own, signal, trigger, call, panicked, seen, unread>>

(* A thread outside assert()/clear(), or between two of its atomic steps:  *)
(* the flag has been loaded, then stored, then the counter has been moved. *)
Idle == [at |-> "idle"]
Calls == {Idle}
  \cup [at : {"loaded", "stored"}, op : {"assert", "clear"}, line : Lines]
  \cup [at : {"counted"}, op : {"assert", "clear"}, line : Lines, wasHigh : BOOLEAN]

Level(l) == signal[l] # 0

-------------------------------------------------------------------------------
(* Mutant: an Edge trigger that only sees a rise.                        *)
FiresOnRise(old, new) == ~old /\ new

(* Trigger::update: does a change of level from old to new set a trigger?  *)
Fires(old, new) == CASE Kind = "Hi"   -> ~old /\ new
                     [] Kind = "Lo"   -> old /\ ~new
                     [] Kind = "Edge" -> old # new

(* signal::new and Trigger::new.                                           *)
Init == /\ own      = [l \in Lines |-> FALSE]
        /\ signal   = [l \in Lines |-> 0]
        /\ trigger  = FALSE
        /\ call     = [t \in Threads |-> Idle]
        /\ panicked = FALSE
        /\ seen     = [l \in Lines |-> FALSE]
        /\ unread   = {}

(* Mutant: no early return.                                              *)
LoadAlways(h, op) ==
  LET l == LineOf[h]
      t == ThreadOf[h]
  IN  /\ ~panicked
      /\ call[t] = Idle
      /\ call' = [call EXCEPT ![t] = [at |-> "loaded", op |-> op, line |-> l]]
      /\ UNCHANGED <<own, signal, trigger, panicked, consumerVars>>

(* Master::assert and Master::clear load the flag and return early when it *)
(* already has the wanted value.                                           *)
Load(h, op) ==
  LET l == LineOf[h]
      t == ThreadOf[h]
  IN  /\ ~panicked
      /\ call[t] = Idle
      /\ call' = IF own[l] = (op = "assert")
                 THEN call
                 ELSE [call EXCEPT ![t] = [at |-> "loaded", op |-> op, line |-> l]]
      /\ UNCHANGED <<own, signal, trigger, panicked, consumerVars>>

(* own_signal.store                                                        *)
Store(t) ==
  /\ ~panicked
  /\ call[t].at = "loaded"
  /\ own'  = [own EXCEPT ![call[t].line] = (call[t].op = "assert")]
  /\ call' = [call EXCEPT ![t].at = "stored"]
  /\ UNCHANGED <<signal, trigger, panicked, consumerVars>>

(* signal.fetch_add / fetch_sub and the assert! on the value it returned.  *)
Count(t) ==
  LET l   == call[t].line
      up  == call[t].op = "assert"
      old == signal[l]
  IN  /\ ~panicked
      /\ call[t].at = "stored"
      /\ signal' = [signal EXCEPT ![l] = IF up THEN old + 1 ELSE old - 1]
      /\ panicked' = IF up THEN old < 0 ELSE old <= 0
      /\ call' = [call EXCEPT ![t] = [at |-> "counted", op |-> call[t].op,
                                      line |-> l, wasHigh |-> old # 0]]
      /\ UNCHANGED <<own, trigger, consumerVars>>

(* trigger.update(old_val != 0, true | false)                              *)
Notify(t) ==
  /\ ~panicked
  /\ call[t].at = "counted"
  /\ trigger' = (trigger \/ Fires(call[t].wasHigh, call[t].op = "assert"))
  /\ call' = [call EXCEPT ![t] = Idle]
  /\ UNCHANGED <<own, signal, panicked, consumerVars>>

(* Trigger::check_and_clear by the step loop; a hit makes it read lines.   *)
CheckAndClear ==
  /\ trigger
  /\ trigger' = FALSE
  /\ unread'  = Lines
  /\ UNCHANGED <<own, signal, call, panicked, seen>>

(* Mutant: the consumer looks at one line per notification.              *)
AssertedOnce(l) ==
  /\ l \in unread
  /\ seen'   = [seen EXCEPT ![l] = Level(l)]
  /\ unread' = {}
  /\ UNCHANGED lineVars

(* Slave::asserted                                                         *)
Asserted(l) ==
  /\ l \in unread
  /\ seen'   = [seen EXCEPT ![l] = Level(l)]
  /\ unread' = unread \ {l}
  /\ UNCHANGED lineVars

Step(t) == Store(t) \/ Count(t) \/ Notify(t)
Consume == CheckAndClear \/ \E l \in Lines : Asserted(l)

Next == \/ \E h \in Handles : \E op \in Uses[h] : Load(h, op)
        \/ \E t \in Threads : Step(t)
        \/ Consume

Spec == Init /\ [][Next]_vars

(* A thread inside assert() is eventually scheduled, and the step loop     *)
(* polls its triggers on every step.                                       *)
FairSpec == /\ Spec
            /\ \A t \in Threads : WF_vars(Step(t))
            /\ WF_vars(CheckAndClear)
            /\ \A l \in Lines : WF_vars(Asserted(l))

-------------------------------------------------------------------------------
TypeOK == /\ own \in [Lines -> BOOLEAN]
          /\ signal \in [Lines -> Int]
          /\ trigger \in BOOLEAN
          /\ call \in [Threads -> Calls]
          /\ panicked \in BOOLEAN
          /\ seen \in [Lines -> BOOLEAN]
          /\ unread \subseteq Lines

(* Every handle of a line is used from one thread.  True of the GPIO hold  *)
(* line, the control lines and the device interrupt lines; not of a        *)
(* CfgTimer line, which the executor asserts and the guest's read clears.  *)
OneThreadPerLine ==
  \A g, h \in Handles : LineOf[g] = LineOf[h] => ThreadOf[g] = ThreadOf[h]

(* A call on line l has stored the flag and not yet moved the counter.     *)
Owing(l, op) == \E t \in Threads : /\ call[t].at = "stored"
                                   /\ call[t].line = l
                                   /\ call[t].op = op

(* The assert! of signal/mod.rs:140 and :156 never fail.                   *)
NoPanic == ~panicked

(* The counter of a line says what its flag says, but for the one step by  *)
(* which a call in progress lets it lag behind.                            *)
CounterFollowsFlag ==
  \A l \in Lines : signal[l] = IF Owing(l, "assert") THEN 0
                               ELSE IF Owing(l, "clear") THEN 1
                               ELSE IF own[l] THEN 1 ELSE 0

(* A change some thread has made and is about to announce.                 *)
Announcing(l) == \E t \in Threads : /\ call[t].at = "counted"
                                    /\ call[t].line = l
                                    /\ Fires(call[t].wasHigh, call[t].op = "assert")

Owed == {l \in Lines : trigger \/ l \in unread \/ Announcing(l)}

(* With an Edge trigger the consumer never keeps a stale level without     *)
(* being told to read the line again: the trigger is updated after the     *)
(* counter, and cleared before the lines are read.                         *)
ChangeIsNotified ==
  \A l \in Lines : (Kind = "Edge" /\ seen[l] # Level(l)) => l \in Owed

(* Once a line settles, the consumer comes to know its level.              *)
SettledIsSeen ==
  \A l \in Lines, b \in BOOLEAN : <>[](Level(l) = b) => <>[](seen[l] = b)

(* The lines, as their consumer sees them, keep the abstract promise.      *)
Watched == INSTANCE WatchedLines
             WITH level <- [l \in Lines |-> Level(l)], seen <- seen, owed <- Owed
KeepsPromise == Watched!WSpec
===============================================================================
