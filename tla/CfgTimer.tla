------------------------------- MODULE CfgTimer -------------------------------
(***************************************************************************)
(* The configurable timer of the PP5020 (devices/platform/pp/cfg_timer.rs):*)
(* the guest's registers on the emulator thread, an unbounded channel, and *)
(* the interrupter task on the executor's pool, which waits for a message  *)
(* or a deadline, whichever select finds first.                            *)
(*                                                                         *)
(* Time is relative: a deadline is how far it lies ahead ("left", negative *)
(* when the task is late).  Val, the free-running counter, is left out: no *)
(* decision reads it.  assert and clear of the interrupt line are one step *)
(* each; module Signal looks inside them.                                  *)
(***************************************************************************)
EXTENDS Integers, Sequences

CONSTANTS
  Counters,  \* the counter values the guest writes: periods in ticks
  MaxQueue,  \* bound: messages in the channel
  MaxLag     \* bound: how far behind a deadline the task can run

ASSUME CfgTimerAssumption == /\ Counters \subseteq Nat
                             /\ MaxQueue \in Nat
                             /\ MaxLag \in Nat

VARIABLES
  counter, repeat, enable,  \* the Config register
  last,     \* CfgTimer::last_interrupter_state: what was sent last
  channel,  \* the messages of interrupter_tx
  state,    \* the interrupter task's state
  at,       \* what the task does next: poll the message, the timer, or fire
  irq,      \* the timer's interrupt line
  stale     \* history: interrupts since the guest's last message was sent

regVars  == <<counter, repeat, enable, last>>
taskVars == <<state, at>>
vars == <<counter, repeat, enable, last, channel, state, at, irq, stale>>

(* InterrupterState.  Two history fields: "beat" is the time since the last*)
(* period ended, "due" how many ended periods have not interrupted yet.    *)
Disabled == [mode |-> "disabled"]
Armed(m, p) == [mode |-> m, left |-> p, period |-> p, beat |-> 0, due |-> 0]

(* CfgTimer::new.                                                          *)
Init == /\ counter = 0 /\ repeat = FALSE /\ enable = FALSE
        /\ last = Disabled
        /\ channel = <<>>
        /\ state = Disabled
        /\ at = "recv"
        /\ irq = FALSE
        /\ stale = 0

-------------------------------------------------------------------------------
(* One tick of the clock passes for a deadline.  With a period of zero the *)
(* deadline is always past: the task fires each time it polls its timer.   *)
Elapse(s) ==
  IF s.mode = "disabled" THEN s
  ELSE LET turn == s.period > 0 /\ s.beat + 1 = s.period
       IN  [s EXCEPT !.left = IF s.period = 0 THEN 0 ELSE @ - 1,
                     !.beat = IF s.period = 0 \/ turn THEN 0 ELSE @ + 1,
                     !.due  = IF turn THEN @ + 1 ELSE @]

OnTime(s) == (s.mode # "disabled" => s.left > -MaxLag)

Tick == /\ OnTime(state)
        /\ \A i \in DOMAIN channel : OnTime(channel[i])
        /\ state' = Elapse(state)
        /\ channel' = [i \in DOMAIN channel |-> Elapse(channel[i])]
        /\ UNCHANGED <<regVars, at, irq, stale>>

(* w32(Config): the task hears of an enable only when the timer was off,   *)
(* and of every disable.                                                   *)
Send(s) == /\ Len(channel) < MaxQueue
           /\ channel' = Append(channel, s)
           /\ last' = s
           /\ stale' = 0

WriteConfig(e, r, n) ==
  /\ counter' = n
  /\ repeat' = r
  /\ enable' = e
  /\ CASE e /\ ~enable -> Send(Armed(IF r THEN "repeating" ELSE "oneshot", n))
       [] ~e           -> Send(Disabled)
       [] OTHER        -> UNCHANGED <<channel, last, stale>>
  /\ UNCHANGED <<taskVars, irq>>

(* r32(Val) acknowledges the interrupt.                                    *)
ReadVal == /\ irq' = FALSE
           /\ UNCHANGED <<regVars, channel, taskVars, stale>>

-------------------------------------------------------------------------------
(* Mutant: older messages are dropped for the first.                     *)
ReceiveOne == /\ at = "recv"
              /\ channel # <<>>
              /\ state' = Head(channel)
              /\ channel' = <<>>
              /\ UNCHANGED <<regVars, at, irq, stale>>

(* future::select polls the message first.                                 *)
Receive == /\ at = "recv"
           /\ channel # <<>>
           /\ state' = Head(channel)
           /\ channel' = Tail(channel)
           /\ UNCHANGED <<regVars, at, irq, stale>>

(* Mutant: the timer may be polled before the message.                   *)
PollUnbiased == /\ at = "recv"
                /\ at' = "timer"
                /\ UNCHANGED <<regVars, channel, state, irq, stale>>

PollTimer == /\ at = "recv"
             /\ channel = <<>>
             /\ at' = "timer"
             /\ UNCHANGED <<regVars, channel, state, irq, stale>>

(* Then the timeout: pending, the task is woken and polls again; or ready. *)
IsDue == state.mode # "disabled" /\ state.left <= 0

PollAgain == /\ at = "timer"
             /\ ~IsDue
             /\ at' = "recv"
             /\ UNCHANGED <<regVars, channel, state, irq, stale>>

Ready == /\ at = "timer"
         /\ IsDue
         /\ at' = "fire"
         /\ UNCHANGED <<regVars, channel, state, irq, stale>>

(* Mutant: the next period starts when the task runs.                    *)
AfterFiringNow(s) == IF s.mode = "oneshot"
                     THEN Disabled
                     ELSE [s EXCEPT !.left = s.period,
                                    !.due = IF s.period = 0 THEN 0 ELSE @ - 1]

(* Mutant: every timer is a oneshot.                                     *)
FireOnce(s) == Disabled

(* The next state: a repeating timer's deadline moves by one period.       *)
AfterFiring(s) == IF s.mode = "oneshot"
                  THEN Disabled
                  ELSE [s EXCEPT !.left = @ + s.period,
                                 !.due = IF s.period = 0 THEN 0 ELSE @ - 1]

Fire == /\ at = "fire"
        /\ at' = "recv"
        /\ irq' = TRUE
        /\ state' = AfterFiring(state)
        /\ stale' = IF channel = <<>> THEN stale ELSE stale + 1
        /\ UNCHANGED <<regVars, channel>>

Task == Receive \/ PollTimer \/ PollAgain \/ Ready \/ Fire

Next == \/ Tick \/ ReadVal \/ Task
        \/ \E e, r \in BOOLEAN, n \in Counters : WriteConfig(e, r, n)

Spec == Init /\ [][Next]_vars

(* The pool polls a task that has been woken, and time goes on.            *)
FairSpec == Spec /\ WF_vars(Task) /\ WF_vars(Tick)

-------------------------------------------------------------------------------
IsState(s) ==
  \/ s = Disabled
  \/ /\ s.mode \in {"oneshot", "repeating"}
     /\ s.period \in Counters
     /\ s.left \in -MaxLag .. s.period
     /\ s.beat \in 0 .. s.period
     /\ s.due \in Nat

TypeOK == /\ counter \in Counters \cup {0}
          /\ repeat \in BOOLEAN /\ enable \in BOOLEAN /\ irq \in BOOLEAN
          /\ IsState(last) /\ IsState(state)
          /\ Len(channel) <= MaxQueue
          /\ \A i \in DOMAIN channel : IsState(channel[i])
          /\ at \in {"recv", "timer", "fire"}
          /\ stale \in Nat

(* The task ends up doing what the guest asked for last, whatever it missed*)
(* meanwhile: the last message in the channel, or the state when there is  *)
(* none, is the guest's last one, unless that was a oneshot and has fired. *)
Plan(s) == IF s.mode = "disabled" THEN s ELSE [mode |-> s.mode, period |-> s.period]
Latest == IF channel = <<>> THEN state ELSE channel[Len(channel)]
TaskFollowsGuest ==
  \/ Plan(Latest) = Plan(last)
  \/ last.mode = "oneshot" /\ Latest = Disabled

(* A repeating timer neither drifts nor drops a period, however late the   *)
(* task runs: its deadline is the first ended period that has not          *)
(* interrupted, or else the end of the current one.                        *)
NoPeriodLost ==
  state.mode = "repeating" /\ state.period > 0 =>
     state.left = (state.period - state.beat) - state.due * state.period

(* After the guest has sent a new state, at most one interrupt of the old  *)
(* one still arrives: the task polls its messages before its timer.        *)
OneStaleInterrupt == stale <= 1

(* A repeating timer that is left alone keeps interrupting.                *)
RepeatingFires ==
  (last.mode = "repeating") ~> (irq \/ last.mode # "repeating")
===============================================================================
