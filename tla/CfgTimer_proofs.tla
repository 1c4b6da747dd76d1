---------------------------- MODULE CfgTimer_proofs ----------------------------
(***************************************************************************)
(* Proofs about CfgTimer, for any periods and any bounds on the channel and*)
(* on how late the task is.                                                *)
(***************************************************************************)
EXTENDS CfgTimer, TLAPS

(* A deadline is the first ended period that has not interrupted, or else  *)
(* the end of the current one.                                             *)
Kept(s) == s.period > 0 => s.left = (s.period - s.beat) - s.due * s.period

ArmedState == {s \in [mode : {"oneshot", "repeating"}, left : Int, period : Nat,
                      beat : Nat, due : Int] : Kept(s)}
TaskState == {Disabled} \cup ArmedState

(* A late task: it polls the channel after every interrupt, so once it has *)
(* fired with a message waiting, it cannot poll its timer again.           *)
Prompt == /\ stale \in {0, 1}
          /\ at \in {"recv", "timer", "fire"}
          /\ at # "recv" /\ channel # <<>> => stale = 0

IInv == /\ state \in TaskState
        /\ last \in TaskState
        /\ channel \in Seq(TaskState)
        /\ at = "fire" => state \in ArmedState
        /\ Prompt
        /\ TaskFollowsGuest

-------------------------------------------------------------------------------
(* Arming a timer: a whole period lies ahead.                              *)
LEMMA ArmedKept ==
  ASSUME NEW m \in {"oneshot", "repeating"}, NEW p \in Nat
  PROVE  Armed(m, p) \in ArmedState
BY DEF Armed, ArmedState, Kept

(* The clock keeps a deadline where it should be, and nobody's plans.      *)
LEMMA ElapseKept ==
  ASSUME NEW s \in TaskState
  PROVE  /\ Elapse(s) \in TaskState
         /\ s \in ArmedState => Elapse(s) \in ArmedState
         /\ Plan(Elapse(s)) = Plan(s)
         /\ s = Disabled => Elapse(s) = Disabled
<1>1. CASE s = Disabled
  BY <1>1 DEF Elapse, Disabled, TaskState, ArmedState
<1>2. CASE s \in ArmedState
  <2> DEFINE turn == s.period > 0 /\ s.beat + 1 = s.period
             e == [s EXCEPT !.left = IF s.period = 0 THEN 0 ELSE @ - 1,
                            !.beat = IF s.period = 0 \/ turn THEN 0 ELSE @ + 1,
                            !.due  = IF turn THEN @ + 1 ELSE @]
  <2>1. Elapse(s) = e
    BY <1>2 DEF Elapse, ArmedState
  <2>2. e \in [mode : {"oneshot", "repeating"}, left : Int, period : Nat,
               beat : Nat, due : Int] /\ e.mode = s.mode /\ e.period = s.period
    <3>1. /\ s.mode \in {"oneshot", "repeating"} /\ s.period \in Nat
          /\ s.left \in Int /\ s.beat \in Nat /\ s.due \in Int
          /\ s = [mode |-> s.mode, left |-> s.left, period |-> s.period,
                  beat |-> s.beat, due |-> s.due]
      BY <1>2 DEF ArmedState
    <3> DEFINE left == IF s.period = 0 THEN 0 ELSE s.left - 1
               beat == IF s.period = 0 \/ turn THEN 0 ELSE s.beat + 1
               due  == IF turn THEN s.due + 1 ELSE s.due
    <3>2. left \in Int /\ beat \in Nat /\ due \in Int
      BY <3>1
    <3>3. e = [s EXCEPT !.left = left, !.beat = beat, !.due = due]
      BY <3>1
    <3> HIDE DEF left, beat, due, turn, e
    <3>4. e = [mode |-> s.mode, left |-> left, period |-> s.period, beat |-> beat, due |-> due]
      BY <3>1, <3>3
    <3> QED BY <3>1, <3>2, <3>4
  <2>3. ASSUME s.period > 0 PROVE e.left = (e.period - e.beat) - e.due * e.period
    <3> DEFINE p == s.period
               d == s.due
    <3>1. p \in Nat /\ d \in Int /\ s.beat \in Nat /\ s.left \in Int
      BY <1>2 DEF ArmedState
    <3>2. s.left = (p - s.beat) - d * p
      BY <1>2, <2>3 DEF ArmedState, Kept
    <3>3. CASE turn
      <4>1. e.left = s.left - 1 /\ e.beat = 0 /\ e.due = d + 1 /\ e.period = p
        BY <1>2, <2>3, <3>3 DEF ArmedState
      <4>2. (d + 1) * p = d * p + p
        BY <3>1
      <4>3. d * p \in Int
        BY <3>1
      <4> QED BY <3>1, <3>2, <3>3, <4>1, <4>2, <4>3
    <3>4. CASE ~turn
      <4>1. e.left = s.left - 1 /\ e.beat = s.beat + 1 /\ e.due = d /\ e.period = p
        BY <1>2, <2>3, <3>4 DEF ArmedState
      <4>2. d * p \in Int
        BY <3>1
      <4> QED BY <3>1, <3>2, <4>1, <4>2
    <3> QED BY <3>3, <3>4
  <2>4. e \in ArmedState
    BY <2>2, <2>3 DEF ArmedState, Kept
  <2>5. Plan(e) = Plan(s)
    BY <1>2, <2>2 DEF Plan, ArmedState
  <2> HIDE DEF e
  <2> QED BY <1>2, <2>1, <2>4, <2>5 DEF TaskState, ArmedState, Disabled
<1> QED BY <1>1, <1>2 DEF TaskState

(* Firing moves a repeating timer on by one period, and ends a oneshot.    *)
LEMMA FiringKept ==
  ASSUME NEW s \in ArmedState
  PROVE  /\ AfterFiring(s) \in TaskState
         /\ s.mode = "oneshot" => AfterFiring(s) = Disabled
         /\ s.mode # "oneshot" => Plan(AfterFiring(s)) = Plan(s)
<1>1. CASE s.mode = "oneshot"
  BY <1>1 DEF AfterFiring, TaskState
<1>2. CASE s.mode # "oneshot"
  <2> DEFINE p == s.period
             d == s.due
             e == [s EXCEPT !.left = @ + p, !.due = IF p = 0 THEN 0 ELSE @ - 1]
  <2>1. AfterFiring(s) = e
    BY <1>2 DEF AfterFiring
  <2>2. /\ p \in Nat /\ d \in Int /\ s.beat \in Nat /\ s.left \in Int
        /\ e \in [mode : {"oneshot", "repeating"}, left : Int, period : Nat,
                  beat : Nat, due : Int]
        /\ e.mode = s.mode /\ e.period = p
    <3>1. /\ s.mode \in {"oneshot", "repeating"} /\ s.period \in Nat
          /\ s.left \in Int /\ s.beat \in Nat /\ s.due \in Int
          /\ s = [mode |-> s.mode, left |-> s.left, period |-> s.period,
                  beat |-> s.beat, due |-> s.due]
      BY DEF ArmedState
    <3> DEFINE left == s.left + p
               due  == IF p = 0 THEN 0 ELSE d - 1
    <3>2. left \in Int /\ due \in Int
      BY <3>1
    <3>3. e = [s EXCEPT !.left = left, !.due = due]
      BY <3>1
    <3> HIDE DEF left, due, e
    <3>4. e = [mode |-> s.mode, left |-> left, period |-> p, beat |-> s.beat, due |-> due]
      BY <3>1, <3>3
    <3> QED BY <3>1, <3>2, <3>4
  <2>3. ASSUME p > 0 PROVE e.left = (e.period - e.beat) - e.due * e.period
    <3>1. s.left = (p - s.beat) - d * p
      BY <2>3 DEF ArmedState, Kept
    <3>2. e.left = s.left + p /\ e.beat = s.beat /\ e.due = d - 1
      BY <2>2, <2>3 DEF ArmedState
    <3>3. (d - 1) * p = d * p - p /\ d * p \in Int
      BY <2>2
    <3> QED BY <2>2, <3>1, <3>2, <3>3
  <2>4. e \in ArmedState
    BY <2>2, <2>3 DEF ArmedState, Kept
  <2>5. Plan(e) = Plan(s)
    BY <2>2 DEF Plan, ArmedState
  <2> HIDE DEF e
  <2> QED BY <1>2, <2>1, <2>4, <2>5 DEF TaskState
<1> QED BY <1>1, <1>2

-------------------------------------------------------------------------------
(* A tick keeps every message, and their number.                           *)
LEMMA TickKept ==
  ASSUME IInv, Tick
  PROVE  IInv'
<1>1. /\ state' = Elapse(state)
      /\ channel' = [i \in DOMAIN channel |-> Elapse(channel[i])]
      /\ UNCHANGED <<last, at, stale>>
  BY DEF Tick, regVars
<1>2. channel \in Seq(TaskState)
  BY DEF IInv
<1>3. \A i \in 1 .. Len(channel) : Elapse(channel[i]) \in TaskState
  BY <1>2, ElapseKept
<1>4. /\ channel' \in Seq(TaskState)
      /\ Len(channel') = Len(channel)
      /\ \A i \in 1 .. Len(channel) : channel'[i] = Elapse(channel[i])
  BY <1>1, <1>2, <1>3
<1>5. channel = <<>> <=> channel' = <<>>
  BY <1>2, <1>4
<1>6. state' \in TaskState /\ (at' = "fire" => state' \in ArmedState)
  BY <1>1, ElapseKept DEF IInv
<1>7. Latest \in TaskState /\ Latest' = Elapse(Latest)
  BY <1>1, <1>2, <1>4, <1>5 DEF Latest, IInv
<1>8. TaskFollowsGuest'
  BY <1>1, <1>7, ElapseKept DEF IInv, TaskFollowsGuest
<1> QED BY <1>1, <1>4, <1>5, <1>6, <1>8 DEF IInv, Prompt

(* A message is the guest's last word.                                     *)
LEMMA SendKept ==
  ASSUME IInv, NEW s \in TaskState, Send(s), UNCHANGED taskVars
  PROVE  IInv'
<1>1. /\ channel' = Append(channel, s)
      /\ last' = s
      /\ stale' = 0
      /\ UNCHANGED <<state, at>>
  BY DEF Send, taskVars
<1>2. channel' \in Seq(TaskState) /\ channel' # <<>> /\ channel'[Len(channel')] = s
  BY <1>1 DEF IInv
<1>3. TaskFollowsGuest'
  BY <1>1, <1>2 DEF TaskFollowsGuest, Latest
<1> QED BY <1>1, <1>2, <1>3 DEF IInv, Prompt

(* The task takes the oldest message.                                      *)
LEMMA ReceiveKept ==
  ASSUME IInv, Receive
  PROVE  IInv'
<1>1. /\ channel # <<>> /\ at = "recv"
      /\ state' = Head(channel) /\ channel' = Tail(channel)
      /\ UNCHANGED <<last, at, stale>>
  BY DEF Receive, regVars
<1>2. channel \in Seq(TaskState)
  BY DEF IInv
<1>3. state' \in TaskState /\ channel' \in Seq(TaskState)
  BY <1>1, <1>2
<1>4. Latest' = Latest
  <2>1. CASE Len(channel) = 1
    BY <1>1, <1>2, <2>1 DEF Latest
  <2>2. CASE Len(channel) # 1
    BY <1>1, <1>2, <2>2 DEF Latest
  <2> QED BY <2>1, <2>2
<1>5. TaskFollowsGuest'
  BY <1>1, <1>4 DEF IInv, TaskFollowsGuest
<1> QED BY <1>1, <1>3, <1>5 DEF IInv, Prompt

(* The task interrupts.                                                    *)
LEMMA FireKept ==
  ASSUME IInv, Fire
  PROVE  IInv'
<1>1. /\ at = "fire" /\ at' = "recv"
      /\ state' = AfterFiring(state)
      /\ stale' = IF channel = <<>> THEN stale ELSE stale + 1
      /\ UNCHANGED <<last, channel>>
  BY DEF Fire, regVars
<1>2. state \in ArmedState
  BY <1>1 DEF IInv
<1>3. state' \in TaskState
  BY <1>1, <1>2, FiringKept
<1>4. Prompt'
  BY <1>1 DEF IInv, Prompt
<1>5. TaskFollowsGuest'
  <2>1. CASE channel # <<>>
    BY <1>1, <2>1 DEF IInv, TaskFollowsGuest, Latest
  <2>2. CASE channel = <<>>
    <3>1. Latest = state /\ Latest' = AfterFiring(state)
      BY <1>1, <2>2 DEF Latest
    <3>2. Plan(state) = Plan(last)
      BY <1>2, <3>1 DEF IInv, TaskFollowsGuest, ArmedState, Disabled
    <3>3. last.mode = state.mode
      BY <1>2, <3>2 DEF IInv, Plan, TaskState, ArmedState, Disabled
    <3> QED BY <1>1, <1>2, <3>1, <3>2, <3>3, FiringKept DEF TaskFollowsGuest
  <2> QED BY <2>1, <2>2
<1> QED BY <1>1, <1>3, <1>4, <1>5 DEF IInv

(* Every step keeps the invariant.                                         *)
LEMMA Inductive ==
  ASSUME IInv, [Next]_vars
  PROVE  IInv'
<1>1. CASE Tick
  BY <1>1, TickKept
<1>2. CASE ReadVal \/ UNCHANGED vars
  BY <1>2 DEF ReadVal, vars, regVars, taskVars, IInv, Prompt, TaskFollowsGuest, Latest
<1>3. ASSUME NEW e \in BOOLEAN, NEW r \in BOOLEAN, NEW n \in Counters, WriteConfig(e, r, n)
      PROVE  IInv'
  <2>1. Armed(IF r THEN "repeating" ELSE "oneshot", n) \in TaskState /\ Disabled \in TaskState
    BY ArmedKept, CfgTimerAssumption DEF TaskState
  <2>2. UNCHANGED taskVars
    BY <1>3 DEF WriteConfig
  <2>3. CASE e /\ ~enable
    BY <1>3, <2>1, <2>2, <2>3, SendKept DEF WriteConfig
  <2>4. CASE ~e
    BY <1>3, <2>1, <2>2, <2>4, SendKept DEF WriteConfig
  <2>5. CASE e /\ enable
    <3>1. UNCHANGED <<channel, last, stale>>
      BY <1>3, <2>5 DEF WriteConfig
    <3> QED BY <2>2, <3>1 DEF taskVars, IInv, Prompt, TaskFollowsGuest, Latest
  <2> QED BY <2>3, <2>4, <2>5
<1>4. CASE Receive
  BY <1>4, ReceiveKept
<1>5. CASE PollTimer \/ PollAgain
  BY <1>5 DEF PollTimer, PollAgain, regVars, IInv, Prompt, TaskFollowsGuest, Latest
<1>6. CASE Ready
  <2>1. state \in ArmedState
    BY <1>6 DEF Ready, IsDue, IInv, TaskState, Disabled
  <2> QED BY <1>6, <2>1 DEF Ready, regVars, IInv, Prompt, TaskFollowsGuest, Latest
<1>7. CASE Fire
  BY <1>7, FireKept
<1> QED BY <1>1, <1>2, <1>3, <1>4, <1>5, <1>6, <1>7 DEF Next, Task

(* The interrupter task of cfg_timer.rs, for any periods and any delay:    *)
(* after the guest has sent a new state at most one old interrupt arrives; *)
(* the task ends up in the guest's last state; and a repeating timer       *)
(* neither drifts nor drops a period.                                      *)
THEOREM TaskIsFaithful == Spec => [](OneStaleInterrupt /\ TaskFollowsGuest /\ NoPeriodLost)
<1>1. Init => IInv
  BY DEF Init, IInv, TaskState, Prompt, TaskFollowsGuest, Latest
<1>2. IInv /\ [Next]_vars => IInv'
  BY Inductive
<1>3. IInv => OneStaleInterrupt /\ TaskFollowsGuest /\ NoPeriodLost
  <2> SUFFICES ASSUME IInv PROVE OneStaleInterrupt /\ TaskFollowsGuest /\ NoPeriodLost
    OBVIOUS
  <2>1. NoPeriodLost
    BY DEF IInv, NoPeriodLost, TaskState, ArmedState, Kept, Disabled
  <2> QED BY <2>1 DEF IInv, Prompt, OneStaleInterrupt
<1> QED BY <1>1, <1>2, <1>3, PTL DEF Spec

-------------------------------------------------------------------------------
(* A deadline in its range, in a period that has not ended yet.            *)
InRange(s) == /\ s.period \in Counters
              /\ s.left \in -MaxLag .. s.period
              /\ s.due \in Nat
              /\ s.period = 0 => s.beat = 0 /\ s.due = 0
              /\ s.period > 0 => s.beat < s.period
Typed(s) == s \in TaskState /\ (s # Disabled => InRange(s))

(* TypeOK with what it needs: the task fires only when a deadline is past, *)
(* and then a period has ended that has not interrupted.                   *)
TypeInv == /\ counter \in Counters \cup {0}
           /\ repeat \in BOOLEAN /\ enable \in BOOLEAN /\ irq \in BOOLEAN
           /\ Typed(last) /\ Typed(state)
           /\ Len(channel) <= MaxQueue
           /\ \A i \in DOMAIN channel : Typed(channel[i])
           /\ at = "fire" => state.left <= 0

(* A new deadline is one period ahead.                                     *)
LEMMA ArmedTyped ==
  ASSUME NEW m \in {"oneshot", "repeating"}, NEW p \in Counters
  PROVE  Typed(Armed(m, p))
<1>1. p \in Nat /\ MaxLag \in Nat
  BY CfgTimerAssumption
<1>2. Armed(m, p) \in TaskState
  BY <1>1, ArmedKept DEF TaskState
<1> QED BY <1>1, <1>2 DEF Typed, InRange, Armed

(* A tick that no deadline is too late for.                                *)
LEMMA ElapseTyped ==
  ASSUME NEW s, Typed(s), OnTime(s)
  PROVE  Typed(Elapse(s)) /\ (s # Disabled /\ s.left <= 0 => Elapse(s).left <= 0)
<1>1. CASE s = Disabled
  BY <1>1, ElapseKept DEF Typed
<1>2. CASE s # Disabled
  <2> DEFINE turn == s.period > 0 /\ s.beat + 1 = s.period
             e == Elapse(s)
  <2>1. /\ s \in ArmedState /\ InRange(s) /\ MaxLag \in Nat /\ s.left > -MaxLag
        /\ s.period \in Nat /\ s.left \in Int /\ s.beat \in Nat /\ s.due \in Nat
    BY <1>2, CfgTimerAssumption DEF Typed, TaskState, ArmedState, InRange, OnTime
  <2>2. /\ e.period = s.period
        /\ e.left = IF s.period = 0 THEN 0 ELSE s.left - 1
        /\ e.beat = IF s.period = 0 \/ turn THEN 0 ELSE s.beat + 1
        /\ e.due = IF turn THEN s.due + 1 ELSE s.due
    BY <2>1 DEF Elapse, ArmedState
  <2>3. e \in TaskState
    BY <2>1, ElapseKept DEF TaskState
  <2> HIDE DEF e
  <2>4. InRange(e)
    BY <2>1, <2>2 DEF InRange
  <2>5. s.left <= 0 => e.left <= 0
    BY <2>1, <2>2
  <2> QED BY <2>3, <2>4, <2>5 DEF Typed, e
<1> QED BY <1>1, <1>2

(* An interrupt takes one of the ended periods: there is one.              *)
LEMMA FiringTyped ==
  ASSUME NEW s \in ArmedState, Typed(s), s.left <= 0
  PROVE  Typed(AfterFiring(s))
<1>1. AfterFiring(s) \in TaskState
  BY FiringKept
<1>2. CASE s.mode = "oneshot"
  BY <1>1, <1>2 DEF AfterFiring, Typed
<1>3. CASE s.mode # "oneshot"
  <2> DEFINE e == AfterFiring(s)
  <2>1. /\ InRange(s) /\ MaxLag \in Nat /\ s.period \in Nat /\ s.left \in Int
        /\ s.beat \in Nat /\ s.due \in Nat
    BY CfgTimerAssumption DEF Typed, ArmedState, InRange, Disabled
  <2>2. /\ e.period = s.period /\ e.left = s.left + s.period /\ e.beat = s.beat
        /\ e.due = IF s.period = 0 THEN 0 ELSE s.due - 1
    BY <1>3 DEF AfterFiring, ArmedState
  <2>3. s.period > 0 => s.due # 0
    <3> SUFFICES ASSUME s.period > 0, s.due = 0 PROVE FALSE
      OBVIOUS
    <3>1. s.left = s.period - s.beat
      BY <2>1 DEF ArmedState, Kept
    <3> QED BY <2>1, <3>1 DEF InRange
  <2> HIDE DEF e
  <2>4. InRange(e)
    BY <2>1, <2>2, <2>3 DEF InRange
  <2> QED BY <1>1, <2>4 DEF Typed, e
<1> QED BY <1>2, <1>3

(* Every step keeps the types.                                             *)
LEMMA TypeStep ==
  ASSUME IInv, TypeInv, [Next]_vars
  PROVE  TypeInv'
<1>0. channel \in Seq(TaskState)
  BY DEF IInv
<1>1. CASE Tick
  <2>1. OnTime(state) /\ \A i \in DOMAIN channel : OnTime(channel[i])
    BY <1>1 DEF Tick
  <2>2. /\ state' = Elapse(state) /\ UNCHANGED <<counter, repeat, enable, irq, last, at>>
        /\ channel' = [i \in DOMAIN channel |-> Elapse(channel[i])]
    BY <1>1 DEF Tick, regVars
  <2>3. Typed(state') /\ (state # Disabled /\ state.left <= 0 => state'.left <= 0)
    BY <2>1, <2>2, ElapseTyped DEF TypeInv
  <2>4. at = "fire" => state # Disabled
    BY DEF IInv, ArmedState, Disabled
  <2>5. \A i \in DOMAIN channel : Typed(Elapse(channel[i]))
    BY <2>1, ElapseTyped DEF TypeInv
  <2>6. DOMAIN channel' = DOMAIN channel /\ Len(channel') = Len(channel)
    BY <1>0, <2>2
  <2>7. \A i \in DOMAIN channel' : Typed(channel'[i])
    BY <2>2, <2>5, <2>6
  <2>8. Typed(last')
    BY <2>2 DEF TypeInv
  <2> QED BY <2>2, <2>3, <2>4, <2>6, <2>7, <2>8 DEF TypeInv
<1>2. ASSUME NEW s, Typed(s), Send(s), UNCHANGED <<state, at>>,
             counter' \in Counters \cup {0}, repeat' \in BOOLEAN, enable' \in BOOLEAN, irq' = irq
      PROVE  TypeInv'
  <2>1. Len(channel) < MaxQueue /\ channel' = Append(channel, s) /\ last' = s
    BY <1>2 DEF Send
  <2>2. s \in TaskState
    BY <1>2 DEF Typed
  <2>3. Len(channel') <= MaxQueue /\ DOMAIN channel' = 1 .. Len(channel) + 1
    BY <1>0, <2>1, <2>2, CfgTimerAssumption
  <2>4. \A i \in DOMAIN channel' : channel'[i] = s \/ (i \in DOMAIN channel /\ channel'[i] = channel[i])
    BY <1>0, <2>1, <2>2, <2>3
  <2>5. \A i \in DOMAIN channel' : Typed(channel'[i])
    BY <1>2, <2>4 DEF TypeInv
  <2>6. Typed(state') /\ Typed(last')
    BY <1>2, <2>1 DEF TypeInv
  <2> QED BY <1>2, <2>3, <2>5, <2>6 DEF TypeInv
<1>3. ASSUME NEW e \in BOOLEAN, NEW r \in BOOLEAN, NEW n \in Counters, WriteConfig(e, r, n)
      PROVE  TypeInv'
  <2>1. Typed(Armed(IF r THEN "repeating" ELSE "oneshot", n)) /\ Typed(Disabled)
    BY ArmedTyped DEF Typed, TaskState
  <2>2. counter' = n /\ repeat' = r /\ enable' = e /\ UNCHANGED <<state, at, irq>>
    BY <1>3 DEF WriteConfig, taskVars
  <2>3. CASE e /\ ~enable
    BY <1>2, <1>3, <2>1, <2>2, <2>3 DEF WriteConfig
  <2>4. CASE ~e
    BY <1>2, <1>3, <2>1, <2>2, <2>4 DEF WriteConfig
  <2>5. CASE e /\ enable
    <3>1. UNCHANGED <<channel, last>>
      BY <1>3, <2>5 DEF WriteConfig
    <3> QED BY <2>2, <3>1 DEF TypeInv
  <2> QED BY <2>3, <2>4, <2>5
<1>4. CASE Receive
  <2>1. /\ channel # <<>> /\ at = "recv" /\ state' = Head(channel) /\ channel' = Tail(channel)
        /\ UNCHANGED <<counter, repeat, enable, irq, last, at>>
    BY <1>4 DEF Receive, regVars
  <2>2. /\ 1 \in DOMAIN channel /\ state' = channel[1] /\ Len(channel') = Len(channel) - 1
        /\ \A i \in DOMAIN channel' : i + 1 \in DOMAIN channel /\ channel'[i] = channel[i + 1]
    BY <1>0, <2>1
  <2>3. Typed(state') /\ \A i \in DOMAIN channel' : Typed(channel'[i])
    BY <2>2 DEF TypeInv
  <2>4. Len(channel') <= MaxQueue
    BY <1>0, <2>2, CfgTimerAssumption DEF TypeInv
  <2> QED BY <2>1, <2>3, <2>4 DEF TypeInv
<1>5. CASE Fire
  <2>1. /\ at = "fire" /\ at' = "recv" /\ irq' = TRUE /\ state' = AfterFiring(state)
        /\ UNCHANGED <<counter, repeat, enable, last, channel>>
    BY <1>5 DEF Fire, regVars
  <2>2. state \in ArmedState /\ state.left <= 0 /\ Typed(state)
    BY <2>1 DEF IInv, TypeInv
  <2>3. Typed(state')
    BY <2>1, <2>2, FiringTyped
  <2> QED BY <2>1, <2>3 DEF TypeInv
<1>6. CASE Ready
  BY <1>6 DEF Ready, regVars, IsDue, TypeInv
<1>7. CASE PollTimer \/ PollAgain \/ ReadVal \/ UNCHANGED vars
  BY <1>7 DEF PollTimer, PollAgain, ReadVal, vars, regVars, taskVars, TypeInv
<1> QED BY <1>1, <1>3, <1>4, <1>5, <1>6, <1>7 DEF Next, Task

(* The registers, messages and deadlines keep their types; of these, that  *)
(* "due" is a number says that a timer never interrupts before its time.   *)
THEOREM TypeCorrect == Spec => []TypeOK
<1>1. Init => IInv /\ TypeInv
  <2>1. Init => IInv
    BY DEF Init, IInv, TaskState, Prompt, TaskFollowsGuest, Latest
  <2>2. Init => TypeInv
    <3> SUFFICES ASSUME Init PROVE TypeInv
      OBVIOUS
    <3>1. Typed(last) /\ Typed(state)
      BY DEF Init, Typed, TaskState
    <3>2. Len(channel) = 0 /\ DOMAIN channel = {} /\ MaxQueue >= 0
      BY CfgTimerAssumption DEF Init
    <3> QED BY <3>1, <3>2 DEF Init, TypeInv
  <2> QED BY <2>1, <2>2
<1>2. IInv /\ TypeInv /\ [Next]_vars => (IInv /\ TypeInv)'
  BY Inductive, TypeStep
<1>3. IInv /\ TypeInv => TypeOK
  <2> SUFFICES ASSUME IInv, TypeInv PROVE TypeOK
    OBVIOUS
  <2>1. ASSUME NEW s, Typed(s) PROVE IsState(s)
    <3>1. CASE s = Disabled
      BY <3>1 DEF IsState
    <3>2. CASE s # Disabled
      <4>1. s \in ArmedState /\ InRange(s)
        BY <2>1, <3>2 DEF Typed, TaskState
      <4>2. s.period \in Nat /\ s.beat \in Nat /\ s.mode \in {"oneshot", "repeating"}
        BY <4>1 DEF ArmedState
      <4>3. s.beat \in 0 .. s.period
        BY <4>1, <4>2 DEF InRange
      <4> QED BY <4>1, <4>2, <4>3 DEF IsState, InRange
    <3> QED BY <3>1, <3>2
  <2>2. IsState(last) /\ IsState(state) /\ \A i \in DOMAIN channel : IsState(channel[i])
    BY <2>1 DEF TypeInv
  <2> QED BY <2>2 DEF TypeInv, TypeOK, IInv, Prompt
<1> QED BY <1>1, <1>2, <1>3, PTL DEF Spec
===============================================================================
