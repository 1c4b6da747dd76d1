----------------------------- MODULE Signal_proofs -----------------------------
(***************************************************************************)
(* Proofs about Signal, for any lines, threads and handles.                *)
(*                                                                         *)
(* The argument: a call that is past its early return has seen the flag at *)
(* the value opposite to the one it wants, and while it runs no other call *)
(* can touch that line, because all handles of a line live on one thread.  *)
(* So the counter is moved exactly once per change of the flag.            *)
(***************************************************************************)
EXTENDS Signal, TLAPS

(* A call in progress works on a line of its own thread, and the flag is   *)
(* where the call's last step left it.                                     *)
CallsInOrder ==
  \A t \in Threads :
    /\ call[t] # Idle => \E h \in Handles : LineOf[h] = call[t].line /\ ThreadOf[h] = t
    /\ call[t].at = "loaded" => own[call[t].line] = (call[t].op # "assert")
    /\ call[t].at = "stored" => own[call[t].line] = (call[t].op = "assert")

IInv == TypeOK /\ CallsInOrder /\ CounterFollowsFlag /\ NoPanic

-------------------------------------------------------------------------------
(* The initial state is well typed.                                        *)
LEMMA InitType ==
  ASSUME Init
  PROVE  TypeOK
<1>1. call \in [Threads -> Calls]
  <2>1. Idle \in Calls
    BY Zenon DEF Calls
  <2> QED BY <2>1, Zenon DEF Init
<1>2. signal \in [Lines -> Int]
  BY DEF Init
<1>3. own \in [Lines -> BOOLEAN] /\ seen \in [Lines -> BOOLEAN]
  BY Zenon DEF Init
<1> QED BY <1>1, <1>2, <1>3 DEF Init, TypeOK

(* Every step keeps the types.                                              *)
LEMMA TypeStep ==
  ASSUME TypeOK, [Next]_vars
  PROVE  TypeOK'
<1> USE SignalAssumption DEF TypeOK
<1>1. ASSUME NEW h \in Handles, NEW op \in Uses[h], Load(h, op) PROVE TypeOK'
  <2>1. op \in {"assert", "clear"} /\ LineOf[h] \in Lines /\ ThreadOf[h] \in Threads
    BY <1>1
  <2>2. [at |-> "loaded", op |-> op, line |-> LineOf[h]] \in Calls
    BY <2>1 DEF Calls
  <2> QED BY <1>1, <2>1, <2>2 DEF Load, consumerVars
<1>2. ASSUME NEW t \in Threads, Store(t) PROVE TypeOK'
  <2>1. call[t] \in [at : {"loaded", "stored"}, op : {"assert", "clear"}, line : Lines]
    BY <1>2 DEF Store, Calls, Idle
  <2>2. [call[t] EXCEPT !.at = "stored"] \in Calls
    BY <2>1 DEF Calls
  <2>3. call' = [call EXCEPT ![t] = [call[t] EXCEPT !.at = "stored"]]
    BY <1>2 DEF Store
  <2>4. own' \in [Lines -> BOOLEAN]
    BY <1>2, <2>1 DEF Store
  <2> QED BY <1>2, <2>2, <2>3, <2>4 DEF Store, consumerVars
<1>3. ASSUME NEW t \in Threads, Count(t) PROVE TypeOK'
  <2>1. call[t] \in [at : {"loaded", "stored"}, op : {"assert", "clear"}, line : Lines]
    BY <1>3 DEF Count, Calls, Idle
  <2>2. [at |-> "counted", op |-> call[t].op, line |-> call[t].line,
         wasHigh |-> signal[call[t].line] # 0] \in Calls
    BY <2>1 DEF Calls
  <2>3. signal' \in [Lines -> Int]
    BY <1>3, <2>1 DEF Count
  <2>4. panicked' \in BOOLEAN
    <3>1. CASE call[t].op = "assert"
      BY <1>3, <3>1 DEF Count
    <3>2. CASE call[t].op # "assert"
      BY <1>3, <3>2 DEF Count
    <3> QED BY <3>1, <3>2
  <2>5. call' \in [Threads -> Calls]
    BY <1>3, <2>2 DEF Count
  <2>6. UNCHANGED <<own, trigger, seen, unread>>
    BY <1>3 DEF Count, consumerVars
  <2> QED BY <2>3, <2>4, <2>5, <2>6
<1>4. ASSUME NEW t \in Threads, Notify(t) PROVE TypeOK'
  <2>1. call' \in [Threads -> Calls]
    BY <1>4 DEF Notify, Calls, Idle
  <2>2. trigger' \in BOOLEAN
    BY <1>4 DEF Notify
  <2>3. UNCHANGED <<own, signal, panicked, seen, unread>>
    BY <1>4 DEF Notify, consumerVars
  <2>4. /\ own' \in [Lines -> BOOLEAN] /\ signal' \in [Lines -> Int]
        /\ panicked' \in BOOLEAN /\ seen' \in [Lines -> BOOLEAN]
        /\ unread' \subseteq Lines
    BY <2>3, Zenon
  <2> QED BY <2>1, <2>2, <2>4, Zenon
<1>5. CASE CheckAndClear
  BY <1>5 DEF CheckAndClear
<1>6. ASSUME NEW l \in Lines, Asserted(l) PROVE TypeOK'
  BY <1>6 DEF Asserted, lineVars, Level
<1>7. CASE UNCHANGED vars
  BY <1>7 DEF vars
<1> QED BY <1>1, <1>2, <1>3, <1>4, <1>5, <1>6, <1>7 DEF Next, Step, Consume

(* The variables keep their types through every call and poll, whoever     *)
(* shares the lines: the first half of every argument below.               *)
THEOREM TypeCorrect == Spec => []TypeOK
<1>1. Init => TypeOK
  BY InitType
<1>2. TypeOK /\ [Next]_vars => TypeOK'
  BY TypeStep
<1> QED BY <1>1, <1>2, PTL DEF Spec

-------------------------------------------------------------------------------
(* No two calls in progress work on the same line.                         *)
LEMMA LineIsMine ==
  ASSUME OneThreadPerLine, TypeOK, CallsInOrder,
         NEW s \in Threads, NEW t \in Threads, s # t,
         call[s].at # "idle", call[t].at # "idle"
  PROVE  call[s].line # call[t].line
<1>1. call[s] # Idle /\ call[t] # Idle
  BY DEF Idle
<1>2. PICK g \in Handles : LineOf[g] = call[s].line /\ ThreadOf[g] = s
  BY <1>1 DEF CallsInOrder
<1>3. PICK h \in Handles : LineOf[h] = call[t].line /\ ThreadOf[h] = t
  BY <1>1 DEF CallsInOrder
<1> QED BY <1>2, <1>3 DEF OneThreadPerLine

(* The inductive step of the argument.                                     *)
LEMMA Inductive ==
  ASSUME OneThreadPerLine, IInv, [Next]_vars
  PROVE  IInv'
<1> USE SignalAssumption DEF IInv
<1>1. TypeOK'
  BY TypeStep
<1>2. CallsInOrder' /\ CounterFollowsFlag' /\ NoPanic'
  <2>1. ASSUME NEW h \in Handles, NEW op \in Uses[h], Load(h, op)
        PROVE  CallsInOrder' /\ CounterFollowsFlag' /\ NoPanic'
    <3> DEFINE l == LineOf[h]
               t == ThreadOf[h]
    <3>1. l \in Lines /\ t \in Threads /\ op \in {"assert", "clear"}
      BY <2>1
    <3>2. UNCHANGED <<own, signal, panicked>>
      BY <2>1 DEF Load
    <3>3. CASE own[l] = (op = "assert")
      <4>1. UNCHANGED call
        BY <2>1, <3>3 DEF Load
      <4> QED BY <3>2, <4>1 DEF CallsInOrder, CounterFollowsFlag, Owing, NoPanic
    <3>4. CASE own[l] # (op = "assert")
      <4>1. call' = [call EXCEPT ![t] = [at |-> "loaded", op |-> op, line |-> l]]
        BY <2>1, <3>4 DEF Load
      <4>2. call[t].at = "idle"
        BY <2>1 DEF Load, Idle
      <4>3. CallsInOrder'
        BY <3>1, <3>2, <3>4, <4>1 DEF CallsInOrder, TypeOK
      <4>4. \A k \in Lines, o \in {"assert", "clear"} : Owing(k, o)' <=> Owing(k, o)
        BY <3>1, <4>1, <4>2 DEF Owing, TypeOK
      <4>5. CounterFollowsFlag'
        BY <3>2, <4>4 DEF CounterFollowsFlag
      <4> QED BY <3>2, <4>3, <4>5 DEF NoPanic
    <3> QED BY <3>3, <3>4
  <2>2. ASSUME NEW t \in Threads, Store(t)
        PROVE  CallsInOrder' /\ CounterFollowsFlag' /\ NoPanic'
    <3> DEFINE l == call[t].line
               up == call[t].op = "assert"
    <3>1. /\ call[t] \in [at : {"loaded"}, op : {"assert", "clear"}, line : Lines]
          /\ own' = [own EXCEPT ![l] = up]
          /\ call' = [call EXCEPT ![t].at = "stored"]
          /\ UNCHANGED <<signal, panicked>>
      BY <2>2 DEF Store, TypeOK, Calls, Idle
    <3>2. \A s \in Threads : s # t /\ call[s].at # "idle" => call[s].line # l
      BY <3>1, LineIsMine
    <3>3. CallsInOrder'
      BY <3>1, <3>2 DEF CallsInOrder, TypeOK, Calls, Idle
    <3>4. ~Owing(l, "assert") /\ ~Owing(l, "clear") /\ Owing(l, call[t].op)'
      BY <3>1, <3>2 DEF Owing, TypeOK
    <3>5. \A k \in Lines, o \in {"assert", "clear"} :
             (k # l \/ o # call[t].op) => (Owing(k, o)' <=> Owing(k, o))
      BY <3>1 DEF Owing, TypeOK
    <3>6. CounterFollowsFlag'
      <4> SUFFICES ASSUME NEW k \in Lines
                   PROVE  signal'[k] = IF Owing(k, "assert")' THEN 0
                                       ELSE IF Owing(k, "clear")' THEN 1
                                       ELSE IF own'[k] THEN 1 ELSE 0
        BY DEF CounterFollowsFlag
      <4>1. CASE k # l
        BY <3>1, <3>5, <4>1 DEF CounterFollowsFlag, TypeOK
      <4>2. CASE k = l /\ up
        <5>1. ~own[l]
          BY <3>1, <4>2 DEF CallsInOrder
        <5> QED BY <3>1, <3>4, <3>5, <4>2, <5>1 DEF CounterFollowsFlag
      <4>3. CASE k = l /\ ~up
        <5>1. own[l]
          BY <3>1, <4>3 DEF CallsInOrder, TypeOK
        <5> QED BY <3>1, <3>4, <3>5, <4>3, <5>1 DEF CounterFollowsFlag
      <4> QED BY <4>1, <4>2, <4>3
    <3> QED BY <3>1, <3>3, <3>6 DEF NoPanic
  <2>3. ASSUME NEW t \in Threads, Count(t)
        PROVE  CallsInOrder' /\ CounterFollowsFlag' /\ NoPanic'
    <3> DEFINE l == call[t].line
               up == call[t].op = "assert"
    <3>1. /\ call[t] \in [at : {"stored"}, op : {"assert", "clear"}, line : Lines]
          /\ signal' = [signal EXCEPT ![l] = IF up THEN signal[l] + 1 ELSE signal[l] - 1]
          /\ panicked' = (IF up THEN signal[l] < 0 ELSE signal[l] <= 0)
          /\ call' = [call EXCEPT ![t] = [at |-> "counted", op |-> call[t].op, line |-> l,
                                          wasHigh |-> signal[l] # 0]]
          /\ UNCHANGED own
      BY <2>3 DEF Count, TypeOK, Calls, Idle
    <3>2. \A s \in Threads : s # t /\ call[s].at # "idle" => call[s].line # l
      BY <3>1, LineIsMine
    <3>3. CallsInOrder'
      BY <3>1, <3>2 DEF CallsInOrder, TypeOK, Calls, Idle
    <3>4. Owing(l, call[t].op) /\ ~Owing(l, "assert")' /\ ~Owing(l, "clear")'
      BY <3>1, <3>2 DEF Owing, TypeOK
    <3>5. \A k \in Lines, o \in {"assert", "clear"} :
             k # l => (Owing(k, o)' <=> Owing(k, o))
      BY <3>1 DEF Owing, TypeOK
    <3>6. \A o \in {"assert", "clear"} : o # call[t].op => ~Owing(l, o)
      BY <3>1, <3>2 DEF Owing
    <3>7. own[l] = up
      BY <3>1 DEF CallsInOrder
    <3>8. signal[l] = IF up THEN 0 ELSE 1
      BY <3>1, <3>4, <3>6 DEF CounterFollowsFlag
    <3>9. CounterFollowsFlag'
      <4> SUFFICES ASSUME NEW k \in Lines
                   PROVE  signal'[k] = IF Owing(k, "assert")' THEN 0
                                       ELSE IF Owing(k, "clear")' THEN 1
                                       ELSE IF own'[k] THEN 1 ELSE 0
        BY DEF CounterFollowsFlag
      <4>1. CASE k # l
        BY <3>1, <3>5, <4>1 DEF CounterFollowsFlag, TypeOK
      <4>2. CASE k = l
        BY <3>1, <3>4, <3>7, <3>8, <4>2 DEF TypeOK
      <4> QED BY <4>1, <4>2
    <3>10. ~(IF up THEN signal[l] < 0 ELSE signal[l] <= 0)
      BY <3>8
    <3>11. NoPanic'
      BY <3>1, <3>10, Zenon DEF NoPanic
    <3> QED BY <3>3, <3>9, <3>11
  <2>4. ASSUME NEW t \in Threads, Notify(t)
        PROVE  CallsInOrder' /\ CounterFollowsFlag' /\ NoPanic'
    <3>1. UNCHANGED <<own, signal, panicked>> /\ call' = [call EXCEPT ![t] = Idle] /\ call[t].at = "counted"
      BY <2>4 DEF Notify
    <3>2. CallsInOrder'
      BY <3>1 DEF CallsInOrder, TypeOK, Idle
    <3>3. \A k \in Lines, o \in {"assert", "clear"} : Owing(k, o)' <=> Owing(k, o)
      BY <3>1 DEF Owing, TypeOK, Idle
    <3>4. CounterFollowsFlag'
      BY <3>1, <3>3 DEF CounterFollowsFlag
    <3> QED BY <3>1, <3>2, <3>4 DEF NoPanic
  <2>5. CASE Consume \/ UNCHANGED vars
    <3>1. UNCHANGED <<own, signal, call, panicked>>
      BY <2>5 DEF Consume, CheckAndClear, Asserted, lineVars, vars
    <3> QED BY <3>1 DEF CallsInOrder, CounterFollowsFlag, Owing, NoPanic
  <2> QED BY <2>1, <2>2, <2>3, <2>4, <2>5 DEF Next, Step
<1> QED BY <1>1, <1>2

(* Nobody is inside a call to begin with.                                  *)
LEMMA InitInv ==
  ASSUME Init
  PROVE  IInv
<1>1. TypeOK
  BY InitType
<1>2. CallsInOrder
  BY DEF Init, CallsInOrder, Idle
<1>3. CounterFollowsFlag
  BY DEF Init, CounterFollowsFlag, Owing, Idle
<1> QED BY <1>1, <1>2, <1>3 DEF Init, IInv, NoPanic

(* While every line is driven from one thread, no assert! of the code can  *)
(* fail, and a line's counter equals its flag whenever no call is between  *)
(* its store and its fetch_add or fetch_sub.                               *)
THEOREM LinesConsistent ==
  ASSUME OneThreadPerLine
  PROVE  Spec => [](NoPanic /\ CounterFollowsFlag)
<1>1. Init => IInv
  BY InitInv
<1>2. IInv /\ [Next]_vars => IInv'
  BY Inductive
<1>3. IInv => NoPanic /\ CounterFollowsFlag
  BY DEF IInv
<1> QED BY <1>1, <1>2, <1>3, PTL DEF Spec

-------------------------------------------------------------------------------
(* What the consumer is owed, before and after a step of a thread.  Storing*)
(* the flag announces nothing.                                             *)
LEMMA OwedKept ==
  ASSUME call \in [Threads -> Calls], NEW t \in Threads, NEW c,
         call[t].at # "counted", c.at # "counted",
         call' = [call EXCEPT ![t] = c], UNCHANGED <<trigger, unread>>
  PROVE  Owed' = Owed
<1>1. \A k \in Lines : Announcing(k)' <=> Announcing(k)
  BY DEF Announcing
<1> QED BY <1>1 DEF Owed

(* Reading a line tells the consumer its level and may settle the debt.    *)
LEMMA AssertedLearns ==
  ASSUME TypeOK, NEW l \in Lines, Asserted(l)
  PROVE  Watched!Learn(l)
<1>1. /\ l \in unread
      /\ seen' = [seen EXCEPT ![l] = Level(l)]
      /\ unread' = unread \ {l}
      /\ UNCHANGED <<signal, trigger, call>>
  BY DEF Asserted, lineVars
<1>2. \A k \in Lines : (Announcing(k)' <=> Announcing(k)) /\ (Level(k)' <=> Level(k))
  BY <1>1 DEF Announcing, Level
<1>3. Owed' \in {Owed, Owed \ {l}}
  <2>1. CASE trigger \/ Announcing(l)
    BY <1>1, <1>2, <2>1 DEF Owed
  <2>2. CASE ~(trigger \/ Announcing(l))
    BY <1>1, <1>2, <2>2 DEF Owed
  <2> QED BY <2>1, <2>2
<1>4. l \in Owed
  BY <1>1 DEF Owed
<1>5. [k \in Lines |-> Level(k)]' = [k \in Lines |-> Level(k)]
  BY <1>1 DEF Level
<1>6. seen' = [seen EXCEPT ![l] = [k \in Lines |-> Level(k)][l]]
  BY <1>1
<1> QED BY <1>3, <1>4, <1>5, <1>6 DEF Watched!Learn

(* Moving the counter changes the level, and the call is then about to tell*)
(* the consumer of it.                                                     *)
LEMMA CountChanges ==
  ASSUME OneThreadPerLine, IInv, Kind = "Edge", NEW t \in Threads, Count(t)
  PROVE  Watched!Change(call[t].line)
<1> DEFINE l == call[t].line
           up == call[t].op = "assert"
<1>1. /\ call[t] \in [at : {"stored"}, op : {"assert", "clear"}, line : Lines]
      /\ signal' = [signal EXCEPT ![l] = IF up THEN signal[l] + 1 ELSE signal[l] - 1]
      /\ call' = [call EXCEPT ![t] = [at |-> "counted", op |-> call[t].op, line |-> l,
                                      wasHigh |-> signal[l] # 0]]
      /\ UNCHANGED <<trigger, seen, unread>>
  BY DEF Count, IInv, TypeOK, Calls, Idle, consumerVars
<1>2. signal[l] = IF up THEN 0 ELSE 1
  <2>1. Owing(l, call[t].op)
    BY <1>1 DEF Owing
  <2>2. ~up => ~Owing(l, "assert")
    BY <1>1, LineIsMine DEF Owing, IInv
  <2> QED BY <1>1, <2>1, <2>2 DEF IInv, CounterFollowsFlag
<1>3. \A k \in Lines : Level(k)' <=> (IF k = l THEN ~Level(k) ELSE Level(k))
  BY <1>1, <1>2 DEF Level, IInv, TypeOK
<1>4. \A k \in Lines : Announcing(k)' <=> (k = l \/ Announcing(k))
  <2>1. call'[t].at = "counted" /\ call'[t].line = l /\ call'[t].op = call[t].op
    BY <1>1 DEF IInv, TypeOK
  <2>2. call'[t].wasHigh # up
    BY <1>1, <1>2 DEF IInv, TypeOK
  <2>3. Announcing(l)'
    BY <2>1, <2>2 DEF Announcing, Fires
  <2>4. \A s \in Threads : s # t => call'[s] = call[s]
    BY <1>1 DEF IInv, TypeOK
  <2> QED BY <1>1, <2>1, <2>3, <2>4 DEF Announcing
<1>5. Owed' = Owed \cup {l}
  BY <1>1, <1>4 DEF Owed
<1>6. [k \in Lines |-> Level(k)]' = [[k \in Lines |-> Level(k)] EXCEPT ![l] = ~[k \in Lines |-> Level(k)][l]]
  <2>1. \A k \in Lines : (signal'[k] # 0) = (IF k = l THEN ~(signal[k] # 0) ELSE signal[k] # 0)
    BY <1>1, <1>3 DEF Level
  <2>2. [k \in Lines |-> Level(k)]' = [k \in Lines |-> IF k = l THEN ~Level(k) ELSE Level(k)]
    BY <2>1, Zenon DEF Level
  <2>3. [[k \in Lines |-> Level(k)] EXCEPT ![l] = ~[k \in Lines |-> Level(k)][l]]
          = [k \in Lines |-> IF k = l THEN ~Level(k) ELSE Level(k)]
    BY <1>1, Zenon
  <2> QED BY <2>2, <2>3
<1> QED BY <1>1, <1>5, <1>6 DEF Watched!Change

(* Updating the trigger keeps every debt.                                  *)
LEMMA NotifyReminds ==
  ASSUME TypeOK, NEW t \in Threads, Notify(t)
  PROVE  Watched!Remind
<1>1. /\ call[t].at = "counted"
      /\ trigger' = (trigger \/ Fires(call[t].wasHigh, call[t].op = "assert"))
      /\ call' = [call EXCEPT ![t] = Idle]
      /\ UNCHANGED <<signal, seen, unread>>
  BY DEF Notify, consumerVars
<1>2. Owed \subseteq Owed'
  <2>1. CASE trigger'
    BY <2>1 DEF Owed
  <2>2. CASE ~trigger'
    <3>1. \A k \in Lines : Announcing(k) => Announcing(k)'
      BY <1>1, <2>2 DEF Announcing, TypeOK
    <3> QED BY <1>1, <2>2, <3>1 DEF Owed
  <2> QED BY <2>1, <2>2
<1>3. Owed' \subseteq Lines
  BY DEF Owed
<1>4. [k \in Lines |-> Level(k)]' = [k \in Lines |-> Level(k)]
  BY <1>1 DEF Level
<1> QED BY <1>1, <1>2, <1>3, <1>4 DEF Watched!Remind

(* Every step of the lines is a step of WatchedLines, or leaves what the   *)
(* consumer can tell apart as it is.                                       *)
LEMMA StepIsWatched ==
  ASSUME OneThreadPerLine, IInv, Kind = "Edge", [Next]_vars
  PROVE  [Watched!WNext]_(Watched!wvars)
<1> USE SignalAssumption DEF IInv
<1>1. ASSUME NEW h \in Handles, NEW op \in Uses[h], Load(h, op)
      PROVE  UNCHANGED Watched!wvars
  <2>1. UNCHANGED <<signal, seen, trigger, unread>>
    BY <1>1 DEF Load, consumerVars
  <2>2. Owed' = Owed
    <3>1. CASE call' = call
      BY <2>1, <3>1 DEF Owed, Announcing
    <3>2. CASE call' # call
      <4> DEFINE c == [at |-> "loaded", op |-> op, line |-> LineOf[h]]
      <4>1. ThreadOf[h] \in Threads /\ call[ThreadOf[h]].at # "counted"
        BY <1>1 DEF Load, Idle
      <4>2. call' = [call EXCEPT ![ThreadOf[h]] = c]
        BY <1>1, <3>2 DEF Load
      <4>3. c.at # "counted"
        OBVIOUS
      <4> QED BY <2>1, <4>1, <4>2, <4>3, OwedKept DEF TypeOK
    <3> QED BY <3>1, <3>2
  <2> QED BY <2>1, <2>2 DEF Watched!wvars, Level
<1>2. ASSUME NEW t \in Threads, Store(t) PROVE UNCHANGED Watched!wvars
  <2> DEFINE c == [call[t] EXCEPT !.at = "stored"]
  <2>1. call[t].at # "counted" /\ UNCHANGED <<signal, seen, trigger, unread>>
    BY <1>2 DEF Store, consumerVars
  <2>2. call' = [call EXCEPT ![t] = c]
    BY <1>2 DEF Store
  <2>3. c.at # "counted"
    <3>1. call[t] \in [at : {"loaded", "stored"}, op : {"assert", "clear"}, line : Lines]
      BY <1>2 DEF Store, Calls, Idle, TypeOK
    <3> QED BY <3>1
  <2>4. Owed' = Owed
    BY <2>1, <2>2, <2>3, OwedKept DEF TypeOK
  <2> QED BY <2>1, <2>4 DEF Watched!wvars, Level
<1>3. ASSUME NEW t \in Threads, Count(t) PROVE Watched!WNext
  <2>1. call[t].line \in Lines
    BY <1>3 DEF Count, Calls, Idle, TypeOK
  <2> QED BY <1>3, <2>1, CountChanges DEF Watched!WNext
<1>4. ASSUME NEW t \in Threads, Notify(t) PROVE Watched!WNext
  BY <1>4, NotifyReminds DEF Watched!WNext
<1>5. CASE CheckAndClear
  <2>1. Owed = Lines /\ Owed' = Lines
    BY <1>5 DEF CheckAndClear, Owed
  <2> QED BY <1>5, <2>1 DEF CheckAndClear, Watched!wvars, Level
<1>6. ASSUME NEW l \in Lines, Asserted(l) PROVE Watched!WNext
  BY <1>6, AssertedLearns DEF Watched!WNext
<1>7. CASE UNCHANGED vars
  <2>1. Owed' = Owed
    BY <1>7 DEF vars, Owed, Announcing
  <2> QED BY <1>7, <2>1 DEF vars, Watched!wvars, Level
<1> QED BY <1>1, <1>2, <1>3, <1>4, <1>5, <1>6, <1>7 DEF Next, Step, Consume

(* Lines behind an Edge trigger keep the abstract promise: their consumer  *)
(* never holds a stale level without being owed another look.              *)
THEOREM ImplementsWatchedLines ==
  ASSUME OneThreadPerLine, Kind = "Edge"
  PROVE  Spec => KeepsPromise
<1>1. Init => IInv
  BY InitInv
<1>2. IInv /\ [Next]_vars => IInv'
  BY Inductive
<1>3. Init => Watched!WInit
  <2> SUFFICES ASSUME Init PROVE Watched!WInit
    OBVIOUS
  <2>1. [l \in Lines |-> Level(l)] = [l \in Lines |-> FALSE]
    BY DEF Init, Level
  <2>2. Owed = {}
    BY DEF Init, Owed, Announcing, Idle
  <2> QED BY <2>1, <2>2 DEF Init, Watched!WInit
<1>4. IInv /\ [Next]_vars => [Watched!WNext]_(Watched!wvars)
  BY StepIsWatched
<1> QED BY <1>1, <1>2, <1>3, <1>4, PTL DEF Spec, KeepsPromise, Watched!WSpec
===============================================================================
