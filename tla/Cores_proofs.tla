----------------------------- MODULE Cores_proofs -----------------------------
(***************************************************************************)
(* Proofs about Cores, for any sources, control words, masks and mailbox   *)
(* words, and any bound on pending countdowns.                             *)
(***************************************************************************)
EXTENDS Cores, TLAPS

ControlWord == [flow : SUBSET Flow, source : {"none", "one", "many", "bit26"}]

(* The types of control words, of the mailbox and of the rest.             *)
ConType == /\ ctl \in [CpuIds -> ControlWord]
           /\ countdowns \in [CpuIds -> 0 .. MaxTasks]
MailType == /\ bell \subseteq CpuIds
            /\ bits \subseteq UNION MailWords
            /\ knows \in [CpuIds -> SUBSET UNION MailWords]
RestType == /\ mask \in [CpuIds -> SUBSET {"irq", "fiq"}]
            /\ enabled \in [CpuIds -> SUBSET Enables]
            /\ priority \in [CpuIds -> SUBSET Enables]
            /\ lines \subseteq Lo \cup Hi
            /\ phase \in DOMAIN After
            /\ halted \in BOOLEAN

(* Control words and countdowns; the mailbox and its interrupts.           *)
ConInv  == ConType /\ WaitIsCounted
MailInv == MailType /\ UnreadMeansRung

-------------------------------------------------------------------------------
(* A step that clears the flow bits of one core, and ends no countdown but *)
(* of that core, keeps waits counted.                                      *)
LEMMA ClearedFlow ==
  ASSUME ConInv, NEW c \in CpuIds, ctl' = [ctl EXCEPT ![c].flow = {}],
         \A d \in CpuIds : d # c => countdowns'[d] = countdowns[d],
         countdowns' \in [CpuIds -> 0 .. MaxTasks], halted' = halted
  PROVE  ConInv'
<1>1. ctl' \in [CpuIds -> ControlWord]
  BY DEF ConInv, ConType, ControlWord, Flow
<1>2. ctl'[c].flow = {}
  BY DEF ConInv, ConType, ControlWord
<1>3. ~Counts(ctl'[c])
  BY <1>2 DEF Counts
<1>4. \A d \in CpuIds : d # c => ctl'[d] = ctl[d]
  BY DEF ConInv, ConType
<1>5. WaitIsCounted'
  BY <1>3, <1>4 DEF WaitIsCounted, ConInv, Counts
<1> QED BY <1>1, <1>5 DEF ConInv, ConType

(* Every step keeps waits counted: only a write starts one, with its own   *)
(* countdown, and a countdown that expires ends the wait.                  *)
LEMMA ConStep ==
  ASSUME ConInv, [Next]_vars
  PROVE  ConInv'
<1> USE CoresAssumption
<1>1. ASSUME UNCHANGED conVars, halted => halted' PROVE ConInv'
  BY <1>1 DEF conVars, ConInv, ConType, WaitIsCounted, Counts
<1>2. ASSUME NEW c \in CpuIds, Instruction(c) PROVE ConInv'
  <2>1. CASE Compute(c) \/ SetMask(c) \/ WriteIntCon(c) \/ ReadMail(c) \/ WriteMail(c)
    BY <1>1, <2>1 DEF Compute, SetMask, WriteIntCon, ReadMail, WriteMail
  <2>2. CASE BadAccess(c)
    BY <1>1, <2>2 DEF BadAccess
  <2>3. CASE WriteControl(c)
    <3>1. PICK t \in CpuIds, w \in ControlWords :
             /\ Counts(w) => countdowns[t] < MaxTasks
             /\ ctl' = [ctl EXCEPT ![t] = w]
             /\ countdowns' = [countdowns EXCEPT ![t] = IF Counts(w) THEN @ + 1 ELSE @]
             /\ halted' = Rejects(w)
      BY <2>3 DEF WriteControl
    <3>2. ~halted
      BY <2>3 DEF WriteControl, Turn, Advance
    <3>3. w \in ControlWord
      BY DEF ControlWord
    <3>4. ctl' \in [CpuIds -> ControlWord]
      BY <3>1, <3>3 DEF ConInv, ConType
    <3>5. countdowns' \in [CpuIds -> 0 .. MaxTasks]
      <4>1. countdowns[t] \in 0 .. MaxTasks
        BY DEF ConInv, ConType
      <4>2. (IF Counts(w) THEN countdowns[t] + 1 ELSE countdowns[t]) \in 0 .. MaxTasks
        BY <3>1, <4>1
      <4> QED BY <3>1, <4>2 DEF ConInv, ConType
    <3>6. ASSUME NEW d \in CpuIds, Counts(ctl'[d]) PROVE countdowns'[d] > 0
      <4>1. CASE d = t
        <5>1. Counts(w) /\ countdowns[t] \in 0 .. MaxTasks
          BY <3>1, <3>6, <4>1 DEF ConInv, ConType
        <5> QED BY <3>1, <4>1, <5>1 DEF ConInv, ConType
      <4>2. CASE d # t
        <5>1. ctl'[d] = ctl[d] /\ countdowns'[d] = countdowns[d]
          BY <3>1, <4>2 DEF ConInv, ConType
        <5> QED BY <3>2, <3>6, <5>1 DEF ConInv, WaitIsCounted
      <4> QED BY <4>1, <4>2
    <3> QED BY <3>4, <3>5, <3>6 DEF ConInv, ConType, WaitIsCounted
  <2> QED BY <1>2, <2>1, <2>2, <2>3 DEF Instruction
<1>3. ASSUME NEW c \in CpuIds, Skip(c) PROVE ConInv'
  BY <1>1, <1>3 DEF Skip
<1>4. ASSUME NEW c \in CpuIds, Interrupts(c) PROVE ConInv'
  <2>1. UNCHANGED <<countdowns, halted>>
    BY <1>4 DEF Interrupts
  <2>2. CASE ctl' = ctl
    BY <1>1, <2>1, <2>2 DEF conVars
  <2>3. CASE ctl' = [ctl EXCEPT ![c].flow = {}]
    BY <2>1, <2>3, ClearedFlow DEF ConInv, ConType
  <2> QED BY <1>4, <2>2, <2>3 DEF Interrupts
<1>5. ASSUME NEW c \in CpuIds, Expire(c) PROVE ConInv'
  <2>1. /\ countdowns[c] > 0
        /\ countdowns' = [countdowns EXCEPT ![c] = @ - 1]
        /\ ctl' = [ctl EXCEPT ![c].flow = {}]
        /\ halted' = halted
    BY <1>5 DEF Expire
  <2>2. countdowns' \in [CpuIds -> 0 .. MaxTasks]
    BY <2>1 DEF ConInv, ConType
  <2>3. \A d \in CpuIds : d # c => countdowns'[d] = countdowns[d]
    BY <2>1 DEF ConInv, ConType
  <2> QED BY <2>1, <2>2, <2>3, ClearedFlow
<1>6. CASE Devices \/ \E d \in Lo \cup Hi : Raise(d)
  BY <1>1, <1>6 DEF Devices, Raise
<1>7. CASE UNCHANGED vars
  BY <1>1, <1>7 DEF vars, conVars
<1> QED BY <1>2, <1>3, <1>4, <1>5, <1>6, <1>7 DEF Next, StepLoop

(* A core that waits for a countdown always has one pending, whatever the  *)
(* two cores write and whenever interrupts and countdowns arrive           *)
(* (cpucon.rs).                                                            *)
THEOREM WaitsAreCounted == Spec => []WaitIsCounted
<1>1. Init => ConInv
  BY CoresAssumption DEF Init, ConInv, ConType, WaitIsCounted, Counts, ControlWord, Flow
<1>2. ConInv /\ [Next]_vars => ConInv'
  BY ConStep
<1>3. ConInv => WaitIsCounted
  BY DEF ConInv
<1> QED BY <1>1, <1>2, <1>3, PTL DEF Spec

-------------------------------------------------------------------------------
(* A write makes the writer's picture follow the bits, if it was right, and*)
(* rings the other core; a read makes the reader's picture right.          *)
LEMMA MailStep ==
  ASSUME MailInv, [Next]_vars
  PROVE  MailInv'
<1>1. ASSUME UNCHANGED mailVars PROVE MailInv'
  BY <1>1 DEF mailVars, MailInv, MailType, UnreadMeansRung
<1>2. ASSUME NEW c \in CpuIds, ReadMail(c) PROVE MailInv'
  <2>1. /\ bell' = bell \ {c}
        /\ knows' = [knows EXCEPT ![c] = bits]
        /\ bits' = bits
    BY <1>2 DEF ReadMail
  <2> QED BY <2>1 DEF MailInv, MailType, UnreadMeansRung
<1>3. ASSUME NEW c \in CpuIds, WriteMail(c) PROVE MailInv'
  <2>1. bell' = bell \cup {Other(c)}
    BY <1>3 DEF WriteMail, Ring
  <2>2. PICK w \in MailWords :
           \/ bits' = bits \cup w /\ knows' = [knows EXCEPT ![c] = @ \cup w]
           \/ bits' = bits \ w    /\ knows' = [knows EXCEPT ![c] = @ \ w]
    BY <1>3 DEF WriteMail
  <2>3. w \subseteq UNION MailWords
    OBVIOUS
  <2>4. MailType'
    BY <2>1, <2>2, <2>3 DEF MailInv, MailType, Other, CpuIds
  <2>5. \A d \in CpuIds : d = c \/ d = Other(c)
    BY DEF CpuIds, Other
  <2>6. knows[c] = bits => knows'[c] = bits'
    BY <2>2 DEF MailInv, MailType
  <2>7. UnreadMeansRung'
    BY <2>1, <2>5, <2>6 DEF MailInv, UnreadMeansRung
  <2> QED BY <2>4, <2>7 DEF MailInv
<1>4. ASSUME NEW c \in CpuIds,
             \/ Compute(c) \/ SetMask(c) \/ WriteControl(c) \/ WriteIntCon(c)
             \/ BadAccess(c) \/ Skip(c) \/ Interrupts(c) \/ Expire(c)
      PROVE  MailInv'
  BY <1>1, <1>4 DEF Compute, SetMask, WriteControl, WriteIntCon, BadAccess, Skip,
                    Interrupts, Expire
<1>5. CASE Devices \/ (\E d \in Lo \cup Hi : Raise(d)) \/ UNCHANGED vars
  BY <1>1, <1>5 DEF Devices, Raise, vars, mailVars
<1> QED BY <1>2, <1>3, <1>4, <1>5 DEF Next, StepLoop, Instruction

(* No message is lost: a core whose picture of the mailbox bits is out of  *)
(* date has its mailbox interrupt asserted (mailbox.rs), for any words and *)
(* any interleaving of reads and writes.                                   *)
THEOREM NoMessageLost == Spec => []UnreadMeansRung
<1>1. Init => MailInv
  BY DEF Init, MailInv, MailType, UnreadMeansRung
<1>2. MailInv /\ [Next]_vars => MailInv'
  BY MailStep
<1>3. MailInv => UnreadMeansRung
  BY DEF MailInv
<1> QED BY <1>1, <1>2, <1>3, PTL DEF Spec

-------------------------------------------------------------------------------
(* The other variables keep their types.                                   *)
LEMMA RestStep ==
  ASSUME RestType, [Next]_vars
  PROVE  RestType'
<1> USE CoresAssumption DEF RestType
<1>1. ASSUME NEW p \in DOMAIN After, Advance(p) PROVE phase' \in DOMAIN After
  BY <1>1 DEF Advance, After
<1>2. ASSUME NEW c \in CpuIds, Instruction(c) PROVE RestType'
  <2>1. phase' \in DOMAIN After
    <3>1. Turn(c)
      BY <1>2 DEF Instruction, Compute, SetMask, WriteControl, WriteIntCon, ReadMail,
                  WriteMail, BadAccess
    <3>2. c \in DOMAIN After
      BY DEF After, CpuIds
    <3> QED BY <1>1, <3>1, <3>2 DEF Turn
  <2>2. CASE SetMask(c)
    BY <2>1, <2>2 DEF SetMask, intVars
  <2>3. CASE WriteControl(c)
    <3>1. UNCHANGED <<mask, enabled, priority, lines>>
      BY <2>3 DEF WriteControl, intVars
    <3>2. halted' \in BOOLEAN
      <4>1. PICK w \in ControlWords : halted' = Rejects(w)
        BY <2>3, Zenon DEF WriteControl
      <4> QED BY <4>1, Zenon DEF Rejects
    <3> QED BY <2>1, <3>1, <3>2
  <2>4. CASE WriteIntCon(c)
    BY <2>1, <2>4 DEF WriteIntCon
  <2>5. CASE Compute(c) \/ ReadMail(c) \/ WriteMail(c) \/ BadAccess(c)
    BY <2>1, <2>5 DEF Compute, ReadMail, WriteMail, BadAccess, intVars
  <2> QED BY <1>2, <2>2, <2>3, <2>4, <2>5 DEF Instruction
<1>3. ASSUME NEW c \in CpuIds, Skip(c) PROVE RestType'
  BY <1>1, <1>3 DEF Skip, intVars, After, CpuIds
<1>4. ASSUME NEW c \in CpuIds, Interrupts(c) PROVE RestType'
  <2>1. phase' \in DOMAIN After
    BY <1>1, <1>4 DEF Interrupts, After, CpuIds
  <2>2. ASSUME NEW m \in SUBSET {"irq", "fiq"}, NEW asked, NEW kind
        PROVE  Enter(m, asked, kind) \in SUBSET {"irq", "fiq"}
    BY DEF Enter, MaskAfter
  <2> DEFINE mid == Enter(mask[c], Requests(c, Routed(c).irq), "irq")
  <2>3. mask' = [mask EXCEPT ![c] = Enter(mid, Requests(c, Routed(c).fiq), "fiq")]
    BY <1>4 DEF Interrupts
  <2>4. mid \in SUBSET {"irq", "fiq"}
    BY <2>2
  <2>5. Enter(mid, Requests(c, Routed(c).fiq), "fiq") \in SUBSET {"irq", "fiq"}
    BY <2>2, <2>4
  <2>6. mask' \in [CpuIds -> SUBSET {"irq", "fiq"}]
    BY <2>3, <2>5
  <2> QED BY <1>4, <2>1, <2>6 DEF Interrupts, intVars
<1>5. ASSUME NEW c \in CpuIds, Expire(c) PROVE RestType'
  BY <1>5 DEF Expire, intVars
<1>6. ASSUME NEW d \in Lo \cup Hi, Raise(d) PROVE RestType'
  BY <1>6 DEF Raise, intVars
<1>7. CASE Devices
  BY <1>1, <1>7 DEF Devices, intVars, After
<1>8. CASE UNCHANGED vars
  BY <1>8 DEF vars
<1> QED BY <1>2, <1>3, <1>4, <1>5, <1>6, <1>7, <1>8 DEF Next, StepLoop

(* Every variable keeps its type; no countdown ends that was not started.  *)
THEOREM TypeCorrect == Spec => []TypeOK
<1>1. Init => ConInv /\ MailInv /\ RestType
  <2>1. Init => ConInv
    BY CoresAssumption DEF Init, ConInv, ConType, WaitIsCounted, Counts, ControlWord, Flow
  <2>2. Init => MailInv
    BY DEF Init, MailInv, MailType, UnreadMeansRung
  <2>3. Init => RestType
    BY DEF Init, RestType, After
  <2> QED BY <2>1, <2>2, <2>3
<1>2. ConInv /\ MailInv /\ RestType /\ [Next]_vars => (ConInv /\ MailInv /\ RestType)'
  BY ConStep, MailStep, RestStep
<1>3. ConInv /\ MailInv /\ RestType => TypeOK
  BY DEF ConInv, ConType, ControlWord, MailInv, MailType, RestType, TypeOK
<1> QED BY <1>1, <1>2, <1>3, PTL DEF Spec
===============================================================================
