------------------------------- MODULE Debugger --------------------------------
(***************************************************************************)
(* The desktop program around the emulated system: the emulator's thread   *)
(* of main.rs, which runs the system bare or hands it to a GDB stub; the   *)
(* stub's target (sys/ipod4g/gdb.rs), which steps the system and holds the *)
(* breakpoints and watchpoints; and the UI on the main thread, which ends  *)
(* when its window is closed or when the emulator's thread tells it to     *)
(* through a channel (backends/minifb.rs).                                 *)
(*                                                                         *)
(* The gdbstub crate is external: a session is any sequence of requests.   *)
(***************************************************************************)
EXTENDS Integers, SequencesExt

CONSTANTS
  Addrs,       \* addresses the user puts points on
  MaxPoints,   \* bound: breakpoints, and watchpoints, at a time
  None         \* Option::None

Configs == {None} \cup [onStart : BOOLEAN, onFatalErr : BOOLEAN]

VARIABLES
  gdb,           \* the --gdb argument
  thread,        \* where the emulator's thread is in main's closure
  connected,     \* debugger.is_some()
  resume,        \* what the target is doing for GDB, None between requests
  stop,          \* the last reason it gave GDB for having stopped
  singleStepIrq, \* Ipod4gGdb::single_step_irq
  skipIrqCheck,  \* Ipod4g::skip_irq_check
  frozen,        \* Ipod4g::frozen
  breakpoints, watchpoints, watchKinds,
  channel,       \* of the kill message: empty, sent, or its sender dropped
  window,        \* the UI loop: open or closed
  aborted        \* the thread's send found no receiver

pointVars == <<breakpoints, watchpoints, watchKinds>>
sysVars   == <<skipIrqCheck, frozen>>
uiVars    == <<channel, window, aborted>>
dbgVars   == <<gdb, thread, connected, resume, stop, singleStepIrq, sysVars, pointVars, uiVars>>

(* GdbCfg::from_str: "on-fatal-err" takes on_start away unless it is given *)
(* too, so some option is always set.                                      *)
Init == /\ gdb \in Configs
        /\ gdb # None => gdb.onStart \/ gdb.onFatalErr
        /\ thread = "starting" /\ connected = FALSE /\ resume = None /\ stop = "none"
        /\ singleStepIrq = FALSE /\ skipIrqCheck = FALSE /\ frozen = FALSE
        /\ breakpoints = <<>> /\ watchpoints = <<>> /\ watchKinds = <<>>
        /\ channel = "empty" /\ window = "open" /\ aborted = FALSE

-------------------------------------------------------------------------------
(* The closure of the emulator's thread                                    *)

Keep == UNCHANGED <<gdb, resume, stop, singleStepIrq, pointVars, window, aborted>>
InSession == thread \in {"session", "post-mortem session"}

Start == /\ thread = "starting"
         /\ thread' = IF gdb # None /\ gdb.onStart THEN "connecting" ELSE "running"
         /\ Keep /\ UNCHANGED <<connected, sysVars, channel>>

(* make_gdbstub waits for a client; an I/O error leaves the closure with ?. *)
Connect == /\ \/ thread = "connecting" /\ thread' = "session"
              \/ thread = "post-mortem" /\ thread' = "post-mortem session"
           /\ connected' = TRUE
           /\ Keep /\ UNCHANGED <<sysVars, channel>>

(* Every early return drops kill_ui_tx with nothing sent.                  *)
Leave == /\ thread' = "ended"
         /\ channel' = "dropped"
         /\ Keep /\ UNCHANGED <<connected, sysVars>>

ConnectFails == thread \in {"connecting", "post-mortem"} /\ Leave

(* run(): a step that ends well asks for another, an error is fatal.       *)
RunFails == /\ thread = "running"
            /\ thread' = "dumping"
            /\ Keep /\ UNCHANGED <<connected, sysVars, channel>>

(* GDB detaches, kills the target, or the connection breaks.               *)
Detach == /\ InSession /\ resume = None
          /\ thread' = IF thread = "session" THEN "running" ELSE "sending"
          /\ Keep /\ UNCHANGED <<connected, sysVars, channel>>

KillTarget == /\ InSession /\ resume = None
              /\ IF thread = "session"
                 THEN Leave
                 ELSE /\ thread' = "sending"
                      /\ Keep /\ UNCHANGED <<connected, sysVars, channel>>

ConnectionBreaks == InSession /\ resume = None /\ Leave

(* The system's state is written to a file; then, if asked for, it is      *)
(* frozen and a post-mortem session opened.                                *)
DumpFails == thread = "dumping" /\ Leave

Dump == /\ thread = "dumping"
        /\ IF gdb # None /\ gdb.onFatalErr
           THEN /\ frozen' = TRUE
                /\ thread' = IF connected THEN "post-mortem session" ELSE "post-mortem"
           ELSE /\ thread' = "sending"
                /\ UNCHANGED frozen
        /\ Keep /\ UNCHANGED <<connected, skipIrqCheck, channel>>

(* kill_ui_tx.send().expect(): without a receiver the thread panics.       *)
SendKill == /\ thread = "sending"
            /\ thread' = "ended"
            /\ IF window = "open"
               THEN channel' = "sent" /\ UNCHANGED aborted
               ELSE aborted' = TRUE /\ UNCHANGED channel
            /\ UNCHANGED <<gdb, connected, resume, stop, singleStepIrq, sysVars, pointVars, window>>

-------------------------------------------------------------------------------
(* A session                                                               *)

Outside == UNCHANGED <<gdb, thread, connected, frozen, uiVars>>

(* MultiThreadOps::resume.  A single step keeps the interrupts away,       *)
(* unless the user asked for them.                                         *)
ResumeStep == /\ InSession /\ resume = None
              /\ resume' = "step"
              /\ skipIrqCheck' = (skipIrqCheck \/ ~singleStepIrq)
              /\ Outside /\ UNCHANGED <<stop, singleStepIrq, pointVars>>

ResumeContinue == /\ InSession /\ resume = None
                  /\ resume' = "continue"
                  /\ Outside /\ UNCHANGED <<stop, singleStepIrq, skipIrqCheck, pointVars>>

(* Ipod4gGdb::step: a watched access is an event, and so is a program      *)
(* counter on a breakpoint; a frozen system makes no access.               *)
Watched(a, kind) == /\ a \in Range(watchpoints)
                    /\ a \in DOMAIN watchKinds
                    /\ watchKinds[a] = kind

Events == {"none"}
  \cup {"watch" : x \in {y \in Addrs \X {"read", "write"} : ~frozen /\ Watched(y[1], y[2])}}
  \cup {"break" : a \in Range(breakpoints)}

(* Mutant: a step that ends in an event leaves the interrupts away.      *)
StepReturnsEarly == /\ resume = "step"
                    /\ resume' = None
                    /\ stop' \in Events
                    /\ skipIrqCheck' = (skipIrqCheck /\ (singleStepIrq \/ stop' # "none"))
                    /\ Outside /\ UNCHANGED <<singleStepIrq, pointVars>>

StepReturns == /\ resume = "step"
               /\ resume' = None
               /\ stop' \in Events
               /\ skipIrqCheck' = (skipIrqCheck /\ singleStepIrq)
               /\ Outside /\ UNCHANGED <<singleStepIrq, pointVars>>

(* Continue steps until an event, or until GDB interrupts it.              *)
ContinueReturns == /\ resume = "continue"
                   /\ resume' = None
                   /\ stop' \in (Events \ {"none"}) \cup {"interrupt"}
                   /\ Outside /\ UNCHANGED <<singleStepIrq, skipIrqCheck, pointVars>>

(* An error of either leaves resume with ?, skip_irq_check as it is, and   *)
(* ends the session.  A frozen system has no errors.                       *)
ResumeFails == /\ resume # None /\ ~frozen
               /\ resume' = None
               /\ thread' = "dumping"
               /\ UNCHANGED <<gdb, connected, stop, singleStepIrq, sysVars, pointVars, uiVars>>

(* monitor single_step_irq.                                                *)
SetSingleStepIrq == /\ InSession /\ resume = None
                    /\ singleStepIrq' \in BOOLEAN
                    /\ Outside /\ UNCHANGED <<resume, stop, skipIrqCheck, pointVars>>

PointRequest == /\ InSession /\ resume = None
                /\ Outside /\ UNCHANGED <<resume, stop, singleStepIrq, skipIrqCheck>>

AddBreakpoint(a) == /\ PointRequest
                    /\ Len(breakpoints) < MaxPoints
                    /\ breakpoints' = Append(breakpoints, a)
                    /\ UNCHANGED <<watchpoints, watchKinds>>

First(a, points) == CHOOSE i \in DOMAIN points :
                      points[i] = a /\ \A j \in 1..(i - 1) : points[j] # a

RemoveBreakpoint(a) == /\ PointRequest
                       /\ a \in Range(breakpoints)
                       /\ breakpoints' = RemoveAt(breakpoints, First(a, breakpoints))
                       /\ UNCHANGED <<watchpoints, watchKinds>>

(* An address may be listed twice but has one kind, that of the last       *)
(* addition; ReadWrite is taken for Read.  Removing one drops the kind.    *)
AddWatchpoint(a, kind) ==
  /\ PointRequest
  /\ Len(watchpoints) < MaxPoints
  /\ watchpoints' = Append(watchpoints, a)
  /\ watchKinds' = [b \in DOMAIN watchKinds \cup {a} |->
                      IF b # a THEN watchKinds[b]
                      ELSE IF kind = "write" THEN "write" ELSE "read"]
  /\ UNCHANGED breakpoints

RemoveWatchpoint(a) ==
  /\ PointRequest
  /\ a \in Range(watchpoints)
  /\ watchpoints' = RemoveAt(watchpoints, First(a, watchpoints))
  /\ watchKinds' = [b \in DOMAIN watchKinds \ {a} |-> watchKinds[b]]
  /\ UNCHANGED breakpoints

Session == \/ ResumeStep \/ ResumeContinue
           \/ StepReturns \/ ContinueReturns \/ ResumeFails
           \/ SetSingleStepIrq
           \/ \E a \in Addrs : \/ AddBreakpoint(a) \/ RemoveBreakpoint(a)
                               \/ RemoveWatchpoint(a)
                               \/ \E k \in {"read", "write", "read/write"} : AddWatchpoint(a, k)

-------------------------------------------------------------------------------
(* The UI                                                                  *)

Main == UNCHANGED <<gdb, thread, connected, resume, stop, singleStepIrq, sysVars, pointVars>>

(* The loop condition: try_recv() fails on an empty channel and on one     *)
(* whose sender is gone, and both mean: go on.                             *)
SeeKill == /\ window = "open" /\ channel = "sent"
           /\ window' = "closed"
           /\ Main /\ UNCHANGED <<channel, aborted>>

CloseWindow == /\ window = "open"
               /\ window' = "closed"
               /\ Main /\ UNCHANGED <<channel, aborted>>

Next == \/ Start \/ Connect \/ ConnectFails
        \/ RunFails \/ DumpFails \/ Dump \/ SendKill
        \/ Detach \/ KillTarget \/ ConnectionBreaks
        \/ Session
        \/ SeeKill \/ CloseWindow

Spec == Init /\ [][Next]_dbgVars

-------------------------------------------------------------------------------
(* Single-stepping never costs the system its interrupts: whenever it runs *)
(* on, under the debugger or without it, step() does check them.  An error *)
(* in the middle of a step leaves the flag set, but such a system only     *)
(* ends, or is looked at frozen.                                           *)
IrqsComeBack == (thread = "running" \/ resume = "continue") /\ skipIrqCheck => frozen
===============================================================================
