# TLA+ models of clicky

clicky emulates an iPod: two ARM cores of a PortalPlayer PP5020, its devices, an
ATA disk, a screen and a click wheel, with a native and a web front end and a
second, high-level runtime for iPod games (Eapp) that replaces the operating
system by an emulation of its imports. These modules model the parts
where the order of things matters, check them with TLC on small instances and
prove the most important facts with TLAPS for every instance.

Paths below are relative to `src/clicky-core/src/` unless they start with `src/`.
In a native build, timer and countdown tasks run on a thread pool
(`executor/mod.rs`) and the UI calls input callbacks on its own thread, both
concurrently with the emulator thread that calls `Ipod4g::step`. In a web build
the same tasks are polled once per step, which is one of the schedules the
models allow.

## Inventory

| Component | State | Operations | Talks to | Hard part | What makes it correct |
|---|---|---|---|---|---|
| Signal lines (`signal/`) | shared flag, counter and trigger | assert, clear, asserted, check_and_clear | every device, three kinds of threads | three atomics per call, clones share a flag | no change is lost, the counter never goes wrong |
| ATA drive (`devices/generic/ide/`) | task file, status, transfer state, sector buffer | register accesses, 16 commands | EIDE controller, block device | restart, overrun, errors in mid-transfer | right sectors in the right order, never stuck busy |
| EIDE, DMA block and latch (`devices/platform/pp/eide.rs`, `dma.rs`) | latch, last level, DMA registers | PP registers, one sample per step | drive, interrupt controller, two cores | an edge-sampled copy of a level-held line | no interrupt lost or made up |
| Core control (`cpucon.rs`) | flow bits, counter source, countdown tasks | control writes, expiry, wake on interrupt | step loop, pool | tasks that outlive what they were started for | a core that waits or sleeps runs again |
| Interrupt controller (`intcon.rs`) | enable, priority per core and half | enable, disable, route, status | all lines, both cores | master toggle of the upper half, core-specific sources | an enabled, asserted source reaches its core |
| Mailbox (`mailbox.rs`) | shared bits, an interrupt per core | set, clear, read | both cores | read clears, write raises, in any order | no message without an interrupt |
| Step loop (`sys/ipod4g/mod.rs`) | - | one instruction per core, executor, DMA, GPIO, inputs, latch, interrupts | everything | its order is everyone's assumption | see the components |
| GPIO (`gpio.rs`) | six registers for each of 12 ports, 3 interrupt lines | register writes, atomic mirror, update | hold switch, interrupt controller | four ports on one line | inputs come to be seen, a port with something to tell interrupts |
| Configurable timers (`cfg_timer.rs`) | config, last message, channel, task state | write config, read value, task | pool, interrupt controller | message against deadline | follows the guest, drops no period |
| Click wheel and keypad (`opto.rs`, `sys/ipod4g/controls.rs`) | lines of the keys, wheel position, interrupt | key and scroll callbacks, `on_change`, read, acknowledge | UI thread | event between read and acknowledge, edge before move | no input lost, 96 clicks to a turn |
| I2C and PMU (`i2c.rs`, `devices/i2c/`) | transaction set-up, data, register pointer, last call | transactions of one to four bytes | memory adaptor | the chip sees bytes, the guest thinks in transactions; errors in the middle | registers and pointer are what the transactions mean |
| Memory controller (`memcon.rs`) | windows, protection, cache bits | translate | every access | overlapping windows, per-core protection | no access goes to the wrong place |
| RAM and checked RAM (`devices/generic/`) | bytes, shadow state | read, write | - | uninitialised reads of part of a word | reports exactly the uninitialised |
| Flash (`flash.rs`) | CFI command state | read, write | - | command sequences | returns to array mode |
| LCD (`devices/display/hd66753.rs`) | byte latches, index, address counter, registers, graphics RAM | commands, data, render callback | UI thread | an address counter that steps over invalid addresses in both directions | words that follow each other land in neighbouring cells |
| Other PP registers (`devcon.rs`, `ppcon.rs`, `evp.rs`, ...) | a word each | load, store | - | none | - |
| Block devices (`block/`) | position, image | read, write, seek | drive | past the end, buffering | what was flushed is there |
| Executor (`executor/`) | task set | spawn, poll | timers, countdowns | threads or polling | a woken task runs |
| Memory traits and errors (`memory/`, `error.rs`) | last exception of an instruction | resolve | step loop | several accesses per instruction | a fatal error ends the run |
| HLE boot (`sys/ipod4g/hle_bootloader/`) | none | one-shot load | block device | none | - |
| GDB stub (`sys/ipod4g/gdb.rs`, `src/clicky-desktop/src/gdb.rs`) | breakpoints, watchpoints, skip flag, session | step, continue, interrupt, monitor commands | step loop, emulator thread | steps that skip half of `step()`, sessions that end in the middle | interrupts come back |
| Eapp runtime (`sys/eapp/mod.rs`) | bootstrap phase, queue of guest calls, pending requests, open files, heap, buttons | imports, returns of entry, frame and callback, poll | guest game, host files, GL, UI thread | completions against frames, memory that runs out, edges between polls | each request completes once and in turn, frames go on, blocks stay apart, the guest knows the buttons |
| Eapp GL (`sys/eapp/live_gl.rs`) | framebuffer, vertex arrays, material, uploads, text, DMA buffer | begin, present, draws, uploads, DMA picture | runtime, UI | frame boundaries are noticed late, the DMA buffer comes at any time, textures are guessed | a picture is of one frame and shows the material's texture |
| Rasterizer (`sys/eapp/rasterizer.rs`, `usse.rs`) | - | triangles, quads, blending | GL | shared edges, rounding | each pixel of a quad is blended once |
| ARM core (`src/vendor/armv4t_emu/`) | registers, CPSR | instruction, exception | step loop | mask bits on entry | vendored |
| Desktop front end (`src/clicky-desktop/`) | emulator thread, UI loop, kill channel | start, debug, dump, end | system, GDB stub | six ways to end | - |
| Web front end (`src/clicky-web/`) | - | run_cycles from a frame callback | system | - | - |
| Time shim (`src/relativity/`) | - | Instant, Timeout | timers | precision | - |

Two systems share these parts: `Ipod4g` (everything but Eapp) and `Eapp`, which
has a core and memory of its own and none of the devices.

`PROJECT.json` lists the same components with what is modelled of each, and
under `hazards` the places where this code can go wrong unnoticed.

## Modules

| Module | Models | Correspondence |
|---|---|---|
| `Signal` | `signal/mod.rs` | `own` is `own_signal`, `signal` the counter, `trigger` the shared flag; `Load`, `Store`, `Count`, `Notify` are the atomic steps of `assert` and `clear`, `CheckAndClear` and `Asserted` the consumer's |
| `WatchedLines` | - | the abstract promise of a signal line: a consumer with a stale reading is owed a look |
| `IdeDrive` | `ide/mod.rs` | operators on a drive record, one per register access and command; no variables |
| `SectorStream` | - | the abstract promise of the disk: the sectors of a job pass one by one, in order, and the guest is told |
| `EidePath` | `eide.rs`, DMA block and order of `step()` | `phase` walks `step()`: CPU, COP, DMA block, latch; a guest is any program |
| `IdeDriver` | `EidePath` with a real driver as guest | the protocol of `src/docs/ipodlinux-ide-irq-findings.md` |
| `Cores` | `cpucon.rs`, `intcon.rs`, `mailbox.rs`, exception entry, end of `step()` | `phase` again; countdown tasks and devices' lines move at any moment |
| `Gpio` | `gpio.rs`, hold switch | registers as sets of lines; a toggle and its trigger are two steps of the UI thread |
| `CfgTimer` | `cfg_timer.rs` | registers, channel and task; `at` is where the task is inside its `select` |
| `OptoWheel` | `opto.rs`, the callbacks of `controls.rs` | `ui` is what a callback has still to do after its first step; a read of 0x40 takes the keys and the wheel in two steps |
| `Pmu` | `i2c.rs`, `pcf5060x.rs`, `MemoryAdapter`, `MemException::resolve` | `Send` is `do_txn` as a fold over the bytes; `accesses` and `exception` are the instruction in progress |
| `Lcd` | `hd66753.rs` | one access is one step; `ac` is the address counter, and what is in a cell is left out |
| `Debugger` | `main.rs`, both `gdb.rs`, the UI loop's end | `thread` walks the closure of the emulator thread; a session is any sequence of GDB requests |
| `EappRuntime` | `sys/eapp/mod.rs` | `at` is what the guest is in; every import that changes the runtime's state is an action, a return is `Resume` |
| `GlTextures` | the texture selection of `live_gl.rs` | operators on the list of uploads, one per `select_upload_...` function |
| `LiveGl` | `live_gl.rs` and its handlers in `sys/eapp/mod.rs` | one action per OpenGLES ordinal that changes state; a pixel is the set of its sources |
| `Raster` | `rasterizer.rs` | exact arithmetic in half pixels; one step per triangle |
| `Board` | the parts around the cores that share no state | `Gpio`, `OptoWheel`, `Pmu`, `Lcd`, `Debugger` and `Raster` side by side; a step is a step of one |
| `MC*` | - | small constants for TLC. Where several guests would only multiply each other's states (`MCCores`, `MCEapp`, `MCLiveGl`), or parts share no state (`MCBoard`), the initial state chooses one |
| `*_proofs` | - | the theorems about `Signal`, `EidePath`, `IdeDriver`, `Cores`, `CfgTimer`, `Board` and its parts, `EappRuntime`, `LiveGl` |

`IdeDriver` extends `EidePath`, which extends `IdeDrive`; `LiveGl` extends
`GlTextures`; `Board` composes `Gpio`, `OptoWheel`, `Pmu`, `Lcd`, `Debugger` and
`Raster`, and `MCBoard` lets TLC take their steps one part at a time, which loses
nothing, since no part reads another's state (`BoardIsItsParts`). `EidePath`
instantiates `SectorStream` and `Signal` `WatchedLines`, as what they implement.
`Signal` is below everything: `Gpio` and `OptoWheel` keep its two
visible steps (level, then trigger), and the other modules use lines that one
thread drives as single steps, which `LinesConsistent` and `KeepsPromise`
justify.

What the models abstract. Of the iPod: sector and identify data (to the number
of the block a buffer holds, or "identity", or "guest data"), addresses in RAM
(a DMA word's memory access may fault or not), the free-running timer value, the
host's time, logging, and every instruction that touches none of the modelled
registers (`NoAccess`, `Compute`). A fatal `MemException` and a Rust panic are a
state in which nothing more happens (`fault`, `halted`, `panicked`, `stopped`,
`fatal`); exceptions that `MemException::resolve` only logs have no effect. Of
the Eapp runtime: guest memory but for the blocks and lists the runtime puts
there, file contents (to the path they come from), vertex data (to the frame the
array was defined in and the extent of its texture coordinates), pixels of
textures (to size, format, name and address), translations and colours.

History variables, which the code does not have: `seen` and `unread` (Signal),
`job` and `edge` (EidePath), `knows` (Cores), `stale` and the fields `beat` and
`due` (CfgTimer), `previous`, `seen` and `acked` (OptoWheel), `meant` and
`cursor` (Pmu), `place` (Lcd), `feeding`, `fobj`, `blocks`, `belief`
and `missed` (EappRuntime).

## Runs

| Run | Question | Bounds | Result |
|---|---|---|---|
| `signal_split` | can interleaved calls on two lines behind one trigger lose a change, or trip an assert? do the lines implement `WatchedLines`? | two lines, two threads, three handles (two are clones) | holds |
| `signal_race` | and when two threads use clones of one line, as a timer does? | one line, two threads | `assert!` in `clear` fails |
| `eide_any` | can any guest program break the drive's state or lose an edge? does the path implement `SectorStream`? | one core; every command; sectors of 2 bytes, 2 blocks, counts 1 and 3 | holds |
| `eide_edge` | and with both cores running? | two cores, PIO commands | an edge is lost |
| `ide_driver` | does an interrupt-driven driver get all its sectors, in order, and exactly one interrupt for each? | 1 to 3 sectors of two words, two handler orders | it does |
| `cores` | is an unread message backed by an interrupt? does a sleeping core wake for an interrupt or a message, does a waiting one run again? | one line of the upper half, the mailbox with one bit; seven control words, two pending countdowns per core | holds |
| `cfg_timer` | does the task follow the guest and drop nothing? | periods 0 to 2, two messages, lateness up to 3 ticks | holds |
| `board` | does `InputVal` come to show the lines? is a key or a move of the wheel told? do the chip's registers hold what transactions meant? does a picture written word by word land cell by cell? do interrupts come back after a single step? is a quad blended once? | two lines on the first and the last port; one key, three scrolls; transactions of two bytes, instructions of two accesses; a display RAM of three rows, written up and down from three cells; two break- and watchpoints; 12 quads on 4 by 4 pixels, 12 colours on 3 grounds | holds |
| `gpio_ports` | is the interrupt line of a block a wired-OR of its ports? | the same two lines | a later port clears it |
| `eapp` | does every completion run? do frames go on? are blocks apart? does a file object read its own file? does a polling guest know the buttons? | two requests, three pending calls, three opens, eight granules of heap, three buttons of which two share an id | holds |
| `gl` | is a picture of one frame? does a draw keep its material's texture whatever is uploaded for others? does an idle game keep its picture? | three guest frames, four draws, three uploads of two sizes and names, coordinates from 0 to 2, one DMA picture, two chars | holds |
| `gl_overlay` | does each DMA picture show? | the same, two DMA pictures | not the second between two imports |

Why the bounds are enough. A sector of two bytes has a first and a last byte
and one 16-bit access or two 8-bit ones, and with 8-bit transfers switched in
the middle, an odd position. A transfer of three sectors on a device of two
blocks has a first, a middle and a failing sector; a count of zero stands for
three instead of 256 (`ZeroCount`). `DmaModes` is what `is_dma()` accepts, cut
to a byte the run writes. `cores` takes its one shared line from the upper half
because the lower half differs from it only by the missing master toggle, and
the mailbox is in the lower half. Two countdowns are the first number that can
overlap. A timer that can be three ticks late with periods of one and two is
more than one period behind.

The wheel needs a move in each direction and one more; the PMU a transaction
that follows a write, one that crosses from a register that is not implemented
(MBCC1, 41) to one that is (MBCC2, 42), and one to another chip. The quads of
`Raster` are a square, one half off the screen, a diamond, whose diagonal runs
through pixel centres, and a trapezoid, in both directions of turn; the colours
include alpha 0, 1, 128 and 255. `EappRuntime` counts modulo `Wrap` = 5 instead of
2^64, so that the counters wrap in the run, and rounds lengths up at the end of an
address space of 16 granules. In `LiveGl` three frames and four draws let a picture,
an array and a draw be of three different frames; four is also the number of draws
the diagnostic capture waits for. A DMA buffer that is all picture, all 0x2d or half
of each needs one picture (`MaxPasses`); `gl_overlay` has two. Extents from 0 to
`MaxUv` = 2 fit both sizes of a texture, one or none.

The display RAM of `Lcd` has three rows instead of 132 (`CgramHeight`): a first, a
last and one that is neither. The guest may go to the first cell of a row, to the
last one and to the invalid address after it, and change direction anywhere.
`BelowZero` is 63, which is 2^64 - 1 modulo 96; modulo the code's 0x1080 it is 0xE7F.
Either is an invalid address at the end of a row in the middle of the RAM.

Bounds in guards: `MaxTasks`, `MaxQueue`, `MaxLag`, `MaxScrolls`, `MaxAccesses`,
`Window` (registers the PMU's pointer reaches), `MaxPoints`, `MaxCalls`,
`MaxOpens`, `MaxFrames`, `MaxPasses`, `MaxUploads`, `MaxDraws`, `MaxChars`. They stand
for an unbounded pool, channel, delay, session or game.

`CHECK_DEADLOCK FALSE` appears where the system can stop: in `EidePath`, `Cores`,
`MCBoard` and `MCEapp` after a fatal error or a panic, in `Debugger` and `Raster`
when all is done, in `MCLiveGl` when a guest has used up its bounds. The other
runs check for deadlock.

## Fairness

- `StepLoop`, `Next` of `EidePath`, `CheckAndClear`, `Asserted`, `CheckChanged`,
  `UpdateBlock`: the emulator thread calls `step` in a loop (`run_cycles`, `run`)
  and `step` polls its triggers each time. Instructions complete: the
  interpreter never blocks.
- `Step(t)` of `Signal`, `Notify` of `Gpio`: a thread inside `assert`, `clear` or
  a callback is scheduled again.
- `Expire`, `Task`: the executor polls a task that has been woken; in the web
  build once per step.
- `Tick`: time goes on.
- `PresentDmaFrame`: `Eapp::step` polls for a DMA picture every 10000 steps.
- `Return` and `Poll` of `EappRuntime` are an assumption on the game, without
  which nothing can be said of its frames, its callbacks and its buttons: it
  returns from what it is called for, and polls the input events in its loop.

No other guest action is fair: an iPod guest may never read, acknowledge or
enable anything. Only `IdeDriver` assumes a driver that does its work.

## Findings

Each has a violation run whose trace is the shortest way to it.

1. `signal_race`. A `CfgTimer` asserts its line from the task and clears it from
   the guest's read through a clone. A read between the task's `store` and its
   `fetch_add` stores FALSE and subtracts from zero; `assert!(old_val > 0)` fails.
2. `eide_edge`. INTRQ can fall (a Status read by one core) and rise (a sector
   finished by the other) within one step; the latch samples once and sees no
   edge. With one core there is none to lose (`OneCoreLosesNoEdge`).
3. `gl_overlay`. A DMA picture leaves the framebuffer opaque, and nothing clears
   it before the next OpenGLES import of another guest frame: a second DMA picture
   between two such imports does not show at all, although
   `sys/eapp/live_gl.rs:463` and `:507` describe a transparent background.
4. `gpio_ports`. The four ports of a GPIO block have clones of one `irq::Sender`,
   where `signal/irq.rs:62-64` promises that a line is cleared only if all Senders
   have called clear. But clones share one flag: in an update of the block a later
   port with nothing to tell clears what an earlier one has just asserted. The hold
   switch, on port A, never interrupts this way.

## Observations

Behaviour a reader may not expect, modelled as the code has it where a module
reaches it, without a run of its own.

Signals, interrupts and the step loop:

- `signal/mod.rs:116-118` says that a line is cleared only if all Masters have
  called clear; clones share `own_signal`, so the first clear wins. `gpio_ports`
  shows what this does to the ports of a GPIO block.
- `wake_on_interrupt` is called only if the core takes the exception
  (`sys/ipod4g/mod.rs:509-511`): an interrupt that its CPSR masks never wakes it.
- A countdown is never cancelled (`cpucon.rs:147-155`), so one that a core no
  longer waits for ends a later sleep.
- An IRQ leaves the F bit of the new CPSR clear (`src/vendor/armv4t_emu/src/lib.rs:214-221`).
- The atomic mirror reads a register before it writes (`gpio.rs:294`), so the
  write-only `IntClear` cannot be reached through it.
- Enabling a timer that is enabled sends nothing to its task (`cfg_timer.rs:197`).

The disk:

- `nIEN` is stored (`ide/mod.rs:221-222`) and never consulted.
- A DMA command pulses INTRQ at its start (`ide/mod.rs:567`, `:648`); the comment
  at `:522-523` speaks of the end only.
- `sys/ipod4g/mod.rs:454` moves one DMA word per rising edge of DMARQ, which rises
  once per transfer.
- The bounds check of a CHS address is inverted (`ide/mod.rs:304`): it refuses the
  valid ones.

Wheel, PMU, LCD:

- The wheel's position is added as a `u8` before it is taken modulo 96
  (`sys/ipod4g/controls.rs:91`), and 256 is no multiple of 96: one notch (two clicks)
  back from 0 is 62 instead of 94.
- A read of the opto register (`opto.rs:108`) takes the hold switch twice and the
  keys one by one, so it can be of no single moment. `OptoWheel` takes the keys in
  one step (`ReadKeys`) and the wheel in another.
- The PMU's register pointer is a `u8` that is incremented (`pcf5060x.rs:115`,
  `:132`): at 255 a debug build panics and a release build wraps. The clock's
  registers each read the host's time (`pcf5060x.rs:248`), so a time can be torn.
- An instruction with several accesses keeps its last exception only
  (`memory/armv4t_adaptor.rs:46`): a stub can hide the fatal one before it.
- The display's address counter, decremented from 0, becomes 0xE74 and not the last
  cell with 64-bit words, and 0xFF4 in a web build, because 2^64 is no multiple of
  0x1080 (`hd66753.rs:342`). `Lcd` takes either (`BelowZero`), and `CellsInOrder`
  knows no cell before the first.
- The render callback's `assert_eq!` (`hd66753.rs:188`) fails when the guest sets the
  height of the panel to anything between 136 and 248 lines (`nl` from 16 to 30), and
  ends the UI thread.

The debugger:

- After an error, `skip_irq_check` may stay set; nothing runs then.
- The UI goes on after a Kill from the debugger and after an early return of the
  emulator thread; and `send().expect` panics if the UI has gone first.
- A hit watchpoint rewinds the PC, so the access is executed again on resume. Two
  watchpoints on one address share one kind, and `ReadWrite` means `Read`
  (`sys/ipod4g/gdb.rs:377`).

The Eapp runtime:

- A callback that jumps to 0 counts as the return of a frame.
- A DMA picture is presented by the highest offset that 32-bit writes have reached
  (`sys/eapp/mod.rs:751`, `:7306`): a guest that writes bytes or half-words shows
  nothing, and after the first full pass the picture can be caught half written.
- The heap's limit overlaps the stack page; a length within 15 bytes of 2^32
  gives a block of no size at the address of the next one (release builds).
- If memory runs out, or r4 does not point into the work RAM
  (`sys/eapp/mod.rs:4831`), a poll loses its whole list of input events, and a button
  that then stays as it is is never told (`missed`).
- An ordinal-3 request that fails queues its callback without writing a status.
- A file handle of `u32::MAX` is refused; `staged_files` is diagnostic only.

Eapp GL:

- Ordinal 4 names the next upload only if no name is pending
  (`sys/eapp/mod.rs:2104`), so a name that nothing was uploaded under goes to the
  upload of the next texture. Ordinal 45 under another handle keeps the old name.
- `reset_text_char_consumption` is never called, although `live_gl.rs:228-229` says
  that the index is reset by a material bind.
- Chars that are pushed before the first OpenGLES import of a guest frame are
  dropped at that import. Draws that are skipped count as draws.
- `live_gl.rs:952-957` matches a texture by `state_ptr` in the recorded draw only;
  what is rasterized is chosen by `WithUvs`.
- Blending truncates: white over white is 0 instead of 256 for 7935 pairs of alpha,
  on a framebuffer that is not opaque, which it is not at first
  (`live_gl.rs:247`). `rasterize_solid_quad` fills a bounding box inclusively, one
  pixel more than a textured quad.

## What is proved

For all values of the constants, from the named assumptions only. Every safety
property that a passing run checks is a theorem, and so is every `TypeOK` and both
refinements of an abstract module. In `<module>_proofs`:

- `Signal`: `TypeCorrect`, under `SignalAssumption`. `LinesConsistent`: if each line's
  handles live on one thread (`OneThreadPerLine`), then `NoPanic` and
  `CounterFollowsFlag`. `NoPanic` is not inductive: it needs the counter's value,
  which lags behind the flag inside a call. `IInv` adds `CallsInOrder`: a call past
  its early return belongs to a handle of its thread, and has seen the flag at the
  opposite value (`"loaded"`) or has set it (`"stored"`). As all handles of a line
  are on one thread, `LineIsMine` says that no second call is open on the line, so
  the counter moves once per change of the flag. `signal_race` shows that the
  hypothesis is needed.
- `Signal`: `ImplementsWatchedLines`, with an Edge trigger and `OneThreadPerLine`:
  Signal implements `WatchedLines` (`KeepsPromise`), with `owed` refined to `Owed`:
  the trigger is set, or the line is still to be read, or a call has moved the
  counter and is about to update the trigger. `Count` is the step that changes a
  level (`CountChanges`, which needs `IInv` to know that the counter moves between 0
  and 1), `Asserted` the one that learns it, `Notify` a reminder, and the other
  steps stutter.
- `EidePath`: `DriveStaysSound`: `DriveSound`, for any sector size, device length,
  backend, guest values and number of running cores. `Good` (the drive has the
  fields it should, and `Sound`) is inductive; there is one lemma per operator of
  `IdeDrive`, and `StepGood` applies them to each access.
- `EidePath`: `OneCoreLosesNoEdge`: `NoLostEdge`, if at most one core runs
  (`SingleCore`; `eide_edge` shows that it is needed). The invariant `EdgeInv` is
  about the order of `step()`: until the core's instruction the last sample and
  INTRQ agree, and after it only the DMA block can raise INTRQ, for a request of
  that very instruction. `Quiet` is why this hides nothing: an access that requests
  a DMA word leaves INTRQ up, or was made when the latch had sampled it down.
- `EidePath`: `SectorsKeepOrder`: `SectorsInOrder`, for any guest on any number of
  cores. It is not inductive: it says nothing of why the one sector of an
  Identify, which belongs to no job, is followed by no other. `Placed` says that
  there is exactly one to go, and `OrderInv` joins it to `DriveGood`, which rules
  out a transfer that is half way through its block device.
- `EidePath`: `PathImplementsStream`: the whole path implements `SectorStream`
  (`ImplementsStream`). What is left of a job is `drive.remaining` while a transfer
  is open (`LeftOf`), and the block that passes next is in the buffer of a read and
  under the cursor of a write (`AtOf`). By `AtFollows` the order invariant makes the
  second a function of the first, so that the proof is about the sectors left and
  INTRQ: a byte moves at most the sector it ends (`Moves`), a word of two bytes at
  most one, because a sector holds a word (`TwoBytesFlow`), a command opens its job
  with the guest told (`TransfersOpen`), and every other access is a step
  elsewhere. A step that stops the emulator may leave anything behind.
- `EidePath`: `TypeCorrect`. `TypeOK` needs `DriveGood`: only a sound drive has a sector
  to go wherever the code counts one down. One lemma per operator again.
- `IdeDriver`: `DriverIsAGuest`: the driver implements `EidePath`'s `Spec`; every access
  it makes is one that any guest may make (`Asked` keeps the registers it has
  written). `DriverSectorsInOrder` follows. `InterruptsAndSectorsMatch`:
  `InterruptsMatchWork`, if every handler moves its data last, in either order of
  acknowledging and reading Status (`DataLast`). `WorkInv` walks the transfer: until it
  starts nothing is raised or latched; from then on the drive offers the next
  word; and once a handler has read Status, INTRQ stays low until the sector
  ends, so that the latch samples the low level and the end is a new edge.
- `Cores`: `WaitsAreCounted`, `NoMessageLost`, `TypeCorrect`, for any sources, masks,
  control words and mailbox words. `ConInv` and `MailInv` are inductive separately,
  because no action touches both groups of variables.
- `CfgTimer`: `TaskIsFaithful` (`OneStaleInterrupt`, `TaskFollowsGuest` and
  `NoPeriodLost`), for any periods, channel bound and lateness. `Prompt` makes
  `OneStaleInterrupt` inductive: past its receive with a message waiting, the task
  has not let an old interrupt through yet. `NoPeriodLost` needs its equation of
  every message in the channel as well (`Kept`, in `ArmedState`), since their
  deadlines run while they wait. `TypeCorrect`: `TypeInv` adds that a deadline is in
  range and belongs to a period that has not ended, so that one that fires is past:
  no interrupt comes before its time.
- `Board`: the parts first, each for its own specification.
  - `Gpio`: `InputsAreHonest` (`StaleInputIsOwed`) and `TypeCorrect`, for any lines on
    any ports. They are inductive together;
    `WriteKeeps` says once what every register write has in common: an update of
    its own port that leaves other ports' lines alone.
  - `OptoWheel`: `InputIsTold` (`KeysAreTold` and `WheelIsTold`), for any keys and
    notches. A key may change between the two halves of a read; `KeysInv` says
    that this change is still owed, because the emulator thread, which reads, is
    also the one that looks at `i2c_changed`. `WheelInv` says that a second move can
    only be under way together with its interrupt.
  - `Pmu`: `ChipFollowsTransactions` (`PmuFollowsTransactions`), for any bytes and bus
    addresses. The chip is told of single bytes; `PmuInv` adds that it is never left
    in the middle of a write (`written` is FALSE between transactions) and that
    everything it holds is a byte. A transaction has at most four bytes, so the
    folds over them are unrolled, case by case on the length.
  - `Lcd`: `CellsAreInOrder` (`CellsInOrder`), for a RAM of any height. `LcdInv` adds
    that the counter is always an address of the RAM. A write from the end of a row
    is where it needs work: up, the next address is invalid and its row and offset
    are found by division (`Rest`, `AddressOfCell`); down, it is the last of the
    row before (`AdvancedUp`, `AdvancedDown`).
  - `Debugger`: `InterruptsComeBack` (`IrqsComeBack`): `IrqInv` says that interrupts are
    away only during a step that keeps them away, or after an error in one, when
    the thread has left the sessions for good; `MortemInv`, that a session after a
    fatal error is of a frozen system.
  - `Raster`: `QuadsAreBlendedOnce` (`QuadBlendedOnce`), for any convex quads
    (`RasterAssumption`), colours and screens. `RasterInv` says which pixels have been
    blended; the rest is geometry: the edge functions of the two triangles add up,
    the shared diagonal is of opposite sign in the two, and the top-left rule gives
    a centre that lies on it to exactly one.
  - `BoardIsItsParts`: the board implements the specification of each part; and so
    `BoardKeepsPromises`: on the board all these properties hold together.
- `EappRuntime`: `CompletionsKept` (every queued call is run or waits, counted modulo
  `Wrap`; every pending request has its completion in the queue), `FilesKept` (a
  file object reads its own file; `FileInv` adds that no open handle is the next one
  to be given), `HeapIsSound` (blocks are apart and below the heap's end; `HeapInv`
  adds that they are below `next_alloc`), `EventsTellTheTruth` (of every button
  whose latest edge was in a list that arrived, the guest believes what the runtime
  remembers; `missed` are the others). Each is about
  one group of variables; the theorems are about `Spec`, the game that does
  everything in any order, of which `MCEapp` checks four parts. `TypeCorrect` joins
  these invariants to `RestInv`, the types of the other variables.
- `LiveGl`: `OneFramePictureHolds`, for any textures, extents, frames and draws.
  The picture alone is not inductive: between the end of a guest frame and the next
  import the framebuffer is of an older frame, which a DMA picture may still
  present, but of one. `IInv` says so, and that after an import (`AtCallGood`) the
  framebuffer and the position array are of this frame. `TypeCorrect` and
  `IdleGamesKeepTheirPicture` (the action property `IdleKeepsPicture`) follow from
  `TInv`, which adds the types of the other fields and that a DMA buffer that was
  never written is neither dirty nor laid under a frame.
- `LiveGl`: `TexturesStay` (the action property `TextureStays`), for any uploads. The
  list of uploads only grows (`UploadsGrow`), by one of another name, which changes
  nothing among those that carry the draw's (`OthersKeepNames`); and a draw that shows
  its own name has found one of them that contains it (`NameDecides`), so it finds the
  same again. `SmallestIsIn` says that the smallest and latest of a set of uploads
  exist and are of that set. Generated coordinates of a glyph are left out: they take
  any smaller font, whatever its name.

Only model-checked: the liveness properties and everything that rests on
fairness or ENABLED (`SettledIsSeen`, `TransferCompletes`, `SleeperWakes`,
`MailWakes`, `WaitEnds`, `RepeatingFires`, `InputSettles`, `CompletionRuns`,
`FramesResume`, `InputArrives`), which are out of the prover's reach, and the
counterexamples of the violation runs. Induction over data and RECURSIVE operators
are out of the prover's reach; the modules with theorems do without.

What the theorems assume of the constants is in the ASSUMEs of the modules:
`SignalAssumption`, `IdeDriveAssumption` (a sector has at least two bytes; the code's
has 512), `EidePathAssumption`, and their like, which TLC evaluates in every run.
The theorems that need more say so in their statement: `OneThreadPerLine`,
`SingleCore`, `DataLast`.

## Not modelled

- Memory controller: a function of the address and eight registers without
  history. What could be stated of it restates its code.
- RAM, checked RAM, flash, devices that are a register per word, device
  utilities: arrays and assignments, or four states of a command sequence that
  end the run when they are left wrongly.
- The HLE boot loader, the web bindings, option parsing, the C loaders, scripts
  and notes: one-shot or pure I/O.
- Of the ARM core (vendored): instructions. A guest is any sequence of accesses.
- Of the Eapp runtime: decoding of the image, imports that only compute or log,
  and the patches of single games behind environment variables. Of the GL: the
  decoding of vertices and pixels, and tracing. Of the rasterizer: sampling and
  the partial opcode decoder. Floating point is replaced by exact half pixels,
  which is what quads on a pixel grid have.
- Of the block devices: the write buffer under the raw backend, and with it what
  a crash loses.

`hazards` in `PROJECT.json` that have a note instead of a property are in these
parts, or are documented behaviour without a promise to check it against.

## Left to do

Abstract specifications for the other components that have one: the queue of
completions of `EappRuntime`, the count of periods of `CfgTimer`, the mailbox of
`Cores`; the three block backends against an abstract disk; `Gpio`, `OptoWheel`
and `Cores` on shared interrupt lines, from key press to exception, instead of
side by side; sampling in `Raster`.

## Running

    tlc -workers 2 -config MCSignal_split.cfg MCSignal.tla
    tlapm Signal_proofs.tla

Each `MC*.tla` goes with the `.cfg` files that begin with its name; the pairs are
listed under `runs` in `PROJECT.json`. A run takes from seconds to four minutes, all
proofs together some ten.
