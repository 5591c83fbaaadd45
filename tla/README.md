# TOMAT-OS: a verification project in TLA+

This directory models the kernel of this repository (a 32-bit hobby operating
system in C++ and assembly), checks the models with TLC and proves theorems
about them with TLAPS. It is kept beside the code: every definition that stands
for code is listed in `PROJECT.json` (`map`) with the lines it translates.

To run it, in this directory:

    tlc -config MCMultitasking.cfg MCMultitasking     # any module and its .cfg
    tlapm MultitaskingProofs.tla                      # any *Proofs module

1. [The system](#1-the-system)
2. [Modules and how they correspond to the code](#2-modules-and-how-they-correspond-to-the-code)
3. [Runs: what is checked and what it shows](#3-runs-what-is-checked-and-what-it-shows)
4. [Fairness](#4-fairness)
5. [Theorems: what is proved](#5-theorems-what-is-proved)
6. [What is only model-checked, and what is not modelled](#6-what-is-only-model-checked-and-what-is-not-modelled)
7. [Plan](#7-plan)

## 1. The system

`kernelMain` (`src/src/kernel.cpp`) runs with interrupts off: it builds the
descriptor table, the heap, the task manager, the interrupt manager and the
drivers, activates the drivers, enables interrupts and ends in a loop that does
nothing (text mode) or redraws the desktop (graphics mode). From then on
everything happens in interrupt handlers, in the tasks the timer switches
between, or in that loop. There is one processor; interrupts are disabled inside
handlers; nothing takes a lock.

| Component | State | Operations | Interacts with | What makes it correct |
|---|---|---|---|---|
| Multitasking (`multitasking.cpp`) | `tasks[256]`, `numTasks`, `currentTask`, each task's `cpustate` | `AddTask`, `Schedule` | called by the timer's interrupt with a stack pointer, returns the one to continue on | a task resumes exactly where it was interrupted; each gets the processor again |
| Interrupts (`interrupts.cpp`, `interruptstubs.s`) | descriptor table, handler table, the active manager, stacks and registers, the two 8259 controllers | constructor, `Activate`, stubs, `HandleInterrupt`, `DoHandleInterrupt` | calls `Schedule` and the drivers' handlers; acknowledges the controllers | no register of the interrupted context is lost; every request is acknowledged once, at the right controllers |
| Heap (`memorymanagement.cpp`) | chunk headers in memory, `first` | constructor, `malloc`, `free` | `new` and `delete`, the network card driver's hook in PCI | chunks adjoin and reach no further than splits have made them; blocks do not overlap; `malloc` returns, and fails only when nothing is larger |
| Keyboard, mouse (`keyboard.cpp`, `mouse.cpp`) | the shift flag; `offset`, `buffer`, `buttons` | `Activate`, `HandleInterrupt` | one shared controller (ports 0x60, 0x64); event handlers of console or desktop | both devices work after start-up; packets stay aligned; events alternate |
| Text console (`kernel.cpp`) | the screen, `printf`'s static cursor, the mouse cursor's position | `printf`, `ScrollUp`, `MouseToConsole` | kernelMain, keyboard handler, tasks | shows the text; never writes off the screen; one mouse cursor |
| Desktop, windows (`gui/`) | a widget tree, dragging flags, mouse position | `Draw`, `AddChild`, mouse and key events | mouse and keyboard handlers, the drawing loop they interrupt | a drag follows the mouse and its button; no window is lost; what is seen at a point is what a click there goes to, unless it is not drawn |
| Drawing (`render.cpp`, `vga.cpp`) | the array of pixels, the frame buffer, VGA registers | `SetMode`, `PutPixel`, `FillRectangle`, `display` | desktop | every register holds the mode's value, whatever it held before; the screen comes to show the desktop |
| Descriptor table (`gdt.cpp`) | four descriptors | constructor, `Base`, `Limit` | selectors used by interrupts and tasks | a base is decoded as encoded, a limit never larger and less than a page smaller |
| PCI (`pci.cpp`) | none of its own | enumeration, base address registers, driver selection | driver manager, ports | each function is seen once; registers are decoded as the device encodes them |
| Driver manager (`driver.cpp`) | `drivers[265]`, `numDrivers` | `AddDriver`, `ActivateAll` | calls `Activate` of every driver in order | stays within its array |
| Ports, loader, build | none | single I/O instructions, start-up | | |

The behaviours that are hard to test are listed in `PROJECT.json` (`hazards`),
each at its line. They fall into these groups:

- **Switching** (`multitasking.cpp`, `interruptstubs.s`): a switch may happen at
  any instruction; stubs, `struct CPUState`, the frame a new task starts with
  and the pops must agree word by word although three files define them.
- **Acknowledging**: the command that ends an interrupt does not say which; with
  two cascaded controllers, priorities and requests that vanish, the right one
  must end.
- **A list inside the memory it manages**: `malloc` follows pointers that lie
  next to what it handed out.
- **Reading without waiting**: both input drivers read the shared data port
  without testing that it holds what they asked for.
- **Shared statics**: `printf`'s cursor is used by tasks and handlers without
  protection.
- **Handlers that interrupt drawing**: positions are read while they change,
  even between the x and the y of one window.
- **Flags kept from events**: a window keeps its dragging flag until a button-up
  reaches it, and which window an event reaches depends on where the mouse is.
- **Devices with hidden state**: protected and shared VGA registers, PCI
  functions with gaps or with ghosts.

## 2. Modules and how they correspond to the code

`Multitasking` extends `TaskManager`; `Interrupts` extends `TaskManager` too and
implements `Multitasking`, which implements `RoundRobin`:

    RoundRobin  <==implemented by==  Multitasking  <==implemented by==  Interrupts
                                          |                                 |
                                          +------ EXTENDS TaskManager ------+

`Desktop`, the drawing loop, extends `Windows`, the handlers that interrupt it;
`Boot` extends `GDT`, `PCI` and `VGA`, whose operations `kernelMain` calls in
order. `MemoryManager`, `PS2` and `Console` stand alone.

**`TaskManager`** holds the two operations of the task table, over any kind of
processor state. `AddTask` has the refusal of a full table as a disjunct;
`Schedule(cs)` is the save, the advance of `currentTask` and its effect on the
table, `Resumed(cs)` the state it returns. Which state is stored where, and in
which order save and fetch happen, is what the properties are about.

**`Multitasking`** adds `kernelMain` and the timer. A processor state is a
context (a task or `Boot`, kernelMain itself) and a position in its program; a
timer interrupt passes the state on the processor to `Schedule` and continues
with the one it returns. `left` records where each context was interrupted.

**`RoundRobin`** is the abstract scheduler: a queue, no index, no table. The
refinement mapping (`ReadyQueue`) reads the queue off the table from
`currentTask` on.

**`Interrupts`** models delivery word by word: the register file, a stack per
context, the pushes and pops of the stubs, the frame `Task::Task` builds, the
records of the handler's calls, and the 8259 pair with its request and
in-service registers, priorities, cascade and spurious requests (external).
Its actions follow one interrupt through the code: `Deliver` (or
`DeliverSpurious`, `RaiseException`), `Stub`, `HandleTimer` or `HandleOther` (or
`HandleInactive`), `AcknowledgeMaster`, `AcknowledgeSlave`, `Return`. It
implements `Multitasking`: what that module takes as one step is here seven,
with requests raised between any two of them.

**`MemoryManager`** keeps every header ever written in `mem`, keyed by address,
whether or not the list still reaches it. `malloc` is a call (`Malloc`), one
action per round of its loop (`Advance`), and two ways to end (`Take`,
`GiveUp`); `free` is one action, composed of the two joins as the code has them:
a freed chunk is joined with a predecessor that is *in use* (line 85 tests
`allocated`, where one expects its negation), which keeps its owner, and with a
successor that is free. `Split` gives the rest the size of the whole chunk less
a header, as line 58 does: the size handed out is not taken off. So each split
of the last chunk moves the list's end that many bytes beyond the heap's, and
after enough of them `malloc` hands out blocks that lie outside the memory it
was given. `heapEnd` and `excess` are history variables, the end of that memory
and the bytes split off so far; `HeapTiled` says that the list ends at their
sum. In the kernel nothing else is there: the heap ends 1034 KiB before the end
of memory, and nothing above it is used; the model takes memory beyond the heap
to exist and to be unowned. No comment says that blocks lie inside the heap, so
this is described here and stated by `HeapTiled`, not a run marked *violated*.
A split in the middle of the list (`interior`) makes a chunk overlap its
successors, and headers may then be written over parts of others; the model
keeps such headers apart, so from then on it claims nothing, types included.

**`PS2`** models both drivers against the controller and the devices. The two
`Activate` functions are one action per port access, in the order `ActivateAll`
calls them; devices answer at any time. The handlers are one action each,
except that the keyboard's second read (line 101) is a step of its own because
the controller may put another byte in the buffer in between. A byte is the set
of its bits, with its origin and place as tags no driver sees. `crossed`
records that some read returned a byte it was not meant for. The constructor of
the mouse's driver sets neither `offset` nor `buttons`: they begin with any
value of a byte in the set `Garbage`.

**`Console`** models `printf` twice: as one step for the callers nothing can
interrupt (kernelMain before interrupts, handlers), and access by access for
tasks. The tasks that print are TaskA and TaskB, which `kernel.cpp` keeps in
a comment to be enabled "to test multitasking"; without them (`Task = {}`) only
the first form remains. `paper` is a history variable, the reference for what
the screen should show: the text on an endless roll of paper (`ink`), the place
of the next character (`pen`) and the row that is at the top of the screen
(`top`); `Rolled` advances it by one character and knows nothing of cells,
accesses or cursors. `MouseToConsole` swaps the colours of a cell. Its
coordinates wrap like an `int8_t`.

**`Windows`** is the tree `kernelMain` builds in graphics mode, a desktop with
windows that have no children. `MousePacket` is what
`MouseDriver::HandleInterrupt` does with a complete packet, all of it inside one
handler: `Desktop::OnMouseMove` (division by 4 towards zero, the border),
`CompositeWidget::OnMouseMove` (`Moved`: the child under the old place, then the
child under the new one, found *after* the first has moved), then the loop over
three buttons (`Compared`). `Front` is the loop both kinds of events use: the
first child that contains the point. `covered` is a history variable: windows
over which, during their drag, the mouse has been over another window. The
button-up of such a drag goes to that other window, and the code leaves the
first one with its flag set: it then moves whenever the mouse meets it, with no
button down. The properties say what holds of all other windows. What they
exclude does happen: a window left with its flag on can be pushed off the
desktop by approaching it from outside, where no mouse ever reaches it again.

**`Desktop`** adds the loop `desktop.Draw(&rend); rend.display(&vga)` in steps
between which a handler may run: the background, for each window the read of x
and then the rest of `Widget::Draw`, the cursor, the copy. `pixels` is indexed
as the code's array is, `x * Height + y`. `Span` is what `FillRectangle`'s loop
visits although `x + w` is computed without a sign: nothing, if the window lies
over the left or the top border (vga.cpp:213-214). A drag gets there at once,
and such a window disappears although it still takes the clicks. `Picture` is
therefore made of the windows that are drawn (`Drawn`, `Seen`), and equals what
a click meets wherever no such window is in front (`SeenIsClicked`, proved).
A point below the screen is a cell of the next column, one above it of the
column before: `Stray` are the cells such points fall on, which alone may have
another colour than the picture's. The cursor blinks by `frameCounter`, which
nothing else reads: each frame draws it in either of its colours (`Blink`).
`GetColorIndex` and
`Indexed` are what `VideoGraphicsArray::PutPixel` makes of a colour. Keys are
not actions: a key goes to `focusedChild`, which is only set by `GetFocus`, which
only `Widget::OnMouseDown` calls, which no event reaches.

**`GDT`** packs and unpacks a segment descriptor field by field (bytes that
belong together are one field). **`PCI`** is `SelectDrivers` as three actions,
one per loop: how many functions a device has, a function, the next device.
`PortBases` is a set because `GetBaseAddressRegister` returns a structure it has
not written when a bridge has fewer registers than the caller asks for: what the
caller then tests is whatever memory held. The upper half of a 64-bit memory
register is read as a register of its own, as the code does (its `switch` on the
type is empty), and may look like a port; a register's "own" port address in
`PortBaseOwn` includes such a half. **`VGA`** writes the registers in the
order of `WriteRegisters` to an adapter (external) that refuses protected CRTC
registers and takes attribute index and data by turns through one port.

**`Boot`** is `kernelMain` in graphics mode until interrupts are on: descriptor
table, heap, `AddDriver` twice, the PCI scan, `ActivateAll`, `SetMode`. Nothing
runs beside it; the difficulty is in what it finds: the amount of memory, the
devices, the state the firmware left the adapter in. Sizes are in KiB, all terms
of the heap's size being multiples of 1024; `Word` is 2^16 and `Page` 4096,
named so that proofs can leave them folded.

`MC...` modules give the constants their values for TLC; `...Proofs` modules
hold the proofs. Definitions marked "Mutant" are plausible bugs of the
definition they stand before; no specification uses them. For each property
`PROJECT.json` names a mutant that violates it, which shows that the property
says something about the code.

## 3. Runs: what is checked and what it shows

| Run | Bounds | Shows |
|---|---|---|
| `multitasking` | 3 tasks, 3 slots, positions modulo 3 | For every way of filling the table, a task twice and a refused one included: no switch loses or mixes states (`SavedStateIntact`, `ResumesWhereItLeft`), the index always names what runs, boot never returns, every task runs again and again, and table and index implement a queue |
| `interrupts` | 2 tasks, 2 slots, lines 0, 1 and 12, 1 and 12 may vanish, exception 13 | Stubs, frames and pops agree (`ContextIntact`); no request is left in service when a context runs, none is ended for another (`AcknowledgesItsOwn`); the whole implements `Multitasking`, its fairness included |
| `exceptions` | as above, exception 0 instead | *Violated.* An exception without an error code: "restore registers" restores them one word off |
| `heap` | heaps of 0, 3 and 8 units, requests of 1 and 2, headers of 1 | While only the last chunk of the list has been split: the chunks adjoin from the heap's start to its end plus exactly what has been split off, owners do not overlap, `malloc` fails only if no free chunk is larger than the request, and returns |
| `heap_beyond` | heap of 12, requests of 1 and 4, further splits allowed | *Violated.* After a chunk in the middle has been split, later calls produce a cycle, and `malloc`'s "O(n)" loop does not end |
| `ps2` | keys a, backspace and both shifts, at most 2 down, 1 byte waiting in the keyboard, 1 mouse button, 4 command bytes the firmware may leave, 3 values of the driver's uninitialised fields (one an offset far outside the buffer) | As long as no read crosses: both devices work after start-up, packets stay aligned, buttons and shifts are reported as they are. Always: events alternate and no byte stays to block the port |
| `ps2_start` | as above, no keys, the common command byte | *Violated.* The keyboard's own acknowledgement, read by the mouse's `Activate` as the command byte and written back, turns the keyboard off |
| `console` | 2 tasks and handlers, a 2 by 2 screen, 4 characters, a cursor type that wraps at 3 | Whatever overlaps, the cursor is back on the screen when nobody prints; without overlaps nothing is written off the screen and it shows exactly the end of the text; the mouse cursor is the one swapped cell while nothing is printed on it |
| `console_ghost` | as above, no tasks, 2 characters | *Violated.* Text printed over the mouse cursor, or scrolled, leaves a second cursor when the mouse moves |
| `desktop` | 2 windows side by side (1 by 2 and 2 by 2), a screen of 5 by 4, arms of 1, buttons 1 and 2, movements -5, 3 and 4, 3 packets | Whatever packets come at whatever point of a frame: a drag ends with its button and stays under the mouse, windows move exactly as far as the mouse and stay on the desktop (except as said for `covered`); a frame no packet came into is right; once the packets end the screen comes to show the desktop. "Right" leaves out windows over the left or the top border, which are not drawn, and the cells onto which points above or below the screen fall |
| `desktop_edge` | the same | *Violated.* `PutPixel`'s "let's prevent illegal coordinates" is overridden by a `PutPixel` that prevents nothing: the cursor at the border writes beside its column, or beside the array |
| `boot` | 1 bus, 2 devices of up to 3 functions (none, ghosts, gaps, bridges, with ports or without), 5 limits around 64 KiB and a page's end, 4 sizes of memory around the heap's start, VGA registers protected or not, expecting an index or data | The scan finds each function once and no ghost, and keeps a port of its own; every VGA register ends with the value of the mode; segments fit their limits; the heap ends within memory; the drivers fit their array |

Why these bounds are enough for the cases that matter:

- *multitasking*: with three slots the table can be empty, hold one task (the
  slot saved is the slot fetched), two, be full and refuse; the wrap-around is
  passed at each length. Positions are counted modulo 3 so that neighbouring
  ones differ; nothing in the code depends on them. The theorems of section 5
  remove the bound.
- *interrupts*: a line of each controller besides the timer gives both
  acknowledgement paths, the cascade and both spurious vectors; two tasks
  and boot give every kind of stack. Handlers do not nest, so stacks never hold
  more than 13 words, which `TypeOK` checks.
- *heap*: 8 units hold three headers with blocks; that is enough for a chunk
  with neighbours on both sides, which is the most `free` looks at. `MaxClaim`
  stops calls once a chunk claims memory far beyond the heap (each split adds
  such a claim, so the state space would be infinite): at 15, with a heap that
  ends at 10, blocks lie beyond it. The theorems hold for every value of it.
- *ps2*: the uninitialised `offset` and `buttons` begin as what a packet begins
  with, as what is left in the middle of one and as an offset outside the buffer;
  the theorems allow any byte. Four keys are one ordinary, both shifts and the
  one with the second read; two held at a time are both shifts. Waiting bytes
  beyond one only delay what the controller can deliver, since its buffer holds
  one. `Beyond = FALSE` stops keystrokes (not mouse packets) after a read has
  crossed.
- *console*: four characters fill the four cells, wrap, scroll and erase
  across a line end. The type of the mouse's coordinates must be barely larger
  than the screen for wrap-around to happen, as 127 is to 79.
- *desktop*: two windows are all `kernelMain` has; one behind the other and
  beside it gives a drag that meets another window, a move that takes the mouse
  from one to the other, and windows over the left, the top and the lower border
  (over the right one, what is drawn beyond the screen lies beside the array).
  Three packets press, drag and release; a fourth adds only longer drags, and the
  theorems have no bound on packets. `Slowed` leaves a remainder with two of the movements.
- *boot*: two devices pass every boundary of the scan's loops (next function,
  device and bus); the bus number is only carried along. The values registers
  hold before (`Before`) are compared with nothing except through the bit that
  protects, which takes both values.

Deadlock is checked except in `heap` and `heap_beyond` (callers may stop
calling), in `ps2` (the devices may fall silent) and in `boot` (the boot
sequence ends).

**Five disagreements** between the code and its own comments came out of this,
listed in `PROJECT.json` (`findings`): the five runs marked *violated*.

## 4. Fairness

- `Multitasking`: the timer's interrupt happens again and again
  (`WF(TimerInterrupt)`). The timer chip is never stopped and nothing in the
  kernel turns interrupts off once `Activate` has run: `Deactivate` has no
  caller. Nothing is assumed of the tasks.
- `Interrupts`: the timer raises its line, the processor takes an accepted
  request before the next instruction and handlers run to their end
  (`WF(RaiseLine(0))`, `WF(Deliver)`, `WF(HandlerStep)`): handlers have no loops
  that wait. The run shows that this implies the fairness of `Multitasking`.
- `MemoryManager`: a `malloc` in progress goes on (weak fairness of its steps);
  callers need not call.
- `PS2`: handlers run (`WF(Handler)`); devices need not do anything.
- `Desktop`: the drawing loop goes on (`WF(MainLoop)`): it waits for nothing,
  and beside it only handlers run, which end. Packets need not come; their number
  is bounded, so in every behaviour they cease, which is what `EventuallyShown`
  speaks of.
- `Console`, `Boot`: no liveness, no fairness.

## 5. Theorems: what is proved

TLC checks instances; the following hold for **every** value of the constants
that satisfies the named assumptions, and every proof is checked by `tlapm`.
Every invariant of the passing runs is stated by one of them, and so is every
action property; section 6 says what is left to TLC.

**`MultitaskingProofs`** (assuming only that the capacity is positive and that
`NoTask` and `Boot` are not tasks): `TypeCorrect`, `IndexCorrect`,
`StatesIntact`, `Resumption`, `BootLeavesForGood` and `RoundRobinSafety`. The
inductive invariant is `TypeOK /\ IndexNamesRunning /\ SavedStateIntact`.
`SavedStateIntact` alone is not inductive: `Schedule` stores the interrupted
state by `currentTask`, so the step needs to know that this index names the task
that was running; and a task may be in the table more than once, so the saved
slot and the fetched one may be the same task at different indices (lemma
`SwitchStates`). `RoundRobinSafety` maps the table to the queue and shows that
every step is a step of `RoundRobin` or a stutter; that the index runs
cyclically (`NextTaskIsSuccessor`) is what makes the queue rotate.

**`MemoryManagerProofs`** (assuming a positive header size and start address,
heap sizes and requests that are natural numbers): `TypeCorrect`,
`TiledAlways`, `DisjointAlways`, `FailsOnlyWhenFullAlways`, all of them until a
middle chunk has been split. The inductive invariant `HInv` says that then
there is a set `S` of headers that *tiles* the memory from the heap's start to
`heapEnd + excess` (each ends where the next starts, links are inverse, the last
one has no successor and ends exactly there), whose used chunks
are exactly those of the blocks handed out, and of which `malloc`'s loop has
passed none that would do (`Scanned`). `HeapTiled` alone is not inductive:
without `Scanned`, the loop's cursor might be at a header that is no longer in
the list. Each half of `free` preserves tiling because it removes one element of
`S` and adds its extent to its left neighbour, or leaves the end where it is if
that was the last (`JoinedTiled`, which serves both joins:
`JoinedWithPrevIsNext`); `Take` preserves it because a split of the last
chunk adds one element at the end and moves the end by the request
(`TakenTiled`). Nothing else moves the end.

**`InterruptsProofs`** (for any tasks, table size, lines and glitching lines,
assuming `Boot` and the kernel are not tasks, and under the hypothesis
`ErrorCodes` that only exceptions with an error code are raised):
`TypeCorrect`, `ContextsIntact`, `AllAcknowledged`, `AcknowledgementsMatch` and
`MultitaskingSafety`. The hypothesis is the code's own limit: for the other
exceptions the frame is a word short, and the run `exceptions` shows
`ContextIntact` violated. The three properties speak of the states in which a
context runs; the inductive invariant `IInv` must say what holds in between. It
says that there are a context `c`, a position `p` and an interrupt flag `on` such
that (`Phase`) either `c` runs its own code with exactly the registers of `p`
(`Own`), or the processor has entered a gate (`InStub`), or the handler runs, and
then the frame on the stack of `c` is the one `c` continues from
(`InHandler`, `FrameOn`); that every other task has such a frame where
its `cpustate` points (`Parked`), and the table names `c` (`Tables`); and which
requests are in service at each stage (`Served`): for a line of the slave also
line 2 of the master, and none, or line 2 alone, for a spurious one. That
`HandleTimer` may replace `c` by another task is why `c` is bound inside the
invariant. `MultitaskingSafety` maps each of the seven steps of an interrupt to a
stutter or, the handler's, to `Multitasking`'s one step.

**`PS2Proofs`** (for any keys, buttons and movements, any command byte the
firmware may leave, any room in the keyboard's buffer of at least one byte, any
bytes in the mouse driver's `offset` and `buttons` when it is made):
`TypeCorrect`, `EventsAlternateAlways`, `BothHeardAlways`,
`PacketsAlignedAlways`, `ButtonsAgreeAlways` and `KeysAsPressedAlways`. None of
the properties is inductive, because each compares what the driver has reported
with what the device has sent, and bytes are on their way in between. `AnswersInv`
says, for the start-up, that the controller's answer waits where the next read
will find it (`AnswerWaits`), and what the command byte then holds (`StatusRight`,
`ConfigRight`). `PacketsInv` follows a packet from the mouse's queue through the
output buffer into the driver's three bytes: wherever the cut is, the pieces
continue each other (`MouseAligned`), and the mouse sends nothing before it is
told to (`MouseSilent`, `MouseAnswering`). From it `ButtonsAgree` follows, as the
first byte of the latest packet is in exactly one place (`Latest`). `KeysInv` says
of the keys on their way with which shift they will be handled if all bytes
before them are (`ShiftedAfter`), and that it is the one that held when they
were pressed (`TagsRight`, `ShiftAgrees`).

**`ConsoleProofs`** (assuming a screen whose sides are smaller than 256 and fit
the type of the mouse cursor, and letters that are not control characters):
`TypeCorrect`, `CursorRecoversAlways`, `OnScreenAlways`, `CursorMarkedAlways` and
`ShowsTextAlways`, for any number of printing tasks. `CursorRecovers` speaks only of states in which nobody
prints, so it is not inductive. `Owed` says who owes the cursor a correction in
the others: a column beyond the last one is owed by a task about to test or to
clear it, a row beyond the last one by a task between its test and its last
store. An access either leaves its task the debt or pays it (`OwedStep`), and a
`printf` that nobody interrupts settles whatever it finds (`RoundSettles`).
`OnePrinting` adds that until two calls overlap one task is inside at most, so
that a task about to write finds no debt but its own, which it has paid; hence
`OnScreen`. `CursorMarked` needs only that no task prints before there is a
cursor (`MarkedInv`). `ShowsText` speaks of states in which nobody prints;
`TextInv` says for each of the task's points how far the screen is behind the
paper (`TextAt`): the cell is written but the cursor has not moved, or has moved
and not wrapped, or is below the last row and the screen has not scrolled, in
which case there is an earlier paper that the screen matches and that
`Followed`, the paper's scrolling, turns into the present one (`Due`).

**`DesktopProofs`** (assuming 1 to 100 windows of any positive size that start
on the desktop, and the range of a packet's movements): `WidgetsInvariance`,
`TypeCorrect`, `DragFollowsMouseAlways`, `ReachableAlways`, `FrontSoundAlways`
and `MovesWithMouseAlways`, for any number of windows and packets. The inductive
invariant `WInv` adds to the three properties that only windows being dragged
are `covered` (`CoveredDragged`) and that the frontmost never is. Without the
first, a window could re-enter the properties' range with nothing known of its
place; `DragFollowsMouse` and `Reachable` need each other's typing of positions.
`PacketEffect` reduces a packet to what it does to one window: `MovedOnce` shows
that the child found second has not moved, although it is looked for after the
first has. `FrontSound` follows: for the frontmost window no condition is left.

**`PictureProofs`** (in addition, any arms of the cursor and any colours):
`QuietFrameRightAlways`, wherever the windows are, and `SeenIsClicked`.
`QuietFrameRight` speaks of finished frames only; `FrameSoFar` says what a frame
shows when the windows from `N` down to some `c` have been drawn: at each cell
outside `Stray` the colour of the first of those that are drawn there.
One more rectangle keeps this for `c - 1` because windows are drawn in the
opposite order of the one in which events look for them (`ChildRight`). That a
byte of the array is one point of the screen is `x * Height + y` read backwards
(`OwnCell`), which is unique for points whose `y` is on the screen; a point
whose `x` is not falls outside the array. That a rectangle's loops visit of the
screen all of a drawn window and nothing of another is `SpanIs`.

**`BootProofs`** (assuming that limits fit 32 bits and memory 2^22 KiB, any
number of buses, devices and functions, machines of which each slot holds headers
or nothing, a register's earlier value of a byte): `TypeCorrect`,
`DescriptorFits` for every base and limit, `SegmentsFitAlways`,
`HeapInMemoryAlways`, `BusScannedAlways` and `ModeSetAlways`. `TypeCorrect`
includes that `AddDriver`, which tests nothing, stays within `drivers[265]`:
`kernelMain` adds two, and `GetDriver` knows none (`NothingAdded`; were it to
know one, the loop over six registers would add it six times). For table and heap
the invariant is only that table and heap are those of
their constructors (`SetUpInvariance`); the argument is arithmetic: a limit in
pages fits 20 bits (`PagesFit`), fields of a base and a limit compose to what was
divided (`BaseFields`, `LimitFields`), and a quotient with remainder is unique
(`Quotient`). The heap's size does not wrap around exactly because the
condition excludes less than 10 MiB. `BusScanned` speaks of the end of the scan;
`ScanInv` says what has been found when its loops are at some slot and function:
everything that is there before that point (`LookedFound`), nothing else
(`FoundReal`), and nothing twice (`FoundOnce`), for which it needs that the
number of functions is the one the slot's first function asks for (`ScanAt`).
`ModeSet` speaks of the last of 62 writes; `VGAInv` says of each bank which of its
registers hold the mode's value after any number of them (`BankSet`), which is
not enough: the CRTC's first eight registers take no value while the eighteenth
protects them, so a part of it (`Open`) says from which write on they are
unprotected. `AttrInv` says the same of the attribute controller, whose every
write begins by making the port expect an index, whatever it expected before.

The modules build their lemmas about operators first (what a write changes,
field by field), then one step per action or per kind of action.

## 6. What is only model-checked, and what is not modelled

Only model-checked: liveness and fairness, which TLAPS does not do
(`EveryTaskRuns`, `MallocReturnsWhileTiled`, `NoByteStuck`, `EventuallyShown`), and
the liveness in both refinements (`ImplementsRoundRobin`,
`ImplementsMultitasking`), whose safety, the initial states and every step, is
proved. What a recursive definition computes cannot be proved here either
(induction takes an operator as a parameter, which no backend instantiates).
The models are written so that no proof needs it: what `ShowsText` compares the
screen with is kept as a variable (`paper`), not computed from all that was
printed, and the heap's list is a set of headers that tiles, not a path that is
followed.

The runs marked *violated* refute what a comment says; there is nothing to prove
in them. What does hold of the same code is a theorem: a context stays intact
when only exceptions with an error code are raised, both devices are heard when
no read has crossed, the cursor is the one swapped cell while nothing is printed
over it.

Deliberate abstractions:

- Program text between interrupts is a position that advances; registers other
  than those the stubs save (segment registers, which never change) are left
  out. Non-maskable interrupts are not modelled. `interruptnumber`, the global
  byte of the stubs, is no variable: all gates clear the interrupt flag, so the
  stub writes it, saves the registers and pushes it before anything can
  intervene.
- The handler table is filled before interrupts are enabled and never changes
  after; `HandleOther` stands for every driver's handler, all of which return
  the stack pointer they were given.
- `mem` holds headers only. What owners write into their blocks, and headers
  that overlap in part, matter only once chunks overlap, which is what the
  properties exclude; after that (`interior`) nothing is claimed of memory. Of
  memory beyond the heap's end see section 2.
- `KeysAsPressed` says that nothing is reported as shifted without a shift key
  held and no byte twice, up to the first crossed read. A press or release that
  a crossed read has taken leaves the shift flag wrong, and no property
  excludes that.
- The scan-code table is data: a reported key is its scan code and the shift
  flag. A mouse packet carries buttons and one movement byte.
- The boot loader's screen contents are taken as blank; colours other than
  swapped or not are left out. `ScrollUp` is one step.
- A colour is a name for its three bytes. Which of its two colours the cursor
  has depends on `frameCounter` and is left open. What lies beside the array of
  pixels is not modelled; `LegalCoordinates` says when it would be written.
- A PCI register's address is its fields; of what is read only what
  `SelectDrivers` tests is kept. `GetDriver` knows no driver, as in the code,
  whose only case is a comment.
- `Boot` takes what `Activate` of the two drivers does as one step; `PS2` has it
  access by access. An index and its data are written to the VGA in one step,
  since interrupts are off.

Not modelled: operations without a caller (`Deactivate`, `Reset`, the
destructors, `PeripheralComponentInterconnectController::Write`, widgets with a
focus, `Window` with children), the `lgdt` instruction and the selectors,
`port.cpp` (single instructions), `loader.s`, the link script and the Makefile
(straight-line start-up and build, no state that changes after boot). The two
hazards without a property in `PROJECT.json` (a fault that repeats, the depth of
a task's stack) say each why; hazards a property covers in part have a note.

## 7. Plan

Done:

1. `TaskManager`, `Multitasking`, `RoundRobin`, with proofs.
2. `Interrupts`, composed with `TaskManager`, implementing `Multitasking`, with
   proofs of its safety and of the refinement's.
3. `MemoryManager`, with proofs.
4. `PS2` and `Console`, with proofs of all their safety properties.
5. `Windows` and `Desktop`, with proofs of all their safety properties.
6. `GDT`, `PCI`, `VGA` and `Boot`, with proofs of all their safety properties.

Left:

7. The heap beyond a split in the middle: what, if anything, can still be
   trusted of a list that `heap_beyond` shows to become cyclic.
8. A concurrent variant of the heap, for the day a task allocates.
