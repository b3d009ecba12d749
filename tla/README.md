# PlatC: formal models of the node

PlatC is a wearable motion node.  A SAMD21 microcontroller samples an MPU9250
inertial sensor and talks, over a UART, to a BGM113 Bluetooth module, which
passes bytes to and from an Android application.  This directory holds TLA+
models of the program in `src/`, the TLC runs that check them, and proofs for
TLAPS.

## 1. Inventory

| part | source | state it keeps | operations |
|---|---|---|---|
| active object `platC` | `SAMD21/app/platC/platC.c` | leaf state, shallow history, `g_controlData`, one timer, four static events | entry, exit and effect actions of `unlinked`, `hidden`, `linked`, `motionDetect` |
| tick interrupt | `platC.c` `rkh_hook_timetick`, `bsp/bsp.c` `hwTimerExpiryCb` | debouncers and state machines of three pins, sampling window, LED period | every 10 ms: sample, debounce, post, toggle the LEDs, run the RKH timers |
| idle hook | `platC.c` `rkh_hook_idle` | second of the last poll | once a second in a connected node: parse received bytes |
| RKH queue, ready table, scheduler | `third-party/rkh/source/{queue,sma,fwk}` | rings of event pointers, ready group | `put_fifo`, `get`, `setReady`, `setUnready`, `findHighest`, the loop |
| RKH timers | `third-party/rkh/source/tmr` | linked list of timers | `start`, `stop`, `tick` |
| RKH dispatch | `third-party/rkh/source/sm` | current state, history | `rkh_sm_dispatch` |
| command parser | `bsp/bgm113/bgm113_cmds_parser.c`, `uart0.c` | parser state, receive ring, time-out | `getCompleteMessage`, `sendData`, `SERCOM0_Handler` |
| command handlers | `app/platC/platC_cmds*.c` | one static event per command | decode, post |
| EEPROM store | `bsp/eeprom/emu_eeprom.c`, ASF's `eeprom.c` | three entries in one logical page; versions of pages in rows of flash, a cached page, the page map | `init` with recovery and formatting, `write`, `commit`, `read`, `move_data_to_spare` |
| SPP server | `BGM113/PlatCDemo/spp_server_main.c`, `retargetserial.c`, `sleep.c` | link, packet size, connection pin, sleep blocks, UART ring | events of the stack, `send_spp_data`, the UART interrupt |
| Android parser | `ANDROID/.../BLECommandsParser.cs` | parser state, time-out | `GetCompleteCommand`, `ParseIncomingData` |
| Android activity | `ANDROID/.../MainActivity.cs`, `IB.cs` | pages, calibration, pending command | UI handlers, cloud upload |
| drivers | `mpu9250.c`, `buzzer.c`, `battery.c`, `push_button.c` | registers | I/O |

How they interact.  The tick interrupt and the thread share `platC`'s queue,
the static events it points at, the timer and `g_controlData`; the interrupt
also writes UART frames and the LEDs.  The thread is a cooperative loop, so
event handlers never overlap, but a handler that busy-waits (the 100 ms reset
pulse of the BLE module; a polled transmission) and the idle hook run with
interrupts enabled.  The received bytes reach the thread through a ring that
`SERCOM0_Handler` fills.  The BLE module reports its connection on a pin, which
the tick debounces, and not in the byte stream; the node in turn holds the
module in reset while it hides.  Settings are read from the flash at power up
and written while a command of the phone is handled.

Hard behaviour: static events re-tagged while queued; one timer and one event
object for two states; events without a row in `motionDetect`; a queue of four
whose overflow is fatal; a debouncer of 32 bits compared with masks of 8; a
parser with a 100 ms time-out called once a second; frames written from two
contexts; three EEPROM writes without a transaction, over a store that moves
pages between rows; a module that works with a link that is gone already; a list
of timers that a tick walks and changes.  `PROJECT.json` lists these hazards at
their lines with the properties that answer each.

What makes each part correct:

- node: flags agree with the state; the radio is off exactly when hiding or
  resetting; a running timer carries the signal of the current state; a queued
  pointer means what was posted; time-outs last as long as they say; the
  belief in a link and the charging flag are those of the pins; the LEDs show
  the state; the queue never overflows; timed states end.
- queue and scheduler: a FIFO per active object, highest priority first,
  nothing lost, no assertion but that of a full queue.
- timers: each counts down on its own, whatever happens to its neighbours.
- dispatch: what a state and its ancestors declare is what an event does.
- debouncer: short bounces are ignored, steady levels are taken.
- parsers and frames: buffers overflow where the code lets them and nowhere else;
  a frame is delivered whole or not at all; what was lost or mixed up before does
  not spoil a frame that comes whole and alone, or is known to; the phone's
  time-out is exact on a clock that wraps.
- store: what was acknowledged outlives any reset; a reset amid an update leaves
  of each entry the old or the new value; a page is never programmed twice.
- SPP server: its state, pin and sleep blocks end up as the phone at the link has
  them; no packet is longer than that phone takes; bytes stay in order; a lost
  link is noticed by the node; bytes do not lie in the ring for good.

## 2. Modules

| module | models | run by |
|---|---|---|
| `Debounce` | the debouncers, with the 32-bit word abstracted to its newest run | extended by `PlatC` |
| `DebounceFilter` | the same debouncers bit for bit, side by side with `Debounce` | extended by `BleLink` |
| `PlatC` | `platC.c`: active object, tick interrupt, idle hook, timer | through `MCPlatC` |
| `RkhSm` | `rkh_sm_dispatch` over any chart, as operators | instantiated by `PlatCChart` |
| `PlatCChart` | platC's chart as declared, and that dispatching over it comes to what `PlatC` does | extended by `MCPlatC` |
| `MCPlatC` | instances of `PlatC`: which pins move, which commands arrive | `node`, `charger`, `live`, `queue_full`, `link_loss` |
| `EventQueue` | abstract: FIFO queues whose overflow stops the system | refined by `RkhQueue` |
| `RkhQueue` | rings, ready table and scheduler loop of RKH | extended by `RkhKernel` |
| `TimerService` | abstract: timers that count down on their own | refined by `RkhTimer` |
| `RkhTimer` | the list of software timers and the tick's walk over it | extended by `RkhKernel` |
| `RkhKernel` | queues, scheduler and timers together | through `MCRkhKernel`: `rkh_kernel` |
| `CmdParser` | receive interrupt, receive ring, idle hook's poll and the node's parser | through `MCCmdParser`: `parser`, `parser_cut` |
| `FrameTx` | the thread and the tick writing frames, the bytes on their way, the application's parser | through `MCFrameTx`: `frames`, `frames_mixed` |
| `Settings` | the three entries and the checks on them | extended by the next three |
| `SettingsStore` | abstract: settings that outlive resets | refined by `ConfigStore` |
| `EepromEmu` | the emulated EEPROM: rows, versions, cache, page map, and every operation on them | extended by `ConfigStore` |
| `ConfigStore` | power up and `updateCfg` driving it, with resets anywhere | through `MCConfigStore`: `settings` |
| `SppServer` | the program of the BLE module | extended by `BleLink` |
| `BleLink` | the module and the node's debouncer of its pin | `ble_link` |
| `TaskTimeout` | the application's time-out on a clock that wraps | extended by `FrameTx` |
| `*_proofs` | theorems and proofs about the module they extend | TLAPS |

**PlatC.**  `st` and `hist` are the active object's state and shallow history,
`g` is `g_controlData` (its flags), `tmr` is `me->tmr`, `queue` the pointers in
`qPlatC` and `ev` what the static events hold now: dispatch reads `ev` of the
pointer at the head, as the code does.  `line`, `sm`, `tout` and `window` are
the interrupt's static variables.  `pc` and `left` say where the thread is when
an interrupt can come in: in the loop, in the idle hook, in the reset delay of
`unlinkedEntry`, or in a transmission.  `Tick` is the whole of
`hwTimerExpiryCb`: `rkh_hook_timetick`, then the walk over the timers.  Each
handler of the active object is an action; those that busy-wait are two,
before and after the wait.  Everything in between is atomic, since a step that
does not wait takes microseconds and the tick is re-armed at the end of its own
handler; an interrupt elsewhere in the step commutes with it.  `stay` and
`lost` are history variables for properties.

**RkhSm and PlatCChart.**  `PlatC` states the outcome of a dispatch: which
events a state handles in place, where a row leads, and the actions in their
order.  `RkhSm` derives it from the chart as the dispatcher does: search
upwards, exits to the LCA with the histories they record, effects, entries, and
default children down to a basic state.  The assumption `DispatchAsInPlatC`
compares the two for every state, history and event; TLC evaluates it in each
run of `PlatC`.

**RkhQueue.**  `sto`, `pin`, `pout`, `qty` are the fields of `RKH_QUEUE_T`,
`ready` the ready group.  A post (from an interrupt or a handler) is atomic, a
critical section in the code, and may come at any time, between the choice of
an active object and the get in particular.  `Waiting` reads a ring from `pout`
on; it is the refinement mapping to `EventQueue`.

**RkhTimer and RkhKernel.**  The list is `thead` and the fields of the timers.
A tick's walk is one step per timer, each unlinking the timer, or counting it
and, at 0, posting its event.  Nothing of the thread comes between those steps,
but a post in the walk may find a queue full.  `SetPeriod` is the head of
`RKH_TMR_ONESHOT` and `RKH_TMR_PERIODIC`, outside the critical section of
`rkh_tmr_start`, so a tick may come in between.  `RkhTimer`'s refinement of
`TimerService` leaves out the list: a timer that is in it with nothing to count
is to its user one that does not run.

**EepromEmu and ConfigStore.**  A page is its header's number and its data, the
three entries (the page is larger; what the node leaves in it is constant).
`EepromEmu` has the operations of `eeprom.c` on rows, cache and page map, and
`ConfigStore` strings them together, one step per erasure or programming, as
`emu_eeprom_init`, `loadEepromData` and `updateCfg` do.  `Reset` may come
between any two and loses the RAM.  Both operations of the flash are taken as
done or not done.  `told` is history: the configuration last put in force and
acknowledged.  The mapping to `SettingsStore` reads of each entry what the next
power up would find.

**SppServer and BleLink.**  `link`, `takes`, `ccc`, `adv` and `events` are the
stack and the phone, modelled from how the program uses them; `events` is what
has happened and not been handled, so that the loop acts on a link that may be
gone.  `pc` is where the loop is: at its top, or collecting or sending in
`send_spp_data`.  `ResetSet` and `ResetReleased` are the node's reset line.  Bytes are
their numbers, so order and loss can be seen.  The receive FIFO of the hardware
is counted with the ring.  `BleLink` samples the pin with the node's debouncer,
at any time.

**Debounce and DebounceFilter.**  The word is a function from bits to 0 and 1.
`Debounce` keeps the newest sample and how often it was repeated; the theorem
`AbstractionExact` shows that the comparisons cannot tell the difference.

**CmdParser.**  A byte is the pair of its frame and its position in it; `Val`
says what it reads as, so that a payload byte can be taken for a length, or the
end of one frame lie in the payload of another, as happens after a loss.  A
length is one byte; the parser compares it with nothing, and neither does
the model: payloads are as long as a byte can announce, and `Overwrite` is the
turn of the loop that stores a byte behind the 128 of `g_data`.  What that destroys
is not known, so nothing follows it but stuttering (`Overwritten`).  Of the phone
the model takes that its commands are text (`MainActivity.cs` builds them from
JSON in ASCII), in which no byte reads as STX or ETX, and not that they are short.
`line` is the next byte to come.  `Receive` is `SERCOM0_Handler`, `Overrun` a
byte the hardware lost while the tick was sending.  `Poll` begins a call of
`getCompleteMessage`, and each action after it is one turn of its loop, with
bytes arriving in between.  `IdleReturn` is a call of the idle hook that does
nothing; it stands in the model because the thread never stops.  `prevTimeSec`
is assigned when a call begins; the code assigns it at its end, but reads it
nowhere else.  `open`, `got`, `damaged`, `cut` and `due` are history.

**FrameTx.**  The thread formats a text byte by byte (`Open`, `Put`), takes its
length (`Send`) and sends it byte by byte out of `jsonBuff` (`WriteByte`): what
it sends is what the buffer holds by then.  `Sampler` is what the tick does at
the end of a window, one step as nothing interrupts it, anywhere between the
thread's.  A text that fills `jsonBuff` has no terminator, so `strlen` counts
on into the memory behind: for any number of bytes (`Strlens`), of any values
(`Behind`), those of STX and ETX among them, and `FrameByte` truncates the sum to
the 8 bits `uart0_writeByte` sends.  A byte that reads as STX need not be one, so
each carries which byte of which frame it is (`FIRST`, `SEQNO`, `LENGTH`, `END`,
`FOREIGN`, or a byte of a text).  The BLE module is a lossless channel; time passes on the phone
at any point (`Pause`).  The phone takes a byte at a time: its actions are the
cases of `GetCompleteCommand`, each with the time-out before and `SetTimeout`
after it, which `TaskTimeout` models.  `mixed`, `split`, `last`,
`astray` and `swallowed` are history: frames another writer got at, frames the phone saw a pause in, the byte it took
last, whether the parse going on began at a byte that begins no frame, and frames
that began within such a parse.  `PlatC` has the same
transmissions as a number of ticks.

**TaskTimeout.**  `now` is `Environment.TickCount`; `HALF` is 2^31.  `elapsed`
is history, the time the comparisons are to tell.

## 3. Runs

| run | instance | states | shows |
|---|---|---|---|
| `node` | button and BLE pin; commands fitness on/off, buzzer off; transmissions of a tick | 1.6 M | type, modes, radio, timer, link belief, time-outs, queued events, no overflow without the charger pin |
| `charger` | all three pins, no commands | 0.5 M | charging flag, LEDs |
| `live` | button and BLE pin, one command, fair | 36 k | indications and advertising end, the queue drains |
| `queue_full` | all pins, one command | - | violation: the queue of four overflows |
| `link_loss` | button and BLE pin | - | violation: a link lost in `motionDetect` is forgotten |
| `ble_link` | ring of 1, packets of 1 or 2, two bytes, two events waiting, a filter of 4 bits | 300 k | the module ends up as its phone has it; packets fit; bytes in order; a lost link is noticed; clean levels taken; bytes move |
| `settings` | 4 rows, one logical page in use, three entries | 9.6 k | acknowledged settings survive; the spare row is erased; refines `SettingsStore`; no page programmed twice; a node in the end comes up |
| `rkh_kernel` | 2 active objects, rings of 2, 2 events, 3 timers, periods 0 and 1 | 1.1 M | ring and table agree; no assertion but that of a full queue; the list is well formed; refines `EventQueue` and `TimerService` |
| `parser` | three frames, ring of 18, one byte lost by the hardware, five seconds | 1.6 M | `g_data` is overrun after a loss and not without; a frame waiting whole is received; nobody receives what was not sent; only cut frames are lost |
| `parser_cut` | the same without losses | - | violation: a frame arriving around a poll is lost |
| `frames` | two messages of the thread, the first as long as the buffer, one of the sampler; behind the buffer a byte of any value; ints of 2 bits on the phone | 5.7 M | frames nobody interfered with arrive, or began within a parse gone astray; no text in place of another; the time-out is exact at every tick count |
| `frames_mixed` | two messages of the thread, one of the sampler | - | violation: a frame within a frame |

Bounds.  Times are scaled down: an instance keeps the order of the code's
times, which `MCPlatC!Proportions` states and TLC evaluates; it implies the
`Spacing` that two of the theorems assume.  What matters for
the interleavings is which timer can expire within which wait, and that a
debouncer is slower than a reset pulse and faster than a time-out.  `Moving`
says which pins change (the others read inactive), `Commands` which commands
the phone sends; three runs split the product of all inputs, which is too
large for one.  `SEND_TICKS` is the number of ticks that may fall into a
transmission (at most 2 at 115200 baud for 150 bytes).  A queue of 4 is the
code's own.  In `rkh_kernel` the rings are 2 long so that they wrap within a few
steps, and there are two active objects so that priorities matter.  Three timers
(symmetric) are the fewest with a first, a last and one between; a count of 2
lets a timer survive a tick, and a period of 1 expire again in the next.

In `settings`, four rows are the fewest with a spare row, the master row and two
that hold data, so that a move takes data out of one row while another stays;
only the first logical page is written, as by the firmware, and `Blank` ones lie
about from the formatting.  Each entry has two values the phone may send, one of
them perhaps refused.  Updates and resets are not bounded: a row fills and is
moved for ever.

In `ble_link` the ring is full with one byte, a packet of two needs two reads,
and two events waiting are enough for a link to be closed and opened again
behind the loop's back.  `MaxBlocks` bounds the count of sleep blocks, which the
loop raises with every enable.  The filter of 4 bits with a mask of 2 keeps the
code's asymmetry: more zeros before a press than ones to see it.

In `parser` two frames fit into the ring and the third overflows it; a byte of
text taken for a length announces more than any frame, so that a parser out of
step swallows the next, and in two of the frames more than `g_data` holds, so that
it may overrun it; the time in ms wraps in the third second.  In `frames` the
first message fills `jsonBuff`, so that `strlen` may run on behind it, and the
sampler's message falls into either frame, or between them.  `MaxBehind` is 1 and
`BYTE` 6, the buffer having 5: with a byte of the memory behind, a length of 6
reads as 0, so that one truncated is reached, and the byte has any value, so that
it reads as STX, as ETX, as a length or as text.  One is enough for a parse to
begin where no frame does, and to go on past the end of its frame; the proofs
have any number, and lengths truncated to any value.  The phone's clock wraps
within a frame, at any byte; two bits are enough for `now` and for the end of the
time-out to wrap apart.

`CHECK_DEADLOCK FALSE` is in `queue_full` and `rkh_kernel`, where a failed
assertion stops the program (`rkh_assert` disables interrupts and loops), and in
`frames` and `frames_mixed`, where the messages come to an end.

Fairness.  `FairSpec` assumes weak fairness of the tick, whose handler re-arms
the hardware timer before it returns, and of the thread, which runs whenever no
interrupt is served.  Nothing is assumed of the pins, the button or the phone.
`ConfigStore` is fair to the node's own steps, not to resets: `Recovers` says
that a node that is not reset for ever comes up.  `LinkSpec` is weakly fair to
the module's loop and to the node's tick, which runs whatever the module does,
and strongly to the loop's turn to forwarding: `BytesMove` is stated for phones
that let the loop find no event waiting time and again, and the loop, faster
than the air, is not for ever a step too late.

## 4. What the violations say

- `queue_full`: while the idle hook parses a frame, a tick may post a button, a
  BLE and a charger event and the timer's; the command is the fifth post, and
  `RKH_ASSERT(q->qty < q->nelems)` stops the node.  `node` shows that four
  slots are enough while the charger pin is quiet, and six are proved enough
  whatever it does.
- `link_loss`: `motionDetect` has no row for `evDisconnected`.  The node goes back
  to `linked` without a link.  The module has begun to advertise again on the
  close (`spp_server_main.c` 187-188), so a phone can still find it, but the node
  runs no time-out of 60 s after which it would hide, and goes on as if
  connected until another link has been made and lost, or the button is held.
  `node` shows that this is the only way to a wrong belief in a link.
- `parser_cut`: the parser keeps its place in a frame between calls, but gives
  it up 100 ms after the last byte, and is called once a second.  A frame that
  is arriving at the time of a call is lost.  `parser` shows that this is the
  only way to lose a frame that arrives without an error, and that a frame
  waiting whole is received whatever happened before.
- `frames_mixed`: the tick sends the sampler's frame in the middle of the
  thread's.  `frames` shows that the damage ends with the frames concerned, but
  for frames that begin while the phone parses from one of their bytes.

What else modelling showed, of which no document of the repository promises the
contrary:

- The debouncers compare a word of 32 bits with masks for 8 (`platC.c` 62-63,
  328-331): a pin that bounces at the press is not seen however long it is then
  held, since 24 zeros must precede the 8 ones.  `TakesCleanLevels` says which
  levels are taken.
- `updateCfg` acknowledges a configuration it refused (`platC.c` 695).
- The node's parser has no check on a length (`bgm113_cmds_parser.c` 154,
  165-168).  A payload longer than 128 bytes overruns `g_data`, and so does a
  shorter one if, after a byte was lost, a character of text that reads as 129 or
  more is taken for the length; the application's ASCII has none.
  `StaysInBounds` says that these are the only ways, whatever the text.
- A message too long for `jsonBuff` (`platC.c` 225) is sent with what lies
  behind the buffer, and with a length of which 8 bits are left.  When the phone
  gives such a frame up half-way, or ends it early, and then meets a byte that
  reads as STX, it parses from there, and loses frames that begin meanwhile:
  messages that are short, whole and nobody's business.  `UnmixedReceived` has
  this as its one exception, and an overlong or mixed frame must have come before.
- A reset amid `updateCfg` leaves a configuration with some entries of the new
  and some of the old one; `SettingsStore` allows exactly that.
- `is_full_row` takes a row of which only the first page is programmed for full
  (`eeprom.c` 255), as two erased headers are alike.  It is the order of the
  rows that saves the data in the first logical page; the second of the row may
  be lost when a reset hits a move with it in the cache, but the node never uses
  it.
- The module sets its UART up with the first `RETARGET_ReadChar`, so what the
  node sends before the first phone enables notifications is lost.
- Bytes of the node received under one link and not sent go to the phone of the
  next; a packet being collected when the link closes is dropped.
- The count of sleep blocks has 8 bits and wraps with 256 enables without a
  close or disable between.
- The application sends the key `e` for the buzzer (`BLECommandsTypes.cs` 69)
  where the node looks for `b` (`platC_cmds_handlers.c` 88), finds nothing and
  takes it for 0: a phone can only switch the buzzer off.

## 5. Proofs

All theorems hold for every value of the constants under the named assumptions
(`PlatCAssumption`, `DebounceAssumption`, `RkhQueueAssumption`,
`RkhTimerAssumption`, `RkhKernelAssumption`, `LineAssumption`, `TimeAssumption`,
`FrameAssumption`, `TickAssumption`, `SppAssumption`, `SettingsAssumption`,
`RowsAssumption`), which bound nothing from above but the eight priorities of
one ready group, the 255 sleep blocks, the rows of the emulated EEPROM (3 to
64, what its master page has room for), and bytes, and order some sizes: a
transmission is shorter than the time-out of `unlinked` (2 ticks against 6000), a
length of the phone's is a byte and a sampler message fits into `jsonBuff`, which is
not larger than a byte can count, no text is so short (3 bytes) that its
length reads as a control character, and no byte of a text does, the parser's
time-out is at most a second and the phone's shorter than its clock's range, a
large packet is no shorter than the default one.  Nothing is assumed of how long
a payload is compared with `g_data`, or of the memory behind `jsonBuff`.

- `PlatC_proofs`: `TypeCorrect` ([]TypeOK).  `ModesAgree` and `RadioAgrees`
  from one inductive invariant: their conjunction with `TypeOK` is inductive,
  because `RadioAgreement` needs to know where the thread is in `unlinked`, and
  `ModeAgreement` which state history returns to.  `LedsAreTruthful` from that
  the LEDs show the flags at every instant an interrupt can look.
  `ChargingFollowsPin` and `ConnectedIsLinked` from what the queue still holds:
  a flag is that of the pin, or the event that makes it so is queued, or was
  discarded in `motionDetect` (`BatteryKnown`, `BleKnown`).  Re-tagging a queued
  event cannot break that, as what counts is what the event says now; an
  `evDisconnected` that arrives twice, or where there is no row for it, finds
  the flag right already.  `TimerAgrees`, `HidesInTime` and `IndicationIsFull` from
  `TimerInv`: while the timer counts, ticks left and ticks stayed add up to the
  time-out, and once its event is queued, nothing that waits before it takes the
  node to a state that starts the timer again.  The second part is the hard one:
  in `unlinked` it takes that at most one command is queued, that a reply right
  after the start of the timer cannot outlast it, and so that the tick which
  posts the time-out finds the queue empty.
  `QueuedStaysAsPosted` and `QueueNeverFull` say that the event objects, one of
  each kind and not copied, and the four slots are enough, which is a matter of
  time: no source posts again before its last event was taken from the queue.
  The invariant `Spaced` sets the ticks that an event may still wait
  (`ButtonCost`, `BleCost`: the rest of the present transmission or reset, and
  those the events ahead of it can begin) against the ticks in which its source
  must stay quiet, read off its debouncer and its long-press timer
  (`ButtonQuiet`, `BleQuiet`).  A tick takes one from both; what the thread gets
  from the queue moves its cost from the events ahead to the wait; and a post
  begins with a quiet time longer than the longest wait.  A press is the subtle
  case, since a release may follow it within `FilterWidth` samples and a long
  press within `SHORT2LONG_BUTT_TIME`, and a reset can only be ahead of it when
  the node is linked.  The hypotheses are `Spacing`, that two transmissions are
  no longer than `SetRun` samples, and two and a reset shorter than a filter and
  than a long press (2, 8, 10, 32 and 300 ticks in the code).  `QueueNeverFull`
  also takes at least four slots and a charger that stays unplugged, and cannot
  do without: with the charger the battery's object is queued twice, and
  `queue_full` shows the fatal assertion.  With each kind queued at most once
  (`NoneBehind`), four kinds fill four slots, and a post finds its own kind
  missing.
  `SixSlotsSuffice` says what the queue would need: six slots, whatever the
  charger does, if two transmissions and two resets are shorter than
  `FilterWidth` samples (`ChargerSpacing`, 24 ticks against 32 in the code).  Its
  invariant `BatterySpaced` is that the charger's object is queued at most twice
  (`AtMostTwice`): an unplug takes `FilterWidth` samples of a low level to be
  seen, and all that is queued is handled in less.  So five kinds, one of them
  twice, fill at most six slots (`SixAtMost`).
- `DebounceFilter_proofs`: `AbstractionExact`.  `SameVerdicts` is not
  inductive; the invariant `Abstracts` says of every run length what the word
  then looks like: which bits are known.  `CleanLevelsTaken` is of the words
  themselves: the levels read last are their lower bits (`Runs`), and a level
  that was taken is in the word until another is (`Kept`).
- `RkhQueue_proofs`: the lemmas on the queues alone, `QueuesAgree`,
  `StopsOnlyWhenFull`, `HighestIsServed`, and `RingsImplementQueues`, the
  refinement: initial states map to initial states, and each step to the
  corresponding step of `EventQueue`, or, for the scheduler's choice, to a
  stutter.  The inductive invariant adds to `QueueAgreement` that slots in use
  hold events and that the active object chosen still has work when the thread
  comes to the get.
- `RkhKernel_proofs`: `KernelRunsQueues`, that every step of the kernel is one
  of `RkhQueue` or leaves the queues alone, so that the theorems above hold in
  the kernel too (`KernelQueuesAgree`, `KernelStopsOnlyWhenFull`,
  `KernelServesHighest`, `KernelImplementsQueues`; `rkh_kernel` checks them but
  for the third), and the types (`KernelTypeCorrect`).  Then the timers'
  list, for any number of them: `ListIsSound` and, by refinement, `TimersServe`.
  What is linked from a timer is the least set that holds it and is closed under
  `next`, so that no induction along the list is needed.  The invariant
  strengthens `ListAgrees`: the list is a chain, of which no two timers have the
  same next and none leads back to the first.  Then no timer is linked behind
  itself (`NoReturn`), which is why unlinking one, at the head or during the
  walk, takes exactly that one out, of the list and of what is left of the walk
  (`LinkedRest`, `LinkedWithout`); and a pass of the walk is either `Count` of
  `TimerService` or a stutter, when it only unlinks a timer that was stopped.
- `CmdParser_proofs`: `CmdTypeCorrect`, in which a length is any byte and the
  parser has stored no more than that, or than `g_data` holds, before it is over
  its end.  `HeadReceived`, whose invariant
  describes how far a call has got into the frame `due`: in each parser state,
  which bytes have been taken and that the rest still head the ring.  The step
  that needs an argument is the first, `GiveUp`: a time-out set in an earlier
  second has always expired, so the parser begins with the frame.  It holds
  until the time in ms wraps, and `Unwrapped` says so.  `NoneForged` and
  `LossesAreCuts` hold of a line whose hardware loses no byte, from where every
  byte is: the ring holds all from its head to the next on the line, in order
  (`Unbroken`, or a byte found it full and the frame is a cut one), and the
  parser is where its state says within the frame at the head (`Aligned`), or
  past one it has given up (`Left`, `Passed`).  That a byte of the payload never
  reads as STX or ETX does the rest: a parser that has lost its place finds none
  until the next frame begins.  `BoundsKept` rests on the same: without a loss
  what is taken for a length is one, and otherwise it is a control character, a
  length or a byte of text, of which one above the size of `g_data` is what
  `Excuse` asks for.
- `ConfigStore_proofs`: `AcknowledgedSurvives`, `SpareStaysErased`,
  `ProgrammedOnce`, and `StoreIsImplemented`, the refinement.  The settings fill
  logical page 0 only, so rows 0 and 1 take turns: one is in use, with versions
  of the page from left to right, and the other is erased (`Tidy`) or, after a
  reset in a move, has one page (`Torn`); a reset while formatting leaves
  `Partial`.  What a power up would read (`Recovered`) is the last version of
  the row in use, or row 1's of a torn pair, and the invariant says at every
  step between two flash operations what that is.  Each action has a lemma that
  gives the invariant, what is recovered then, and that only erased pages were
  programmed.  For the refinement, the flash steps of a write are one `Write` of
  the abstract store and otherwise stutters: which one it is depends on the rows,
  because a copy in row 1 counts at once and one in row 0 when row 1 is erased.
- `FrameTx_proofs`: `TimeoutIsExact`, of `TaskTimeout` alone; its invariant
  gives the clock and the end of the time-out as functions of the time elapsed.
  `FrameTypeCorrect`, which needs that a thread that is not
  idle works on a message and that what travels are bytes of some frame; and
  `ParserTimeoutIsExact`: every step of `FrameTx` is a step of `TaskTimeout` or
  leaves the clock alone, so `TimeoutIsExact` applies.  `UnmixedArrive` counts
  positions on the line, the parser's own frame beginning before the first.  A
  parse that began at a frame's first byte never ends beyond what is on the line
  or still to be sent of the frame the thread is in (`LineOK`), however frames are
  mixed up: what it takes for a length is its frame's, or the 8 bits left of it, or
  the STX or sequence number of a frame that came amid it.  So no
  such parse reaches a frame that begins when none is being sent (`Free`): the
  parser is idle at its first byte, and from there on is as far into it as bytes of
  it have been taken, unless a pause is noted (`OnItsWay`).  A parse that began
  elsewhere is noted as `astray`, and what begins within it as `swallowed`; and
  as long as no frame is mixed or overlong nothing on the line reads as STX but
  the first bytes of frames (`Clean`), so that nothing is.  `NoneFalse` adds
  that, with nothing mixed up, the parser is within the frame it began with, or
  astray (`Within`); that the bytes of a frame lie one behind the other
  (`Adjacent`, `Lost`), so that a parse gone astray has missed the beginning of
  the text it is in and can take none whole; and that a frame is new until it is
  handed over, once (`Fresh`, `Single`).
- `SppServer_proofs`: `SppTypeCorrect`, `LoopCatchesUp`, `PacketsFit`,
  `BytesInOrder` and `AwakeToForward`, of `SppSpec`, the module with any node;
  `ble_link` runs it under `LinkSpec`, whose steps are the same with the tick's
  added.  One inductive invariant says what handling the events that wait will
  make of the module's state: the order they can have (a link is opened before
  notifications are enabled, and closed last), and that state, pin, packet size
  and sleep blocks follow from the last of each kind, so that nothing is left to
  follow from once none waits.  `PacketsFit` adds that a packet being collected
  is for a link of that size or for one that is closed, and `BytesInOrder` that
  what was received, is collected and waits are increasing, in this order.

`AbstractionExact`, `KernelRunsQueues`, `KernelTypeCorrect`, `AwakeToForward` and
`KernelServesHighest` have no run to agree with; the others state a property that TLC
checks on an instance.

Every invariant and action property that a passing run checks is so stated by a
theorem, but for the agreement of `PlatC` with its chart (`DispatchAsInPlatC`),
which TLC evaluates in full.  Only model-checked besides: liveness, which the
prover does not support (fairness needs ENABLED).

## 6. Not modelled

Values of samples, statistics and unit conversions; the text of the JSON
messages; LED blinking beyond on, off and blinking; the rows for
`evMotionDetect`, a signal no code posts (`PlatCChart` has them); tracing; sleep
modes of the node (commented out in the code) and the module's counters; what
the disabled features of RKH would do (`put_lifo`, deferred events, choices,
submachines, deep history); the GATT database; drivers (`mpu9250.c`, `buzzer.c`,
`battery.c`, `push_button.c`), which set registers and convert units; vendor
code, which is most of `src/`: ASF, emlib, CMSIS and the BLE stack are modelled
where the program uses them (`eeprom.c`, the stack's events), and not otherwise.
Of the Android application only the parser is modelled: its activity is user
interface and its services upload what they are given.

## 7. What is left

1. `FitnessLink`: commands the application repeats, acknowledgements without a
   number, frames left in the receive ring when a link ends.
2. Proofs: whether five slots would do with the charger as well (of four,
   `queue_full` shows that they do not, of six `SixSlotsSuffice` that they do);
   `DispatchAsInPlatC`, which has no constants, so that TLC's evaluation of it is
   complete already.
