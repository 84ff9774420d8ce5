# TLA+ specifications of the BeagleBoard base port

The repository is the Symbian OS base port for the BeagleBoard: what the kernel
needs to run on a TI OMAP3530 with its TPS65950 power companion chip. It is
kernel-side C++: extensions and device drivers that talk to each other through
function calls, deferred function calls (DFCs, run by kernel threads), interrupt
service routines (ISRs) and fast semaphores. This directory holds TLA+
specifications of its drivers, translated from the source, the TLC
configurations that check them, and proofs checked by TLAPS.

All paths below are relative to `src/omap3530/`.

## 1. Inventory

**I2C bus driver** (`omap3530_drivers/i2c/i2c.cpp`, `omap3530_i2creg.h`).
*State*, per unit: table of open slave devices (`iDevice`, `iNumDevices`), each
with a semaphore and a DFC; the linked list of transfers (`iTransferQ`); the
current phase and state of the active transfer; the controller's registers.
*Operations*: `Open`, `Close`, `TransferS` (waits on a semaphore), `TransferA`
(completes by DFC), `TheIsr`, `TheDfc`, `Complete`, and `ReadB`/`WriteB` with
retries. *Interaction*: called by the TPS65950 driver and the board's drivers;
binds its IRQ with the interrupt dispatcher. *Hard*: ISR, DFC and client threads
share the list and the table; slots move on `Close`; slaves refuse and
arbitration is lost at any time. *Correct if*: the active transfer is the head
of the list, requests finish once, in order and eventually, success means every
byte was moved, the right slave is addressed and the right thread woken.

**TPS65950 register queue** (`shared/tps65950/tps65950.cpp`). *State*: a queue of
requests (chains of phases), the driver's state, the count of
`DisableProtect()` calls, the results of the two I2C transfer blocks.
*Operations*: `ExecAsync`, the synchronous functions on top of it,
`StartRequest`, `CompletionDfcFunction`. *Interaction*: I2C below; real time
clock, USB transceiver and the chip's interrupt controller above. *Hard*: lock
free hand-over of the queue between client threads and the DFC. *Correct if*: one
transfer at a time, every request started, completed once, in order, with its
effect and a true result; registers unprotected exactly while somebody holds
a `DisableProtect()`.

**Time of day** (`beagleboard/src/variant.cpp`, `tps65950.cpp` 590-740). *State*:
the chip's clock, its latched copy, and the register a reader has come to.
*Operations*: conversions between seconds since 2000 and the chip's BCD date;
`GetRtcData`, `SetRtcData`. *Hard*: the date is read register by register while the clock
runs on. *Correct if* a date that is read was the date at one moment, and the
conversions are inverse to each other.

**Interrupt dispatchers** (`assp/src/interrupts.cpp`,
`omap3530_drivers/gpio/gpio_interrupts.cpp`, the dispatcher in
`omap3530_drivers/prcm/prcm.cpp`, `shared/tps65950/tps65950_int.cpp`). *State*:
handler tables, mask and enable registers, latched status, the PRCM's count of
enabled sources. *Operations*: `Bind`, `Unbind`, `Enable`, `Disable`, `Clear`,
dispatch. *Interaction*: the GPIO, PRCM and TPS65950 dispatchers are handlers of
the main one; the last dispatches from a DFC that reads the chip through the
register queue. *Hard*: locks cover single steps of the calls; the IRQ comes
between any two; handlers disable themselves; events come between the reading of a
register and its acknowledgement. *Correct if*: a source has one owner, no interrupt
reaches an unbound handler, no enabled event is lost.

**SPI master** (`omap3530_drivers/spi/master.cpp`). *State*: the
current transaction and the place in its chain of transfers, buffers, direction
flags, chip selects. *Operations*: `DoRequest`, ISR, end-of-transfer DFC, timeout.
*Interaction*: the kernel's IIC layer queues transactions and is told of their
end. *Hard*: timeout against DFC against ISR; refusal in the middle of a chain;
full duplex ends in two directions. *Correct if*: one completion per request,
silence afterwards, one slave selected, success means that all was moved.

**USB client controller** (`omap3530_drivers/usbcc/pa_usbc.cpp`). *State*: per
endpoint the outstanding request, received bytes, short packet timer, "no buffer"
and "disabled" flags; the control endpoint's stage. *Operations*: set up a read or
a write, cancel, stall, the endpoints' ISRs, the timer. *Hard*: the ISR, the timer
and the client's cancel and next request; a host that goes on to the next setup
packet while the driver serves the last one. *Correct if*: each request completes once,
with the bytes that arrived for it, no packet waits for ever, and an answer
goes to the request it answers.

**Media drivers** (`beagle_medstaticrd.cpp`, `medwb.cpp`). *State*: the current
request, the position in it, the transfer buffer and, for `medwb`, which block it
holds; the table of partitions. *Operations*: read, write, format, the DFCs that
move one piece each, the decoding of the partition table. *Hard*: splitting into
blocks, read-modify-write of shared sectors, a buffer that serves later reads.
*Correct if*: the medium changes as the requests say and reads return what it holds;
partitions are disjoint.

**Kernel tick** (`shared/mstick/mstick.cpp`). *State*: the timer, the ticks to be
added, whether ticks are suppressed. *Hard*: the timer runs on between register
accesses. *Correct if* ticks slept plus ticks delivered equal ticks elapsed.

**Display** (`beagle_drivers/lcd/lcd.cpp`). *State*: legacy, composition and user
buffers (free, pending, active), the request behind a user buffer. *Operations*: post,
get a buffer, wait, the DFC of the vertical synchronisation. *Correct if*: a buffer on
screen is not handed out, and every user buffer's request ends.

**Sound output** (`soundsc/shared_txsound.cpp`). *State*: a queue of transfers drained by
one timer. *Hard*: `StopTransfer`, the timer, and callbacks that queue the next buffer.
*Correct if*: every buffer comes back once.

**Touch screen** (`byd_touch`). *State*: the sampling state machine, the arrays of
samples, the controller's last address, the calibration matrix. *Hard*: pen
interrupt and timer both queue the sampling DFC; the controller's address register is
cached. *Correct if*: no sample is written behind the arrays, a lifted pen is reported,
a read returns the register asked for, points touched map to the points shown.

**Serial drivers** (`euart.cpp`, `serialmouse.cpp`, `serialkeyboard.cpp`,
`uart.cpp`). *Hard*: start and stop of transmission between thread, ISR and flow
control; one byte handed from ISR to DFC. *Correct if*: bytes are sent once, in order
and eventually, and frames reported are frames of the device.

**West Bridge** (`beagle_drivers/wb`): the chip vendor's interface library, below
`medwb.cpp`. *State*: one mailbox in each direction; per context the queue of requests,
the mailboxes received and the request being put together (`cyaslowlevel.c`); per endpoint
the queue of DMA requests and the block that is moving (`cyasdma.c`, `cyashalbeagleboard.cpp`);
of a storage operation, whether its reply and its DMA have come and the first error
(`cyasstorage.c`), the count of starts and the description of each device; the callbacks of the asynchronous calls,
in the order of the calls (`cyasmisc.c`); of endpoint 0, what delays the acknowledgement of the setup packet
(`cyasusb.c`). *Operations*: send a request, wait for its reply, serve the mailbox
interrupt, answer a request of the firmware; read and write blocks, start, stop, claim and
query the storage, synchronously or not; answer a setup packet, and drop the answer when the
host sends another packet or a reset.
*Hard*: the chip's interrupt between any two steps of the thread; two sides that each wait
for the other's mailbox; reply and DMA that end in either order; timeouts of the mailbox, of
the reply and of the DMA. *Correct if*: each response reaches its own request, each request of the
firmware its callback, neither side waits for ever, an operation that succeeds has moved its
blocks, and each setup packet gets its own answer with the acknowledgement last.

**Start-up code, tables and single register accesses**: bootstrap and ROM
descriptions, HAL values and key tables, the register access layer, GPIO pins, the USB
transceiver, the crash monitor, the heartbeat LED, the SPI slave (a template whose
ISR is commented out).

`PROJECT.json` lists every part with its status, and under `hazards` the places
in this code that are hardest to test, with the property that covers each or the
reason why none does.

## 2. The modules

| Module | Models | Builds on |
|---|---|---|
| `TransferQueue` | abstract specification: a first-in first-out service | |
| `I2c` | one I2C unit with its clients, ISR, DFC, controller and bus | implements `TransferQueue` |
| `I2cReg` | `ReadB`/`WriteB` and their retries | extends `I2c` |
| `I2cInvariant` | the invariants of its proofs, which TLC checks too | extends `I2c` |
| `I2cProofs` | the properties of `I2c` and `I2cReg`; `I2c` implements `TransferQueue`; proved | extends `I2cReg`, `I2cInvariant` |
| `Tps65950` | the register queue, its threads by priority, I2C and chip | implements `TransferQueue` |
| `TimeOfDay` | the chip's clock, its registers, and the conversions | |
| `TpsProofs` | `Tps65950` implements `TransferQueue`; its assertion holds and no request goes back twice; what a request has done to the chip, the protection, the results; proved | extends `Tps65950` |
| `Interrupts` | main dispatcher and one GPIO bank behind it | |
| `TpsInterrupts` | the chip's interrupt controller: clients, ISR, DFC, clear-on-read registers | |
| `PrcmInterrupts` | the PRCM's dispatcher and its count of enabled sources | |
| `SpiMaster` | one SPI master channel under the IIC layer | |
| `InterruptsProofs` | binding, spurious interrupts and bank masking; the count of the PRCM; no spurious handler of the TPS65950; proved | extends `Interrupts`, `PrcmInterrupts`, `TpsInterrupts` |
| `SpiMasterProofs` | one request at a time, of which every word is moved; proved | extends `SpiMaster` |
| `UsbBulkOut`, `UsbBulkIn`, `UsbControl` | one bulk OUT, one bulk IN and the control endpoint, with client and host | |
| `DriverProofs` | bytes in order, every tick counted, each user buffer's request ended, samples inside their arrays; answers of USB control reads, packets of a bulk OUT endpoint; proved | extends `UartTransmit`, `MsTick`, `LcdBuffers`, `TouchScreen`, `UsbControl`, `UsbBulkOut` |
| `MediaStaticRd`, `MediaWb` | the two media drivers, with an ideal medium beside them | |
| `WbLowLevel` | the mailbox protocol of the West Bridge: thread, DFC, callbacks and firmware | |
| `WbLowLevelProofs` | messages arrive once, whole, in order and at their own requests; proved | extends `WbLowLevel` |
| `WbStorage` | storage operations of the West Bridge with their DMA and reply | |
| `WbApiProofs` | a storage operation that succeeds has moved its blocks, and its callback came once; each setup packet gets its own answer; proved | extends `WbStorage`, `WbControl` |
| `WbServices` | its storage services: start and stop, ownership, queries, the descriptions of devices that they keep, the queue of callbacks | |
| `WestBridgeProofs` | each call its own answer; what the services know is true; proved | extends `WbServices` |
| `WbControl` | its control transfers: setup packets, the requests that answer them, delayed acknowledgements | |
| `MsTick` | the tick, its suppression, and the running timer | |
| `LcdBuffers` | the buffers of the display driver | |
| `SoundTransfers` | the queue of sound buffers and its timer | |
| `TouchScreen`, `TouchController`, `Calibration` | sampling; the controller's registers; the mapping of coordinates | |
| `SerialMouse`, `UartTransmit` | frames of the mouse; transmission and flow control of the extended UART | |
| `MCI2c`, `MCI2cProofs`, `MCI2cReg`, `MCTps65950`, `MCInterrupts`, `MCSpiMaster` | instances for TLC | the module of that name; `MCI2cProofs`: `MCI2c` and `I2cInvariant` |
| `MCIrqTree` | the four dispatchers in three levels | `Interrupts`, `TpsInterrupts`, `PrcmInterrupts` |
| `MCDrivers` | the drivers in which interrupts, DFCs, timers and clients meet | `SpiMaster`, the OUT and control endpoints, sound, touch, UART |
| `MCDevices` | the components whose hazards are in their data | extends `I2cReg`, `MsTick`, `LcdBuffers`, `WbLowLevel`, `WbStorage`, `WbServices`, `WbControl`; instances of bulk IN, media, clocks, display, mouse, touch controller, calibration |

The last three put several components into one specification. These share no state,
so an interleaving of two of them would show nothing: the variable `part`, chosen in
the initial state, names the component that runs, and the others stand still.
A property then speaks of the behaviours in which its component runs; an
initial state of another component satisfies it.

### How a step of a model corresponds to the code

*Threads.* A function that runs under a lock, in an ISR, or on a DFC queue that
nothing it interacts with can preempt is one action. A function that can be
preempted at a place where others see its state is cut there, and a
program counter (`thread`, `dfcPc`, `pc`) says where it is. The leading comment of
each module names what it abstracts.

`I2c`. `OpenFirst`, `OpenError`, `OpenAnother` are the outcomes of `Open()`;
`Close()` is cut where it has taken the device out of the count and has not yet
moved the slots (`CloseFind`, `CloseShift`). `TransferS` and `TransferA` add the
block and start it if the list was empty; `FSWait` and `TransferSReturn` are the
two sides of the semaphore. `TheDfc()` is `DfcStart` (program the
controller), `DfcEnter`, and one action per branch of its loop over the status
bits (`LoopNack`, `LoopArbitrationLost`, `LoopNextPhase`, `LoopDone`,
`LoopData`), which follow each other in the code's order of tests; `Complete()`
is `CompletePop`, then `SignalSync` or `EnqueCompletion`. The status register is
a set of bits, data are byte counts. `Hw...` actions are the controller and
the bus.

`Tps65950`. A `TReq` has its action and its masks; the chip has one register
(a set of bits) and its protection key. `ExecAsync` is cut where the DFC can take
over: after the queueing (`added`), after the state has been seen idle
(`idleSeen`), after it has been set (`pending`). The compare-and-swap is
modelled as the code has it, a load, a test and a store. `CompletionDfcFunction`
is cut the same way. A thread steps only while no thread of higher priority
is inside the driver, which is how the kernel schedules.

`Interrupts`, `TpsInterrupts`, `PrcmInterrupts`. A call is one action for each lock it
takes; `IrqDispatch` and `DispatchIsr` are cut at each register access and each handler; the
handlers may disable themselves, as those of the port do. The DFC of the chip's
controller is cut at each register it reads, for the read is a request to the register
queue. Latched status, masks and enables are sets.

`SpiMaster`, `UsbBulkOut`, `UsbControl`, `TouchScreen`. The functions of the driver are
operators from a record to a record, composed as the calls are, and the actions
are the entry points. Words and bytes are counted; packets, requests and answers are numbered
so that a property can say whose they are.

`MediaStaticRd`, `MediaWb`. One action per DFC. A byte is its origin (where on the medium, or
which write and which place in it), so that the arithmetic of pieces, positions and
offsets is the code's.

`WbLowLevel`. What runs is a stack of calls (`frames`): `LLSendRequest` pushes
`CyAsLLSendNextRequest()` and the handler of queued mailboxes, `CyAsSendOne()` is a frame that
goes on when the mailbox is free (`WriteMailbox`), reads the firmware's meanwhile (`ReadIntrStatus`) or
gives up (`LLSendTimeout`). The interrupt's DFC pushes a handler wherever interrupts are not masked, and
its callbacks push the calls they make, so that a callback may wait in `CyAsSendOne()` on top of a
thread that does. `ProcessData` is one mailbox of `CyAsMailBoxProcessData()`.
Messages are sequences of parts that say whose they are. `WbStorage` takes the mailbox as a
request and a reply. Its callbacks, which run to their end in the DFC, are operators
from a record to a record; the thread is cut where it sends, drains the DMA queue, sleeps, cancels and
waits for the reply. `WbControl` runs in the DFC alone, to the end of each message: the library's functions,
callbacks included, are operators from a record to a record, and the mailbox a sequence each way.
`WbServices` cuts a thread's call where the DFC can come between: between the callback's insertion and the request
(`send`), while it waits for the reply (`wait`), between the reply's leaving the queue and its use (`woken`), and between
the tests of a read and its request (`use`). A start or a stop is cut between its tests (`ChangeBegins`) and the setting of
"pending" (`ChangeGoesOn`), for nothing protects them. `CallBegins` and `CallInCallback` are the same call, of the thread and of a
callback; a refused call changes nothing and is left out.

`LcdBuffers`, `SoundTransfers`, `SerialMouse`,
`UartTransmit`, `MsTick`, `TimeOfDay`: one action per entry point, cut where an interrupt
or another thread sees the state between; `Calibration` evaluates the matrix with the code's integer division
and shift.


## 3. Runs

| Run | Module, configuration | Shows | Distinct states |
|---|---|---|---|
| `i2c_queue` | `MCI2cProofs`, `I2cQueue` | for two clients on a faulty bus the invariant of the proofs holds (queue, active transfer, interrupt, addressed slave and woken thread stay consistent); the driver is a `TransferQueue` | 357,602 |
| `i2c_single` | `MCI2c`, `I2cSingle` | with one transfer at a time: no failed assertion, success means all bytes moved, the table matches the handles, every transfer completes | 227,803 |
| `tps` | `MCTps65950`, `Tps65950` | requests complete in order with their effect and with their own result, protection follows its count, every request is served: wherever threads preempt each other, until two cross | 202,732 |
| `irq_dispatch` | `MCIrqTree`, `IrqDispatch` | no handler runs for an interrupt that its device did not raise, banks and roots are unmasked while someone listens, events are delivered through all levels | 30,122 |
| `drivers` | `MCDrivers`, `Drivers` | SPI, USB OUT and control, sound, touch and UART complete each request once, with its own data, and end what they start | 89,644 |
| `devices` | `MCDevices`, `Devices` | register accesses, media, clocks, display, mouse, touch controller and calibration give the data they should; West Bridge messages reach whom they are for, each caller gets the answer to its own call, descriptions are those of the media, the storage runs while it is counted, setup packets get their own answers, requests, storage operations, calls of the services and control transfers end, with a true result | 347,480 |
| `i2c_stalled`, `i2c_close_slave`, `tps_empty`, `tps_preempt`, `irq_preempt`, `lcd_free` | | the code contradicts a statement of the repository, see section 5 | violation |

### Bounds, and why they are enough

*I2C.* Two clients with one block each, a two-phase read (address written
without a stop, then data) and a one-phase write; three data bytes at a FIFO
threshold of two, so that a phase has full and partial FIFO requests; a device
table of two slots. This has a queue with one transfer waiting, a phase change
on the same bus tenure, a `Close()` that moves a slot, and faults in
every state. In `i2c_single` five clients open, among them one whose slave is
open already, one too many for the table and one whose configuration is not
supported. More units would not interact; they share no state. The register
access of `I2cReg` retries up to `KMaxTries = 5` times on a slave that refuses its address or a data byte.

*TPS65950.* Two clients and the DFC thread, requests of every kind and a chain of
two phases, on a register of two bits (one that a ClearSet clears and one
that it sets). `KMaxHeld = 1` bounds the nested `DisableProtect()` calls
of one client; the count still reaches two. Two settings, of threads that all have the DFC's priority and
time slices, so that each may be preempted by each other one anywhere: every kind of request on a sound bus; reads, writes, ClearSets and chains on a bus
whose writes may fail. The constraint `Uncrossed` does not explore what follows when two threads have crossed, where
the properties claim nothing.

*Interrupts.* Two pins of one bank and one source that two clients ask for;
`KMaxEvents = 3` bounds what devices raise, so
that each pin and the source can have one, or one pin three in a row. The bits of
a bank are computed from pin numbers beyond 32, as the macro does. Three interrupts of
the chip's controller in two status registers, so that two share a register
and one does not; three interrupts of the PRCM, so that the count of its root
interrupt passes one in both directions.

*SPI.* Six transactions: two half-duplex transfers of two words; a full-duplex chain
of two columns with opposite directions; an empty buffer behind a good one;
full duplex on the second slave; a slave out of range; an empty buffer alone.

*USB.* Lengths are in units of half a packet. Three OUT packets, empty, half or full, for buffers of one packet,
one and a half, and two. Three control transfers, of each kind, so that the host can give one up
for another and the second again; reads that want one packet or more are answered by
less than a packet, a full one (with an empty one behind it where the host
needs it to see the end) and two, at any time, late or not, and the host takes a packet before the ISR ends or after. Three IN writes of 0 to 3 units: empty, short, full, and a full packet
followed by a short one.

*Media.* A RAM disk of twelve bytes with sectors of two and a transfer buffer of eight; requests
of up to four bytes fit a sector, start and end within one, and cross two boundaries; a
West Bridge medium of five blocks of two bytes, two positions, lengths
that end within a block and beyond one; every partition table of two
entries with types, starts and sizes that overlap, are empty, or lie beyond the medium.

*West Bridge.* Two requests of the thread in one context, one of one mailbox and one of two that is
waited for, whose response has two; the firmware asks in both contexts; one mailbox that
is not taken in time and one reply that is late: messages of each side interleave part by part,
each queue has something behind its head, and each timeout meets a request queued, on its way and
answered. Two storage operations of one or two blocks, on the same endpoint or on both,
synchronous or not, with two kinds of failing replies: a second block, an operation refused as
busy, and a second operation after each way in which the first can end. Three calls of four kinds (start, stop, query of a
device, read), each synchronous or from a callback, on one device whose medium changes once, from a storage that is stopped or
started: two calls that wait and one behind them, a query before, across and after a change, a stop and a start between two others, two stops at once, a start that the firmware refuses;
claim, release and the queries of buses and units go the same way as the query of a device, and the theorems are about them too. Three setup packets of five
kinds and one reset, with writes of one or two requests: a packet that comes before, between or after the data and
the acknowledgement of another, and one behind it.

*Clocks.* Seven milliseconds, of which the kernel asks to sleep 1 (too few to suppress), 2 and 5 (more
than the timer's limit, here 4), with an overflow of the timer between any two of its registers' accesses; one date in each year of the leap cycle, and a clock that runs
for 150 days from there, over the ends of months, of February and of a year.

*Display, input, sound.* Two user buffers beside the legacy and composition ones, and `KReplaced = 1` pending one replaced by
another (none in `lcd_free`); groups of two samples in arrays
of four, and a touch screen that is switched twice; four frames of a mouse, of whose bytes at least two arrive
between losses; four buffers of sound, so that two are queued, one is given within a callback and
one after a stop; three bytes to send through a FIFO of two, with an XOFF or XON at any point;
four readings of the touch controller; 24 panels (shifted, scaled, sheared, turned over), on a
screen of 40 by 30 points with 8 binary places.

Deadlock is checked except where the specification may stop: in `i2c_queue`, `i2c_stalled`,
`i2c_close_slave` transfers that nobody starts leave
nothing to do, in `tps` clients may hold what others wait for, and in `drivers` and
`devices` a part ends when its bounded inputs are used up.

### Configurations that keep to what callers do

Some properties need a condition that the drivers' callers keep, or a
condition the code needs and does not enforce. Each is a constant, and
section 5 says what happens with the other value.

| Constant | Module | Condition |
|---|---|---|
| `QuiescentClose = TRUE` | `I2c` | no `Close()` overlaps another client's transfer: the drivers of the port open at boot and never close; the test program closes after its last transfer |
| `Preempt`, `PrcmPreempt` `= FALSE` | `Interrupts`, `PrcmInterrupts` | calls on interrupts do not preempt each other, as at boot |
| `HandlersWait = FALSE`, `ClearsFirst = TRUE` | `TpsInterrupts` | handlers access no register, which would wait within the DFC; a client clears its source before it unbinds it |
| `LateCancel = FALSE` | `UsbBulkOut` | a read is cancelled only before data has come for it |
| `SendsStatus = FALSE` | `UsbControl` | writes are not answered by an own status packet |
| `LateStarts = FALSE` | `WbStorage` | the firmware does not ask for blocks while the thread, after its timeout, cancels them |
| `GivesUp = {"write", "stall"}` | `WbControl` | the host sends a packet or a reset before the answer is complete only while data are sent or after a stall |
| `Preempted = FALSE` | `SoundTransfers` | `TransferData()` is not preempted for as long as its buffer plays |
| `HeldAtStart = FALSE` | `TouchScreen` | the panel is not touched before the layer above is up |
| `XonAtEnd = FALSE` | `UartTransmit` | no XON comes between the thread's finding no more to send and its note of that |
| `BusFaults`, `Faults` | `I2c`, `Tps65950` | which faults the environment produces |

Two restrictions of the data are of the same kind: times have numbers below ten in
each place (`TheTimes`), because `DecimalToBcd()` converts only those; West
Bridge positions leave out block 0, because reading the partition table shifts it in
the buffer that serves later reads.
In `Interrupts`, a pin latches events only while its interrupt is enabled, and
clients disable, clear and then unbind; in `TouchController`, `HardReset()` and `Configure()` come before the first read, as
`DoCreate()` calls them (`xyin.cpp:299-300`).

### Steps that break a property

Other steps break a property and no caller prevents them. They are in the models and in the runs. A history variable, on which no
action depends, records that such a step has been taken, and the property says what holds until then, or how much is lost by it. So the runs and the
theorems cover every behaviour up to the step, and show that nothing else breaks the property.

| Variable | Module | Step it records |
|---|---|---|
| `resumed` | `I2cReg` | a block that was refused after its first byte is tried again, from where it had come to |
| `crossed` | `Tps65950` | a thread finds the driver idle while another that has found it so has not yet said that it is pending, or while the DFC has not yet removed the request that it has finished |
| `mishaps` | `UsbControl` | `"late"`: the layer above answers when the host has given up and the ISR has not read it; `"lost"`: an endpoint interrupt comes before the ISR clears the last one |
| `lost` | `MsTick` | ticks that nobody counts, or that are counted twice: the four places of `LostHere` |
| `replaced` | `LcdBuffers` | requests of a pending user buffer that another user buffer replaces |
| `origin` | `Calibration` | a calibration is restored that was never saved, or the factory's, which the code takes for zero |
| `met`, `overtaken`, `lateStops` | `WbServices` | a medium changes between a reply and its use; a callback reads while a thread prepares a read; a read and a stop overlap; a start or a stop goes on while another is pending; a start that is refused is counted; the calls whose nodes and requests may differ in order; stops that find the storage stopped since their tests |

In `InterruptsProofs` the step is named in the theorem (`EnableMeetsMask`); the run that shows it is `irq_preempt`.

## 4. Fairness

Liveness is checked in `i2c_single`, `tps`, `irq_dispatch`, `drivers` and `devices`, under weak fairness only. Driver threads and DFC threads are
scheduled when ready (they run above user threads, and no model has a thread that
spins); a pending enabled interrupt is taken and returns; a timer that was started expires;
a controller, a line or a bus that was given something to transfer goes on with it, successfully or
not; in the TPS65950 model I2C completes its transfers; at the control endpoint the
host takes the answer it asked for; a panel that is read answers, and a pen that is down
goes up. Of the West Bridge, the call on top of the stack goes on, the DFC runs
when it is not masked, and the firmware takes, answers and puts messages, but needs not ask, nor need media change;
the loops of a storage operation are counted, so that its timeouts come
(`cyasstorage.c`, `cyasdma.c`), the host need not send another packet, and the firmware goes on with a request or gives it up. Nothing is assumed of clients (they need not
call), of faults (they need not occur or cease), nor of the SPI timer: SPI
requests end without it. In `drivers` and `devices` each part has its own fairness, conditioned on
nothing but being the part that runs.

## 5. Where the code departs from what it says

Each of these is a run with expectation `violation` and a finding in
`PROJECT.json`:

- `i2c_stalled`: `Complete()` (`i2c.cpp:688`) dequeues and starts nothing, so a
  transfer queued behind another one hangs.
- `i2c_close_slave`: `Close()` (`i2c.cpp:267`) moves slots under queued transfers;
  once a slot is reused, a transfer goes to another slave.
- `tps_empty`: `ExecAsync()` (`tps65950.cpp:446`) may start the head of an empty
  queue when the DFC has already served its request.
- `tps_preempt`: the DFC sets `EIdle` before it dequeues (`tps65950.cpp:394`); a client
  of higher priority executes the finished request again.
- `irq_preempt`: `Disable()` of a pin (`gpio_interrupts.cpp:225`) races with the `Enable()`
  of another one and leaves it behind a masked bank.
- `lcd_free`: the vertical synchronisation frees the buffer that was active (`lcd.cpp:1616`) though it is pending or active again
  (in the trace the legacy buffer is posted twice), against the comment above it (1608).

The following were met while modelling; those with a constant can be reproduced by changing
it in a configuration, those with a history variable by dropping the condition on it from the property. They have no run of their own.

*Buses.*
- I2C: a retry in `ReadB`/`WriteB` (`i2c.cpp:724`) reuses blocks whose `iData` the DFC has moved
  (486, 500, 513, 525), so that an access that was refused after its first byte goes on behind it (`resumed`): `AccessIsExact` without `~resumed`.
- I2C, `i2c_single` with `"al"`: after lost arbitration a phase may be taken for
  finished, and the bus found busy (411): `NoAssertion`, and without that
  invariant (and the deadlock check) `SuccessMovedAll`.
- I2C, `QuiescentClose = FALSE`: `Close()` copies semaphores: `WokenByOwnTransfer`.
- TPS65950: `AtomicSetPendingWasIdle()` is not
  atomic, so that two threads may find the driver idle and both start its request (`crossed`; `tps_preempt` shows the
  crossing of the DFC). `Faults = {"read"}`: the address phase's error of a failed read is
  reported for the next request as well: `ResultIsTrue`. With a
  chain errors of the earlier phase are not
  reported; a protection change that is skipped reports the result of whatever
  ran before. `Faults = {"key"}`: a failed unlock keeps its count: `ProtectionCounted`.
- SPI, `SomiConnected` (in no run): an empty buffer ends the
  request twice, the second time for slave -1, whose "chip select" pad is the data
  line (`master.cpp:421`, `813`, `omap3530_spi.inl:30`). A read
  followed by a full-duplex column on slave 1: the DFC disables channel 0 (`master.cpp:803`)
  and a stale word is taken for the next transfer's: `Completes`. A read followed by a longer
  write: the receive mode is never turned off: `Completes`. By reading: the loops that
  should wait for the last bit never do
  (775, 785; operator precedence), words are sign-extended (539, 697) and received
  into 8 bits (723), buffer alignment is tested on the address, not the
  length (417, 450). The model takes the DFC as running after the last word; it
  counts words and holds no values.

*Interrupts.*
- `Preempt = TRUE` with a shared source: `Bind()` tests and stores
  under two locks (`interrupts.cpp:353-367`): `ExclusiveBinding`. By reading: binding a pin
  does not test for one in use
  (`gpio_interrupts.cpp:147`); `IsInterruptEnabled` always yields 0
  (`interrupts.cpp:312`); `Clear` returns an error on success (544).
- TPS interrupts: `Disable()` writes the mask with the wrong
  polarity (`tps65950_int.cpp:598-607`); `Clear()` reads a status that clears itself and discards the
  other interrupts of it (632); the DFC ignores the result of its reads (663); the
  entries of the power interrupts name another group's registers.

*USB.*
- `LateCancel = TRUE`: a cancelled request's timer completes the next one (`pa_usbc.cpp:756`).
  `PacketFindsRead` (in no run): a packet that finds no buffer sets both flags, and the next read
  handles the first only (647).
- An answer that the layer above gives when the host has given up and the ISR has not read it is loaded into the FIFO of the next transfer:
  `AnswersAreOwn` without `"late"`. The ISR clears the endpoint's interrupt after it has read the endpoint's registers, and loses one that
  came meanwhile (`"lost"`): `ReadEnds` (in no run). With either, or with `SendsStatus`, a SETUP packet is overwritten or not
  reported: `SetupIsRead` (in no run).

*Media.*
- RAM disk: a request that is split copies each piece from the start of the
  client's buffer (`staticrammedia.cpp`, 482, 623, 631, 705, 721), a ragged tail is written as a whole
  sector (664-680), and an unsupported request stays current for ever (324, `RequestEnds`, in no run).
- West Bridge: misaligned reads; writes land `size_block` blocks too far (`medwb.cpp:446`,
  459; `WriteLands`, in no run); the read buffer is not invalidated by a write (319); the read buffer
  holds block 0 shifted by two bytes (614); results of reads and
  writes are ignored (380, 446, 486), so that a failed read serves what the buffer held;
  formatting always reports `KErrGeneral`.

*West Bridge library.*
- A reply that comes after the thread has stopped waiting for it is given to the next request of the
  context (`ResponseIsOwn`, in no run), while `cyaslowlevel.c:420-422` says that the
  callback of the request that generated the response is called. `CyAsLLRemoveRequest()` also
  does not send the request behind the one it removes and leaves `last_node_p` pointing to a node that is freed.
- `CyAsLLSendNextRequest()` removes the head of the queue after a send timeout, whether or not it is still there:
  if the thread gave up waiting meanwhile, the queue is empty (`Crashed`).
- After a timeout of a storage operation nothing tells the firmware to stop, so its blocks and its
  reply are taken for those of the next operation: `StorageResultIsTrue` without `TimedOutBefore`.
- `GivesUp` with other kinds: a setup packet or a reset that comes while a request for another endpoint (stall, clear, NAK) is on its way resets
  the count of delays under it, so that `CyAsUsbFuncCallback()` fails its assertion and the count goes below
  zero (`cyasusb.c:3594`); one that comes while an acknowledgement without delay is on its way is itself acknowledged before it is
  answered, for nothing cancels that acknowledgement, and its callback clears the new packet's delay (2756).
- `ll_sending_rqt` is one flag for all contexts: a cancelled transfer of endpoint 0 aborts the
  request of another context if that one is being sent (`cyaslowlevel.c:1186`, 727; by reading).
- The flag of the setup packet stays set after a stall of endpoint 0, so that later stalls of other endpoints delay
  an acknowledgement that nobody awaits (2909; by reading).
- `LateStarts = TRUE`: `CyAsDmaCancel()` stops the endpoint before it empties the queue; if the firmware asks
  in between, the next block finds no request.
- The services, each with the element of `met` that it adds, or `overtaken`; without the condition on these `ServicesAreTrue` fails
  by each, and `CallbacksAreOwn` by `overtaken`:
  - `"change"`: a thread that holds a query's reply stores it after the change of the medium
    has cleared the description (`cyasstorage.c:187`), which stays stale although the clearing is "to force re-query later" (186);
    a read that has tested the block size uses 0;
  - `overtaken`: a callback's call between the insertion of a thread's callback and the sending of its request
    (`cyasmisc.c:3181`) exchanges the two callbacks, and each is given the other's answer;
  - `"read"`: a synchronous read tests for others and then may wait for a query of the block size (1870-1889);
    an asynchronous one from a callback in between uses the same request object, though the test of asynchronous
    reads is protected "from interrupts" (1722-1726);
  - `"stop"`: a stop tests for asynchronous operations only (556), a read for no stop, so that the
    stop's reply frees the request that a read uses (529);
  - `"pending"`: a start or a stop tests that no other is pending and then sets that one is (447-450, 559-562), and nothing
    protects the two: a callback's stop between them passes as well, the request of the storage is freed twice, and the count
    comes below zero;
  - `"refused"`: `MyHandleResponseStorageStart()` overwrites the firmware's answer (368-372), so a start that is
    refused is counted.
- A stop that finds the storage stopped since its tests, and is asynchronous, ends without its callback (`lateStops`).
- By reading: a request of the firmware before a context has its callback is
  neither handled nor acknowledged (`cyaslowlevel.c:371`); a read or write that fails leaves `WbApiMutex` held
  (`CyAsSymbianStorageDriver.cpp:133`, 158).
- A synchronous operation cancels its DMA only for an error the firmware reports; for another
  reply it waits 10 s for blocks that do not come.

*Clocks, screen, input, sound, serial.*
- A timer that overflows while suppression is set up or ended is counted twice or not at all in four windows (`LostHere`):
  before `TOWR` is written (the interrupt is cleared, `mstick.cpp:139`), before `TISR` is read, between `TISR` and `TOCR`, and, against
  the comment at 173, before `TOWR` is written back, for then the overflow is masked.
  `DecimalToBcd()` subtracts the tens and not ten times the tens (`tps65950.cpp:602`); the seconds of
  the years within a leap cycle (`variant.cpp:737`).
- The request of a pending user buffer that another user buffer replaces never ends (`lcd.cpp:1377`; `replaced`).
- Touch screen: `HeldAtStart = TRUE`, and off and on while the pen is down: `PenDownIsHeard` (in no run);
  the timer's callback may read an empty array. Touch controller: a second `HardReset()` leaves the cached address; bits of a reading
  are shifted away (376-381, 307). Calibration: points on a line make a zero determinant; restoring what was never
  saved, or the factory's values, gives a matrix of zeros (`xyin.cpp:1029-1037`), by whose determinant `ScreenToDigitiser()` divides in the
  next calibration.
- `Preempted = TRUE`: the timer is started for a buffer that has been played (`shared_txsound.cpp:172`; `TimeIsCorrect`, and
  `TimerHasBuffer`, in no run).
- Serial mouse: `FirstByte` with other places: the driver takes whatever byte comes first for the first of a frame; `EButton2Up` is never
  sent (240-250).
- `XonAtEnd = TRUE`: an XON at the end of a transmission starts one that is over (276).

## 6. Proofs

TLAPS checks about 30,000 obligations, for every value of the constants that satisfies
the named assumptions. The proofs use `ConstAssumption` or `SpiAssumption` of the
module (typing of the constants; that a client has one synchronous transfer at a
time, because the call blocks it), and:

- `QuietAssumption` in `I2cInvariant` (`QuiescentClose = TRUE`); without it
  some of the theorems are false, as `i2c_close_slave` shows;
- `"al" \notin BusFaults` for `AssertionsHold`, `I2cProofs!SuccessIsWhole` and `AccessesAreExact`: with a lost
  arbitration the code does what section 5 says and the properties are false. `RegIsI2c` (the driver of retried accesses is that of `I2c`)
  and `RetriesAreNew` assume `"nack" \notin BusFaults` as well: they are about slaves that refuse nothing but their address, which
  may do so as often as they like;
- `SafeCallers` in `InterruptsProofs` (if calls may preempt each other, no two clients ask for one source, whose `Bind()` would race), `PrcmSafe`
  (no preemption within `Bind()`) and `TpsSafe` (no handler waits, and a source is cleared before it is
  unbound) there as well. `BankIsUnmasked` is about the behaviours without the one step that `irq_preempt` shows (`EnableMeetsMask`:
  an `Enable()` between the test and the mask of another pin's `Disable()`), with any other preemption;
- `Guarded` for the theorems about the chip in `TpsProofs` (transfers may fail, writes only, where no chain changes
  the protection; such a chain disables and restores at most once, in this order), and for `FailuresAreReported` also
  `WritesLast` (where writes may fail, only the last phase of a chain writes). Nothing is assumed of priorities: the theorems are
  about every behaviour until two threads have crossed, and `tps_preempt` and `tps_empty` show what follows then, or
  may go wrong before;
- in `DriverProofs`, `MsTickConstants` (a sleep that suppresses ticks has at least two of them), `LcdConstants`
  (a user's buffer is none of the driver's) and `TouchConstants` (a group is smaller than the arrays);
- `ColumnsFit` for the words of `SpiMaster`: a full-duplex column is of as many words in both directions.
  `CheckHdr()` does not compare the two lengths; where the read is shorter than the write the driver
  counts the words of the one and stops with the other;
- `StorageHyp` in `WbApiProofs`: operations have blocks, failures are those of the headers, and the firmware asks
  for no blocks while the thread, after its timeout, cancels them (`~LateStarts`; with them, section 5);
- `CtlHyp` there too: packets are of the five kinds, and the host goes on before the answer is complete only while data are sent or
  after a stall (`GivesUp \subseteq {"write", "stall"}`; with others, section 5);
- `LlHyp` in `WbLowLevelProofs`: a message has at least one part, and no part is the mark of an empty mailbox;
- in `WestBridgeProofs`, `BlockSizes \subseteq Nat`, no more.

**I2C.** None of the properties is inductive by itself. `I2cInvariant!IInv` adds: the open
handles and the slots in use match (`TableInv`; between the two steps of `Close()`
one slot more is in use than counted); one client closes at a time and
then nothing is under way (`CloseInv`); the unit is clocked and bound while a
device is open (`PowerInv`); at most one of interrupt, queued DFC and running DFC drives
the state machine (`WorkInv`); a transfer under way holds its client's slot
(`SlotInv`); the semaphore's count at each point of `TransferS()` (`SemInv`); the
controller runs for the head of the queue, and no status bit that ends a
transfer is left over (`BusInv`). `Init => IInv` and `IInv /\ [Next]_vars => IInv'`
are proved action by action, and from `Invariance` follow `TypeCorrect`,
`ActiveTransferIsHead`, `QueueIsSubmitted`, `InterruptsDisciplined`,
`SlaveIsRight`, `OwnTransferWakes` and `TableIsHandles`. The run `i2c_queue` checks `IInv`.

For the bytes two more invariants stand on it. `PhaseInv`: while a transfer is under way the
controller is set up for the current phase of the active transfer, its FIFO asks in that phase's direction
only, it reports the end of a phase only when nothing is left to move, and at rest the bus is free. `BytesInv`: the phases
before the current one are whole, those behind it untouched, and what the current one has moved and
what the controller still counts add up. They give `AssertionsHold` and `SuccessIsWhole`. For register accesses
(`RegInv`): an attempt that is refused was refused at its address, so nothing has moved, and the block that
`ReadB()` and `WriteB()` submit again is one that a new call would build. Each retry is therefore a step
of `I2c` (`RegIsI2c`), and whatever is proved of `I2c` holds while they retry. Where data may be refused too this is not so: an attempt may be made with a
block that an earlier one has moved in part. `TriesInv` carries the invariants over every attempt that starts from its
block's beginning, and adds that an answer of `KErrNone` is there only for a block that is whole (`AnswerInv`); so an access that returns
has moved its block exactly, however and wherever it was refused before, unless what was moved in part has been tried again (`AccessesAreExact`).

**Refinement.** `I2cProofs!ImplementsTransferQueue` shows that the list and
the stage of each block (`Status`) follow `TransferQueue`: a submission is an
`Accept`, `CompletePop` a `Finish`, the return of `TransferS()` or the completion DFC
a `GiveBack`, and every other step a stutter.

**Interrupts.** `InterruptsProofs!IInv`: calls exclude each other unless
`Preempt`; `Bind()` finds the source still free at its store; a latched or read pin
belongs to a client that has not unbound it; what is being served has a
client's handler. It yields `BindingIsExclusive` and `NeverSpurious`. `BankIsUnmasked` needs one more invariant (`BankInv`): an enabled pin whose bank is masked has somebody on the way to unmask it, the dispatcher
or a thread inside `Enable()`; and a thread that is about to mask the bank still finds it without a pin, which only `EnableMeetsMask` disturbs.

**TPS65950.** `TpsProofs!TInv`: at most one thread is between the steps of a call (`OneThread`);
there is one thing to be done at a time, a transfer, its DFC, or a thread that starts or
finishes a phase (`OneActivity`); an idle driver has nothing under way, and whoever is between
queueing and starting finds a request in the queue (`IdleIsIdle`); the current request is the head of the queue (`HeadIsCurrent`); no request
is queued twice, or queued after its end (`QueuedOnce`, `FinishedOnce`). None of
these is inductive without the others: that the compare-and-swap of `ExecAsync()` is
right rests on one thread being inside, and that a head is there to be started on
its request not having been served meanwhile. A step that lets a second thread inside is one that crosses, so `crossed \/ TInv` is inductive
whatever the priorities. `TpsIsFifo` maps each step up to there to one of
`TransferQueue` or to a stutter.

The chip needs `ChipInv` besides. The transfer under way is the current phase; a completion that waits for
the DFC, and a request that ends, have had their effect; phases not begun still have the value their client gave them.
The key is as the count says, except while its transfers are under way (`KeyFollows`). The count is the
cardinality of a set of tokens (`Tokens`), one for each `DisableProtect()` a client holds and one for each
chain that has disabled and not yet restored: a step adds one token or takes one, and only the first and
the last change the key. For the end of the protection one fact of the queue is needed besides: a driver that is pending has somebody
who goes on with it, and the DFC that has finished a request and not yet idled finds the next (`Attended`). From these come `RequestsHaveEffect` and `ProtectionFollowsClients`.
`FailuresKnown` says where the failure of a request is remembered until it is reported: in the
result of the last transfer, in what the DFC has in hand, in what the client is given.

**SPI.** `SpiMasterProofs!IInv` says what the channel may be (`Channel`) and, in `Serves`, that the
channel is busy exactly while a transaction is current, with its slave, and that an idle channel
has its interrupts, timer and DFC quiet: this excludes the second completion by whichever
of DFC and timeout comes late. For the words (`WordsInv`), a column's words that have been moved and those left add up to
those of the columns up to the current one; in a full-duplex column the last word in is not before the last word out,
for the words in the controller are counted as well (`Counted`, `InStep`). The sums over columns are recursive functions of their
number; `WellFoundedInduction!SetInduction`, which takes a set and not an operator, proves what is needed of them.

**PRCM.** `PrcmInv`: the count is the cardinality of the set of enabled sources, so the proof
is about finite sets to which one element is added or from which one is taken; handlers belong to the
clients that are bound; `Bind()` finds the entry free at its store.

**TPS65950's interrupts.** `MaskIsTrue`, `LatchedIsBound`, `ReadIsBound`: the handler is there
from `Bind()` to `Unbind()` and the source unmasked from `Enable()` to `Disable()`; an event that is
latched, and what the DFC has read and not yet called, belong to a source that is bound.

**Kernel tick.** `TickInv` states, for each place in `SuppressIdleTicks()` and `EndIdleTickSuppression()`, what the
registers that were read still mean while the timer goes on: how many milliseconds are in the
counter, pending in the interrupt, already added, or lost; an overflow may come at each place.

**UART.** `EInv`: `iTransmitting` is set exactly while one of thread and interrupt is inside
`EnableTransmit()`, never both; a byte that is held is the last one taken.

**Display.** `LcdInv`: the pending and the active buffer, if they are the user's, stand for one request each that is to be ended, the same
buffer posted twice for two; what the count has besides are the requests whose pending buffer was replaced.

**Touch screen.** `TouchInv`: a group is full when it is handed over, and until the layer above has seen it at most one more sample is
taken, by a reading that was queued before or is under way; each DFC is queued once.

**USB.** `CtlInv`: what is in the endpoint's registers is of the host's transfer; what the driver is answering
is that too, or `SETUPEND` is there and the ISR will see it before anything is sent; a buffer is there exactly while
a completion is owed; all this until an answer is late. What an interrupt that is cleared unread takes with it delays the driver and mixes nothing up. `OutInv`: each packet sent is
in the FIFO, in the read under way, in one that has ended, or dropped; the places follow each other in
the order of sending; all packets of a read but its last are full, so that counted bytes and packets agree.

**West Bridge's services.** The library does not say whom a reply is for: it is handled as that of the first request, and
given to the first node. `WestBridgeProofs!AInv` is therefore about order (`ListsFit`): the requests queued and the nodes of asynchronous calls
match one to one, and a node and a request that are at the same place belong to one call or both to calls that have overtaken each
other; last is the thread's node while it has inserted it and not yet sent its request. It gives `EachCallItsAnswer`, whatever calls
come in between. `DInv` adds what is known until one of the steps of `met` is taken or a call overtakes: at most one start or stop is under way
(`PendingIsOne`) and one read (`ReadIsOne`); the count follows the firmware (`CountIsKept`); a reply in the mailbox
was true when it was sent and a change since then is told behind it (`MailIsTrue`, `SaidIsTrue`), so a
description is that of the medium or is forgotten before it is used (`KnownIsTrue`). It gives `WhatIsKnownIsTrue`.

**West Bridge's mailbox.** Whoever waits for a mailbox serves the other one meanwhile, so calls lie on each other
without a bound: a request in the middle of its parts, below it the handler of a context, below that the request that the
handler's callback sent. An invariant about the frames alone would have to be about every such stack.
`WbLowLevelProofs!LlInv` is about *streams* instead. What the firmware has said of a context and the handler has not
yet processed is the unread rest of the context's data queue, the part in the mailbox and the parts the firmware still
holds; their concatenation (`StreamOf`) is the same before and after each move among them, which is what a wait does.
A stream is well formed (`StreamIs`: parts follow each other, and the last ends a message), and what is stored of
a message goes on with its first part (`Stored`). Of the frames it is enough to know that one handler at a time
reads its queue, the last one called, and that a sender of parts holds a status or the rest of a request (`CallsOK`). A message to the
firmware is in at most one place, a frame or the mailbox (`Places`), and where it is excludes
what else can be there: a status is due only when the stream holds no request (`EventsOK`), a request that is on its
way or with the firmware is the head of its queue and nothing of its response has been heard (`QueueOK`). A reply
that comes after its timeout is given to the next request; what is claimed of requests ends with the first, what is claimed of
the firmware's requests does not. It gives `MailboxIsTrue`.

**West Bridge's storage.** `WbApiProofs!IInv` says of the caller's operation that everything under way is its own:
the queue of the endpoint, the request, the callback and the interrupt (`IsCurrent`), and every other endpoint
is quiet (`OthersAreQuiet`); that the blocks the firmware has moved are those the entry of the queue has counted
(`BlocksAreCounted`); that a success that is told second, of the DMA's end and the reply, finds the first's result. An
operation that has timed out may leave a reply behind, so what is claimed ends with the first timeout (`IsInOrder`), but for the
count of callbacks (`CalledOnce`). It gives `StorageResultIsTrue`.

**West Bridge's control transfers.** `WbApiProofs!CtlInv` says at which message of which packet's answer the library is (`Answers`): none, its data
with so much left, its acknowledgement, a stall, and the like. The counts of delays, the callbacks, the queue and the requests
follow from that, and from whether a request of the packet before is still in front, which is a stall that the firmware has not
yet answered (`LibIs`). The mailboxes hold what is under way, and what the firmware has been given of each packet is what
comes before that in the packet's answer (`CtlPhase`, `CtlPrefixes`). A packet or a reset starts or drops an answer, and every message takes it one place on. It gives `ControlResult`.

**Left to TLC.** Liveness: fairness and
`ENABLED` are out of the prover's reach. Induction over data (what a fold or a recursive
definition computes for every input) is within reach only where it can be put as a set of numbers, as for
the words of `SpiMaster`; the calendar (`DateIsOneMoment`) and the pieces of a media transfer (`MediaIsTrue`) are checked on small inputs.
Also only model-checked is `InputsAreTrue` (the mouse's frames, the controller of the touch screen,
the calibration). `HeadIsActive` of `I2c` cannot be proved:
`i2c_stalled` shows that it is false.

## 7. Not modelled

- *GPIO pins*: the mode bookkeeping shifts 1 by a macro that is itself a mask, which
  C++ leaves undefined for most pins; the other calls write one register.
- *SPI slave*: a template whose ISR and most register accesses are commented out.
- *Register tables*: clock, domain and divider functions of the PRCM, UART and USB mode
  switching, the transceiver's start-up. Each call reads and writes one field; what
  could be wrong is a number, which a model would repeat.
- *West Bridge library*: MTP, the configuration of endpoints, the other management functions (partitions, registers, erasure, SDIO) and start-up are calls that fill a request and
  decode its response, over the mailbox that is modelled; the register access by SPI and the
  threads above, which serialise their calls by `WbApiMutex`; `CyAsStorageCancelAsync()`; failure
  of memory allocation.
- *Start-up code*, bootstrap, ROM and HAL tables, key translation, crash monitor, LED.
- *Serial keyboard*: the hand-over of one byte as in `SerialMouse`, with a table behind it.
- Of modelled components: FIQ and priorities of the interrupt controller; reception in the
  extended UART driver (characters go to the layer above as they come); power, cable,
  reset and suspend of the USB controller; mode setting of the display; validation of an SPI
  request's header; capabilities of the sound driver.

What could come next, in order of weight: a theorem for `MediaIsTrue` of the two media drivers; the driver of the TPS65950 after threads have crossed; the mouse's frames.
