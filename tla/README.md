# PGCon in TLA+

PGCon automates games on a Nintendo Switch: a Java desktop application looks at
the console through a capture card, runs scripts, and presses the buttons of a
virtual controller through a serial adapter. This directory holds TLA+ models of
the parts of it in which threads, devices and byte streams meet, the TLC
configurations that check them, and TLAPS proofs.

Paths below are relative to `src/main/java/com/duanxr/pgcon` unless they start
with `firmware/`. `PROJECT.json` names the source lines behind every definition.

## 1. Inventory

| part | state | operations | talks to | what makes it hard |
|---|---|---|---|---|
| `output/ControllerService` | expiry times, hat and stick directions, installed protocol | press, hold, release, clear, autoRelease daemon | scripts, protocol, main panel | `clear()` takes no lock; the daemon reads expiry times outside the lock; the port can fail at any call |
| `script/component/ScriptRunner`, `ScriptTask` | current task, future, `running`, interrupt flag, reset handler | run, stop, the task's loop, callback | main panel, thread pool, ControllerService | stop against start, interrupts consumed elsewhere, late callbacks |
| `gui/panel/MainPanel` (run button) | button text, selections | run, stop, loadProtocol, enableScripts | runner, ControllerService, protocols | handlers that leave half way by an exception |
| `output/impl/easycon` | seven report bytes, port | hold, release, set, clear, connection check, `convert` | adapter | bit and byte edges, framing, unsynchronized clear |
| `output/impl/pgcon`, `firmware/Joystick.c` | virtual controller, serial buffer, last USB report | one code per change; receive loop, HID task | each other, console | two codes for one stick position, inverted connection check, right stick codes |
| LUFA device core (`firmware/lufa/LUFA/Drivers/USB/Core`) | device state, configuration, endpoint registers, selected endpoint | control requests, interrupt routine, endpoint setup | firmware, host | the interrupt changes registers under the main loop; waits that end only if the interrupt tells them |
| `output/action` enums | none | code tables | both protocols | three tables that have to agree |
| `input`, `gui/display` (screen) | camera, latest frame | open, replace, close, read, publish, wait, show | two daemons, user interface, detection | no lock around a replacement, waits without a predicate, exceptions that end a daemon |
| `gui/display` (canvas) | drawables, timers | draw, remove, expire, render | scripts, mouse | notifications given while nobody waits |
| `gui/panel/MainPanel` (mouse), `core/model/Area` | two points, highlight, debug window | press, drag, release | display, debug panel | points of an earlier gesture, rounding |
| `script/component` (library) | maps of scripts, configuration beans | load all, reload one, look up | main panel | failure in the middle, forms bound to replaced objects |
| `script/engine`, `engine/` | none of their own | until, detect, async | detection, controller | loops that ignore interrupts, frames of different age |
| `core/detect`, `core/preprocessing` | image cache, OCR engine | detect, filter | frames | sub-images share memory with the cached frame; one OCR engine for all |
| `log` | bounded deque, view list, timeline | offer, drain, trim, pause | everything | full deque, order of start-up and pausing |
| notifications, property cache, utilities | files, HTTP | plain I/O | | |

The hazards that follow from this are listed in `PROJECT.json`, each at its line
with the properties that would catch it.

## 2. Modules

    Writes, SwitchActions --> Gamepad <--implements-- EasyConLink  (Packing, EasyConPacket)
                                 ^-------implements-- PGConLink
    ControllerService   (what is asked of a Protocol, by whom and when)
    ScriptRunner        (who runs, and who installs and removes the protocol)
    UsbDevice           (how the reports of the firmware reach the host)
    Frames, Canvas, Selection, Detection   (picture, drawings, mouse, looking)
    ScriptLibrary, GuiLog                  (scripts on disk, log window)

**ControllerService** models the service with its script threads, the
CHECK_CONTROLLER daemon and the user-interface thread. A *slot* is one index of
`buttonExpired` or `stickExpired`; the four hat directions share one, as
`getExpireTimeIndex` makes them. A call takes the monitor, records the expiry,
makes one or two protocol calls and records the direction, each in a step of its
own, so that the unsynchronized `clear()` (seven steps) and the daemon's reading
of the expiry get in between. `protocol` says whether the field is null and
whether the port is open, closed or failed. `image` is the `currentBytes` of an
EasyCon protocol, `console` the report last written. The history variable `torn`
becomes true when `clear()` overlaps a call, when a call fails, or when a
protocol is installed over leftovers. It becomes false again when a `clear()`
starts with nobody inside the monitor, and when a protocol is installed over a
record at rest. It states the precondition the code really has: no property
about the record survives the overlap. `overlapped` and `hatFailed` keep two of
its causes apart: CallsFindTheirProtocol excuses a closed or missing protocol only
by an overlap, and a missing hat direction only by an overlap or by a call for the
hat that ended in an exception.

**ScriptRunner** models the run button, `ScriptRunner` and `ScriptTask`. The
user-interface thread executes one handler at a time and `fx` is its position;
the task threads move between its steps. `late` and `swallowed` are history: the
two ways in which a stop can miss (see 4). A script's `execute()` may return,
throw any of the exceptions `ScriptTask.run` distinguishes, never end, or
consume an interrupt (a nested `script()` that loops, `push()`). `destroy()` is
taken to return: no script in the repository overrides it. A click on RUN! with
a port that does not open, does not answer, or has failed is an alternative of
`ClickRun`.

**Gamepad** is the promise of the `Protocol` interface: calls describe a
controller, a line that keeps order carries what they say, and the device ends
up showing it; after `clear()` it is at rest. What travels is a *write* (module
**Writes**): new values for some slots, the whole controller, or, for a question
that changes nothing, no slot at all. `Safe` is Gamepad without its fairness.
**SwitchActions** holds the code tables of the enums and, separately, what each name
means on a controller.

**EasyConLink** refines Gamepad down to bytes: `currentBytes` with its bit
operations, packets of eight bytes, the two bytes of the connection check, and
an adapter that collects bytes until one has its top bit set. The adapter is not
in the repository. It is modelled as far as the encoding determines it and marked
external. `asked`, `flight` and `link` are history variables for the
refinement mapping. **EasyConPacket** is the loop of
`EasyConSerialPort.convert` itself, which EasyConLink composes into `sendCommand`
turn by turn; **Packing** says in closed form what a packet holds.

**PGConLink** refines Gamepad with the stateless PGCon protocol and the firmware:
the receive loop, the cases of `executeCommand` and the HID task. The mapping
reads each code on the line as the write it will cause. The firmware sends the
vertical codes of both sticks to LY; the history variable `vertical` is what the
codes that store to LY ask for, and the mapping reads LY from it and RY as centred.
`SharedDirections` adds to what a call can mean the vertical positions of that shared
axis.

**UsbDevice** is the firmware as the host sees it: the main loop of `Joystick.c`
(`receive`, `hid`, `task`), `USB_DeviceTask`, `USB_Device_ProcessControlRequest`
with the requests of `DeviceStandardReq.c`, the control streams and
`Endpoint_ClearStatusStage`, and `USB_GEN_vect` as one step that may come between
any two steps of the main loop. `dev` holds the registers and the driver's globals;
every endpoint operation acts on the endpoint `uenum` selects, which is how one
actor's selection can hit another. The host (`bus`) is external: it plugs, resets,
suspends, resumes, sends headers, also before the last request has ended, and
takes or gives packets. Its assumptions are those of the USB specification and of
the controller's data sheet as the driver relies on them: a wake-up clears a
pending suspension and the other way round, a SETUP packet empties the control
bank, clearing a flag of UDINT is atomic, VBUS is debounced, a host addresses
a device before it configures it, and the bus is quiet for three milliseconds, long
enough for other interrupts to have been served, before a suspension is signalled.
The bus may be suspended at any time, also in the middle of a request, which the host
then goes on with after a resume. The firmware is built for an ATmega32U4, so that the
branches with a VBUS interrupt are the compiled ones. `trouble` is history: a request was
cut short or suspended since the last clean reset.

**Frames** has one step per use of the volatile fields `imageInput` and `camera`.
`opener` is the position of a thread in `openCam`, `setImageInput` and `close`: the
pool thread that opens the remembered camera at start-up, and the user-interface
thread. `loader` and `renderer` are the daemons, whose loop ends with the first
exception. An exception of the debug window is its class and whether it has a message.
Inputs are numbered; a frame is the number of its input. `overlapped`, `interrupted` and
`thrown` are history: the first two say when the missing locks have been hit, the last
what the debug window threw.

**Canvas** keeps drawables by key, their expiry and delayed notification, and the
RENDER_CANVAS daemon, which waits without a predicate; `missed` is history: a
notification came while it was not waiting. The callers pass a key, a text and a
duration above zero; the branches of `draw` and `renderCanvas` for anything else are not
in the model. **Selection** has the three mouse
handlers, the conversion from screen to picture with Java's truncation, and the
debug window that opens on the result, in one coordinate.

**Detection** follows detections from `getImage` to the result. Of a pixel of a matrix
the model keeps which detections have written it, and `met` is history: whose writes
were in the pixels a detection has read. `target` is the shared matrix a detection works
on, until a filter has made it one of its own, which nobody else can see. A matrix is
named after the detection that converted it, which is unique. What a filter does to the
shared matrix depends on the channels of the frame: the colour filters work in place on
three channels and ignore other pictures, threshold and normalisation copy unless there
is only one channel, which `MatUtil.toGray` returns as it is, and smoothing copies but
reads the pixels around its area as well (`Near`), because OpenCV looks beyond the
border of a submat.

**ScriptLibrary** has the files on disk, `loadScripts`, the maps of ScriptManager,
forms and configuration beans, property by property, and reloading in debug mode, whose
`copyProperties` hands on the properties that both versions have. RUN! reads the file
and starts the script in one step: both are done by one handler of the user-interface
thread. **GuiLog** has the
deque, the list of the view, and the timeline with its start-up and pausing.

The names of Canvas, Selection, GuiLog, ScriptLibrary and Detection carry a prefix
(`CanvasInit`, `LogNext`, `DetectionSpec`), so that one proof module can extend
several of them. The modules ending in `Proofs` are described in section 5.

The MC modules give model values: `MCController`, `MCEasyConLink`, `MCPGConLink`,
`MCDetection`.
Operators whose comment begins with "Mutant" are faulty variants of the definition
below them. Each is what a plausible slip in that code would be, and breaks the
property it is paired with in `PROJECT.json`.

## 3. Runs

| run | question | bounds |
|---|---|---|
| controller_hat | record against console, what a call finds, what clear leaves, holds only prolonged | two script threads (symmetric), one button, two hat directions, clock to 2 |
| controller_stick | record against console for sticks, whose expiry is computed before the lock; timed holds end | two threads, one stick direction, clock to 2 |
| script_runner | consistency of button, runner and threads; how a stopped run goes on; ended runs are released; STOP! takes effect | two runs |
| easycon_link | the packing loop is exact; EasyCon implements Gamepad and the console settles | ZR, MINUS, one hat direction, three stick positions; two unread bytes before a call |
| pgcon_link | PGCon and firmware implement Gamepad up to the vertical axes; the console catches up | ZR, a left and a right stick position; two unread codes |
| frames | which devices stay open, what ends a daemon, the screen follows the camera and never goes back | two devices, two inputs |
| canvas | a sleeping daemon has drawn what there is; expired drawings disappear | two keys, three drawings |
| selection | no leftovers, the window shows the highlight, inside selections succeed | canvas of 4, picture of 6 |
| detection | who sees whose filters, whose text | two detections, a frame in colour and one with one channel, three pixels in a row, three areas, six lists of filters |
| script_library | all loaded or not ready, form and script stay connected | two files, two descriptions, two properties, any number of edits |
| gui_log | no holes, the switch rules the timeline, records leave the deque | deque of 3, list of 4, twelve records |
| usb_device | host and device agree, endpoints exist, no header twice, deserved stalls, main loop and reports go on | thirteen of the seventeen requests; six plugs, resets, suspensions and requests in any mix |

Why the bounds are enough to be interesting. Slots do not influence each other,
so one of each kind shows every transition. Two directions are needed to change
one. Two threads, the daemon and the user interface give every overlap the monitor
allows, a call that waits behind another one included, and the late stick call. The
liveness property has a run of its own, without symmetry, which would not be sound for
it. The clock has to pass an expiry and to leave room for a renewed hold. Two runs are what a stale
callback needs: the one that posted it and the one it meets. ZR (128) and
MINUS (256) sit on the two sides of the byte boundary in the EasyCon codes.
For the PGCon link one button and the two sticks are enough: a hat code goes the
way of a button code, and the refinement is proved for every button and direction.
`Backlog` bounds the line. It does not lose anything, a call only waits, as a
write to a full serial buffer does. Two inputs are needed to replace a camera and
to open one device twice. Three drawings let one replace another while a third
expires. Picture and canvas sizes that do not divide make rounding visible. Of the
three areas of a detection two are apart, two touch and two overlap; the lists of filters
are none, each kind alone, one that works in place before one that smooths, and one
that copies before another. Twelve records
overflow deque and list and refill them. Six events at the host reach a
configured device (plug, reset, address, configuration) and leave two more for a
second reset, a suspension, unplugging, or two requests one inside the other;
reconfiguration after replugging is beyond them. The run leaves out four of the
seventeen requests, which take the steps of others: GetConfiguration and the status of
an endpoint those of GetStatus, clearing remote wake-up those of setting it, and a
configuration that does not exist is stalled as SetIdle and a missing descriptor are.
The invariants are proved for all seventeen.

Deadlock is checked except in frames, canvas, detection and usb_device, which come to rest
when their bounds are used up.

Every module states its types in TypeOK. For the modules with theorems it is proved
as part of the inductive invariant; for the others it holds in the runs above but is not
listed among their properties.

Fairness. controller_stick: the clock advances, the daemon is scheduled, a thread
inside the monitor goes on, and the daemon gets a monitor that is free again and
again (strong fairness). Java monitors do not promise that last point formally;
with the pauses scripts make it is what a JVM does, and without it no timed hold
could be promised. script_runner: the user-interface thread finishes its
handlers and takes posted callbacks, and the cached thread pool (unbounded) gives
each task a thread that goes on. Nothing is assumed of the user or of `execute()`;
StopTakesEffect has the end of each call of `execute()` as an explicit premise.
easycon_link: the sender's loop and the device go on. pgcon_link: the firmware's
main loop goes on and the console goes on polling. frames, canvas: each daemon has
a thread of its own that goes on while it can, and scheduled notifications fire;
nothing is assumed of users, devices or spurious wake-ups. gui_log: posted actions
and the running timeline are executed; nothing is assumed of the pause switch.
usb_device: the processor executes the main loop, takes pending interrupts, and
the host goes on with a transfer it has begun and gives up one that is stalled.

## 4. What the checks show about the code

* While no `clear()` overlaps a call and no write fails, the record and the
  console agree in every interleaving of scripts and daemon. After an overlap the
  next `clear()` that runs alone repairs everything. A hold of a hat direction whose
  write fails leaves an expiry without a direction, and the next direction is a
  NullPointerException (`ControllerService.java:144`), without any `clear()`;
  CallsFindTheirProtocol has the failed hold as an explicit premise (`hatFailed`).
* The daemon ends with the first failed write (`DaemonTask.run`), which
  TimedHoldsEnd has to except.
* A script that was stopped can begin another iteration only if two accidents
  meet: `stop()` came before the thread's `running.set(...)`, and the script
  consumed the interrupt.
* A callback of an old run may stop a newer one. Runner and button stay
  consistent, but the newer run is over.
* With a failed port `clear()` throws out of `stop()` and the button goes on
  saying STOP!; ButtonShowsRunner therefore speaks of ports that have not failed.
* Both protocols implement Gamepad, with one exception. The PGCon firmware stores
  the right stick's vertical codes (46 to 48) in LY and never moves RY, and the
  upper positions of the right stick are built with the left stick's code.
  OnlyVerticalAxesDiffer states how far the damage goes.
* PGCon's `checkConnection` takes silence for a connection, while the firmware
  answers. The model has both outcomes; neither disturbs the controller's state.

* Two threads in `openCam` together (the start-up thread and a choice in the menu)
  may leave a device open that nobody refers to. They install a closed camera only
  if both opened the same device. One thread at a time leaves exactly the camera in
  use open. LOAD_FRAME ends when a camera is closed between its test and its use,
  or a device stops delivering, and is not started again. RENDER_SCREEN ends only
  of an exception in the debug window that has no message and the class of the one
  before, whether that one had a message or not (`DebugPanel.isSameException`).
* A canvas notification that arrives while RENDER_CANVAS draws is lost, and the
  next one repairs it; without such an accident the picture is current.
* A selection inside the canvas is never refused in a coordinate in which it has an
  extent, whatever the rounding. Points
  survive a gesture only if the debug switch was moved with the button down, or
  the capture threw.
* Detections disturb each other only if they look at the same frame and one of them
  writes in place (a colour filter on three channels, threshold or normalisation on one)
  on pixels of the other's area, or, if the other smooths, on pixels next to it. OCR
  answers are never mixed. Parallel detections of one call may still look at different
  frames.
* What the user sets in the form of a script reaches it through any number of reloads,
  property by property; a property that one version is without stays disconnected when a
  later version has it again.
* One script that does not load leaves RUN! disabled; of two files with the same
  description the later one is run.
* The log loses records only at the full deque, and always the newest.
* The joystick and the host agree on the configuration unless a request was cut
  short. Then, until the next clean reset, they may not: `SetConfiguration` goes on after
  its status stage was interrupted. The main loop can be held up by a request or a
  reset that arrives inside another request, by a suspension in the status stage of
  one (`Endpoint_ClearStatusStage` leaves only when the device is unattached), by
  suspending or unplugging while `SetAddress` waits, and by another cause taken in the
  same interrupt as the loss of VBUS; otherwise it always comes round, also when
  the bus is suspended in the data stage of a request and never resumed.
* `SetConfiguration` with configuration 0 on an addressed device sets
  DEVICE_STATE_Configured (`DeviceStandardReq.c:203`), where the interrupt routine
  computes Addressed in the same situation (`USBInterrupt_AVR8.c:153`) and
  `Device.h:91` describes Addressed. The endpoints exist all the same, so that
  HidFindsItsEndpoints is not affected.

Seen while reading, outside the models: `FileSaveUtil.saveImage` makes a directory
of the picture's own path; `processDebug` reads `selectedArea` several times while
the user interface may replace it; `TesseractOCR.close` does not take the lock of
`getText` (shutdown only).

## 5. Proofs

TLAPS checks every proof below; the constants are arbitrary, subject to the named
assumptions. Each module proves its inductive invariant from Init and, action by
action, from Next, and derives the properties from it. TLC has checked each
invariant on the instances of section 3 as well.

**ControllerServiceProofs** (assumptions: slots, values and threads are distinct,
`Horizon` is a positive number, durations are natural). `Invariance` proves `IInv`:
types; the monitor belongs to the one thread that is inside (`MonitorInv`); the
state of the port goes with the progress of `clear()` (`PortInv`); an undisturbed
`clear()` finds the monitor free and what it has filled stays filled
(`QuietClearInv`); and while nothing is torn the console equals the protocol's
image and agrees with the record on every slot but the one being worked on
(`LiveInv`, `HolderOK`). ConsoleMatchesRecord alone is not inductive: it is silent
about the slot a thread is working on, and `HolderOK` says what that thread will
leave there. `HatInv` carries ProtocolTheorem: without an overlap and a failed call for
the hat, an expiry of the hat comes with a direction, also after other calls have
failed. RecordTheorem, ProtocolTheorem, ClearTheorem and ProlongTheorem follow.

**ScriptProofs** proves ScriptRunner, ScriptLibrary and Detection.
*Runner* (assumption: `MaxRuns` is natural). `RunnerInvariance` proves `RunnerInv`: the
position of the handler determines what the runner and the button hold
(`HandlerInv`), and a run that is told to stop has one of the marks of `StopInv`.
StrayTheorem, ReachTheorem, ButtonTheorem and CurrentProtocolTheorem follow. Two
more theorems are the safety halves of the liveness properties TLC checks:
CallbackTheorem (while the runner holds a run that has ended, the run's callback is in
the `runLater` queue or a stop is under way, so that EndedRunsAreReleased only needs
the queue to be served) and LateTheorem (the one way in which a stopped run begins
another iteration, which is the exception StopTakesEffect names).
*Library* (no assumptions). `LibraryInv` says what the maps hold while loading
proceeds: a description leads to a file with that description. ReadyTheorem and
FormTheorem follow.
*Detection* (assumptions: areas are sets of pixels and not empty, the neighbours of a
pixel are pixels, kinds are compare and ocr, a frame has 1, 3 or 4 channels).
`DetectionInv` says who has the OCR engine's lock and whose image is in it, step by step
(`OcrInv`); that a detection works on a matrix of its frame until its first copying
filter, and writes within its area (`Working`); that a cached matrix belongs to its frame
(`CacheInv`); and that a pixel was written only by detections of that frame that may
write it (`MemoryInv`). What a detection has met depends on what others had written
before, so that OnlyInPlaceFiltersInterfere is not inductive without `MemoryInv`, nor that
without `Working`. The rest is that frame and parameter of a detection are fixed once it
has its matrix (PastStays). InterferenceTheorem and OcrTheorem follow for any pixels,
areas, neighbourhoods, lists of filters, channels and number of detections.

**FramesProofs** (assumptions: there is a device, `MaxInputs` is natural). `FramesInv`
adds to the properties what a thread finds that is alone in `openCam` (`AloneInv`),
that an input about to be installed is open (`NewCameraIsOpen`) and is not shared
before (`FreshInv`), and where LOAD_FRAME may be while the camera changes (`LoaderInv`).
OpenTheorem, HeldTheorem and DaemonsTheorem follow for any devices and any number
of inputs. `OrderInv` is inductive together with it: as long as one thread at a time
was in `openCam`, what is shown, taken by RENDER_SCREEN, cached, read by LOAD_FRAME
and installed come in the order of their creation. NeverBackTheorem, an action
property, follows: a replaced camera does not come back to the screen although five
unsynchronised steps lie between `read` and `accept`. ScreenFollowsCamera rests on it.

**GuiProofs** proves Canvas, Selection and GuiLog.
*Canvas* (assumption: `MaxDraws` is natural). `CanvasInv` adds that drawables are
fresh, sit under one key, and that a timed drawing has its notification ahead;
without the last the daemon could sleep over an expired drawing. CanvasTheorem
follows.
*Selection* (assumption: the picture is at least as large as the canvas;
`application.yaml` has 1920 and 960). `SelectionInv` relates points, highlight and
window between drag and release. LeftoversTheorem and PanelTheorem follow;
InsideTheorem rests on RoundingFits, which shows with plain arithmetic that
position and width, rounded down one by one, stay inside the picture. The model
divides exactly, the code multiplies by a double. With the scale 2 of the
configuration they agree; with other scales a product that is an integer may come
out one lower, which keeps the rectangle inside.
*Log* (assumptions: the capacities are positive). `LogInv` adds that no record is ahead
of the count and what switch and Timeline are during start-up. HolesTheorem follows
for any capacities, from lemmas on what appending, moving between two sequences and
dropping at the front do to a sequence without holes; TimelineTheorem follows too.

**GamepadProofs** proves what the abstract controller promises. `PadInv` says that for
every slot either some write on the line is the last to set it, and sets it to what
was asked, or none sets it and the pad has it already. SettledTheorem follows, for
any slots and values. The proofs of both links instantiate this module.

**EasyConLinkProofs** (assumptions: buttons and directions are those of the enums,
`Backlog` is natural). The first part is the loop invariant of `convert` (`LoopInv`): the
counters satisfy bits = 8k - 7i (`CountInv`), the packet holds the first groups
(`SentInv`), the accumulator the low bits of the last byte (`UnsentInv`). Division and
remainder by a power of two are treated power by power, since the solver has no
theory of variable shifts. PacketTheorem and SmallTheorem say of every report the
protocol can send that its packet decodes to it, is framed by its last byte only, and
that neither the array nor a cast is exceeded. The second part shows that setting
and clearing a bit of `currentBytes` changes one slot of the controller it describes.
The third is `LinkInv`: the protocol remembers what the calls described, and the bytes
the adapter has not used, together with what `convert` still holds, are exactly the
packets of the reports in flight (`Framed`; bytes outside of packets, those of the
connection check, are marked and so cannot be taken for part of one). From it each action is a step of Gamepad or changes
nothing there (EasyConRefinement), and EasyConSettles follows with SettledTheorem.

**PGConLinkProofs** (the same assumptions). Every code an enum sends is executed as the
write its name means, which is a comparison of the three code tables. From it
each action is a step of Gamepad (PGConRefinement), and VerticalTheorem follows with
SettledTheorem and the fact that no case stores to RY.

**UsbDeviceProofs** (assumptions: the requests are among the modelled ones, `MaxEvents`
is natural). `UsbInvariance` proves two invariants together. `DriverInv` holds always:
which request each position of the driver serves (`RequestAt`), which endpoint is
selected (`Selected`), that both endpoints are allocated in HID_Task, and in the
Configured state unless SetConfiguration is still at work (`Allocated`), who may still answer a header (`Answered`), which
interrupts are enabled (`Registers`), and what the host does when (`HostInv`).
HandledTheorem, EndpointsTheorem and, as an action property, StallTheorem follow from
it alone. `CleanInv` holds while no request has been cut short (`~trouble`): driver and
host are at the same request with nothing of an earlier one in the banks (`Serving`),
so that the address (`Addressing`), the configuration (`Configuring`) and sleep
(`Awake`) change for both. AgreeTheorem follows. HostAndDeviceAgree speaks only of
moments without a pending interrupt and without a request; `CleanInv` is what carries
it through both. Each action is proved to keep the two invariants by a lemma of its
own, the interrupt routine branch by branch.

Only model-checked: the liveness properties (TimedHoldsEnd, EndedRunsAreReleased,
StopTakesEffect, ConsoleCatchesUp, ScreenFollowsCamera, ExpiredDrawingsDisappear,
RecordsLeaveTheDeque, MainLoopRuns, ReportsFlow) and the fairness part of
ImplementsGamepad: fairness is outside the proof system's reach. Every invariant and
action property of a run is proved, and the safety part of both refinements.
EndedRunHasItsCallback and CurrentRunHasProtocol are proved and not part of a run.

## 6. Not modelled

* **LUFA outside the AVR8 device-mode core**: class drivers, host mode, the XMEGA
  and UC3 ports, demos, projects, bootloaders and the build system. They are
  vendored and not compiled into this firmware. They are also nearly all of the C
  lines in the repository, so that the models cover a small share of its lines
  although they cover the firmware and most of the application's state. Inside the
  core, left out are `GetStatus` of an interface, the internal serial number descriptor, the zero-length packet that ends a descriptor, and the
  contents of descriptors.
* **Numeric work**: OpenCV comparison, Tesseract recognition, pixel arithmetic of
  the filters, colour and similarity utilities. What the application decides
  around them (which picture, which memory, whose engine) is in Detection.
* **Scripts**: straight-line users of the engine whose behaviour depends on
  pictures of a game. In ScriptRunner they are an `execute()` that may do anything.
  `until` and `async` have no state of their own: `until` runs in the script, and
  `async` is used for detections only.
* **Property cache, notifications, layout**: files, HTTP and JavaFX forms without
  an order to get wrong.
* **Code without a caller**: `set(isLeft, degrees)`, `script(Class)` with `classMap`,
  `StaticImageInput`, `frozenScreen`.
* **A composition of ScriptRunner with ControllerService**: the overlap of a stopped
  script with the `clear()` of its own stop is in ControllerService, whose clients
  call at any time; the runner adds no further restriction to them.
