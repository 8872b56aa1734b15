------------------------------ MODULE UsbDevice ------------------------------
(***************************************************************************)
(* The USB side of the firmware: the main loop of Joystick.c with the      *)
(* control requests of LUFA (USBTask.c, DeviceStandardReq.c, the control   *)
(* streams), interrupted at any point by USB_GEN_vect, against a host that *)
(* is plugged and unplugged, resets, suspends and resumes the bus and      *)
(* issues control requests.  The interrupt routine blocks interrupts and   *)
(* is one step.  Registers of the controller are the fields of dev; all    *)
(* endpoint registers act on the endpoint selected by uenum.               *)
(***************************************************************************)
EXTENDS Naturals, FiniteSets

CONSTANTS
    Requests,      \* the headers the host sends
    MaxEvents      \* bound on plugs, resets, suspensions and control requests

ControlEp == 0
InEp      == 1     \* JOYSTICK_IN_EPADDR
OutEp     == 2     \* JOYSTICK_OUT_EPADDR
Endpoints == {ControlEp, InEp, OutEp}

Interrupts == {"VBUSTI", "SUSPI", "WAKEUPI", "EORSTI"}
States == {"Unattached", "Powered", "Default", "Addressed", "Configured", "Suspended"}

Request(b, t, v) == [bRequest |-> b, bmRequestType |-> t, wValue |-> v]

SetAddress1       == Request(5, "out.standard.device", 1)
SetConfiguration0 == Request(9, "out.standard.device", 0)
SetConfiguration1 == Request(9, "out.standard.device", 1)
SetConfiguration2 == Request(9, "out.standard.device", 2)
GetConfiguration  == Request(8, "in.standard.device", 0)
GetStatus         == Request(0, "in.standard.device", 0)
GetDescriptor     == Request(6, "in.standard.device", 2)     \* two packets
GetNoDescriptor   == Request(6, "in.standard.device", 0)     \* NO_DESCRIPTOR
GetEndpointStatus == Request(0, "in.standard.endpoint", InEp)
SetWakeup         == Request(3, "out.standard.device", 1)
ClearWakeup       == Request(1, "out.standard.device", 1)
SetTestMode       == Request(3, "out.standard.device", 2)
SetHalt           == Request(3, "out.standard.endpoint", InEp)
ClearHalt         == Request(1, "out.standard.endpoint", InEp)
GetReport         == Request(1, "in.class.interface", 0)
SetReport         == Request(9, "out.class.interface", 0)
SetIdle           == Request(10, "out.class.interface", 0)

NoRequest         == Request(0, "out.standard.device", 0)      \* zeroed memory

AllRequests ==
    {SetAddress1, SetConfiguration0, SetConfiguration1, SetConfiguration2,
     GetConfiguration, GetStatus, GetDescriptor, GetNoDescriptor,
     GetEndpointStatus, SetWakeup, ClearWakeup, SetTestMode, SetHalt, ClearHalt,
     GetReport, SetReport, SetIdle}

(* For the model checker, without those that take the steps of GetStatus, of
   SetWakeup, and of SetIdle, which is stalled, again *)
DistinctRequests ==
    AllRequests \ {GetConfiguration, GetEndpointStatus, ClearWakeup,
                   SetConfiguration2, GetNoDescriptor, SetTestMode}

ASSUME RequestsAssumption == Requests \subseteq AllRequests /\ MaxEvents \in Nat

(* The requests that the firmware answers *)
Supported == AllRequests \ {SetConfiguration2, GetNoDescriptor, SetTestMode, SetIdle}

DeviceToHost(r) ==
    r.bmRequestType \in {"in.standard.device", "in.standard.endpoint", "in.class.interface"}

HidPc     == {"hidOut", "hidRead", "hidIn", "hidSend"}
RequestPc == {"process", "standard", "status", "addressWait", "addressState",
              "configState", "configEndpoints", "feature", "writeStream",
              "writeStatus", "readStream", "readStatus", "finish", "leave"}
Pc == {"receive", "hid", "task"} \cup HidPc \cup RequestPc

VARIABLES
    pc,         \* where the main loop is
    dev,        \* registers and globals of the driver
    request,    \* USB_ControlRequest
    prev,       \* PrevEndpoint of USB_DeviceTask
    Length,     \* packets left in a control stream
    handled,    \* history: handlers that acted on this header
    bus,        \* the host's side
    count,      \* events so far, at most MaxEvents
    trouble     \* history: a request was cut short since the last clean reset

vars == <<pc, dev, request, prev, Length, handled, bus, count, trouble>>

Dev == [state : States, config : 0 .. 1, remote : BOOLEAN,
        pending : SUBSET Interrupts, enabled : SUBSET Interrupts,
        pll : BOOLEAN, frozen : BOOLEAN,
        uenum : Endpoints, alloc : SUBSET Endpoints, stalled : SUBSET Endpoints,
        in : SUBSET {ControlEp, InEp}, out : SUBSET {ControlEp, OutEp}, setup : BOOLEAN,
        addr : 0 .. 1, adden : BOOLEAN]

Bus == [vbus : BOOLEAN, reset : BOOLEAN, suspended : BOOLEAN, addr : 0 .. 1, config : 0 .. 1,
        phase : {"none", "dataIn", "dataOut", "statusIn", "statusOut"},
        header : AllRequests \cup {NoRequest}, unread : BOOLEAN]

TypeOK ==
    /\ pc \in Pc /\ dev \in Dev /\ bus \in Bus
    /\ request \in AllRequests \cup {NoRequest}
    /\ prev \in Endpoints /\ Length \in 0 .. 2
    /\ handled \in Nat /\ count \in Nat /\ trouble \in BOOLEAN

-----------------------------------------------------------------------------
(* Register operations on the selected endpoint *)
IsSETUPReceived == dev.uenum = ControlEp /\ dev.setup
IsINReady       == dev.uenum \in dev.in
IsOUTReceived   == dev.uenum \in dev.out

ClearSETUP(d) == [d EXCEPT !.setup = @ /\ d.uenum # ControlEp]
ClearIN(d)    == [d EXCEPT !.in = @ \ {d.uenum}]
ClearOUT(d)   == [d EXCEPT !.out = @ \ {d.uenum}]
Select(d, n)  == [d EXCEPT !.uenum = n]
Stall(d)      == [d EXCEPT !.stalled = @ \cup ({d.uenum} \cap d.alloc)]

Enable(d, i)  == [d EXCEPT !.enabled = @ \cup {i}]
Disable(d, i) == [d EXCEPT !.enabled = @ \ {i}]
Clear(d, i)   == [d EXCEPT !.pending = @ \ {i}]
Raised(d, i)  == i \in d.pending \cap d.enabled

(* Endpoint_ConfigureEndpoint: every allocated endpoint from n on is set up
   again, its banks are emptied, and n is left selected. *)
ConfigureEndpoint(d, n) ==
    LET again == {m \in d.alloc \cup {n} : m >= n}
    IN  [d EXCEPT !.alloc = @ \cup {n},
                  !.in = (@ \ again) \cup (again \cap {ControlEp, InEp}),
                  !.out = @ \ again,
                  !.stalled = @ \ again,
                  !.setup = @ /\ ControlEp \notin again,
                  !.uenum = n]

-----------------------------------------------------------------------------
(* USB_Init, USB_ResetInterface and USB_Init_Device; the bus is not plugged. *)
Init ==
    /\ pc = "receive"
    /\ dev = ConfigureEndpoint(
                [state |-> "Unattached", config |-> 0, remote |-> FALSE,
                 pending |-> {}, enabled |-> {"VBUSTI", "SUSPI", "EORSTI"},
                 pll |-> FALSE, frozen |-> FALSE,
                 uenum |-> ControlEp, alloc |-> {}, stalled |-> {},
                 in |-> {}, out |-> {}, setup |-> FALSE,
                 addr |-> 0, adden |-> FALSE], ControlEp)
    /\ request = NoRequest
    /\ prev = ControlEp
    /\ Length = 0
    /\ handled = 0
    /\ bus = [vbus |-> FALSE, reset |-> FALSE, suspended |-> FALSE, addr |-> 0,
              config |-> 0, phase |-> "none", header |-> request, unread |-> FALSE]
    /\ count = 0
    /\ trouble = FALSE

-----------------------------------------------------------------------------
(* USB_GEN_vect *)
VbusBranch(d) ==
    IF ~Raised(d, "VBUSTI") THEN d
    ELSE [Clear(d, "VBUSTI") EXCEPT
             !.pll = bus.vbus,
             !.state = IF bus.vbus THEN "Powered" ELSE "Unattached"]

SuspendBranch(d) ==
    IF ~Raised(d, "SUSPI") THEN d
    ELSE [Enable(Disable(d, "SUSPI"), "WAKEUPI") EXCEPT
             !.frozen = TRUE, !.pll = FALSE, !.state = "Suspended"]

WakeupBranch(d) ==
    IF ~Raised(d, "WAKEUPI") THEN d
    ELSE [Enable(Disable(Clear(d, "WAKEUPI"), "WAKEUPI"), "SUSPI") EXCEPT
             !.pll = TRUE, !.frozen = FALSE,
             !.state = IF d.config # 0 THEN "Configured"
                       ELSE IF d.adden THEN "Addressed" ELSE "Powered"]

(* Mutant: the configuration number survives a reset. *)
ResetBranchKeepsConfig(d) ==
    IF ~Raised(d, "EORSTI") THEN d
    ELSE LET cleared == Clear(Clear(d, "EORSTI"), "SUSPI")
             armed   == Enable(Disable(cleared, "SUSPI"), "WAKEUPI")
         IN  ConfigureEndpoint([armed EXCEPT !.state = "Default"], ControlEp)

ResetBranch(d) ==
    IF ~Raised(d, "EORSTI") THEN d
    ELSE LET cleared == Clear(Clear(d, "EORSTI"), "SUSPI")
             armed   == Enable(Disable(cleared, "SUSPI"), "WAKEUPI")
         IN  ConfigureEndpoint([armed EXCEPT !.state = "Default", !.config = 0],
                               ControlEp)

Interrupt ==
    /\ dev.pending \cap dev.enabled # {}
    /\ dev' = ResetBranch(WakeupBranch(SuspendBranch(VbusBranch(dev))))
    /\ trouble' = (trouble \/ (Raised(dev, "EORSTI") /\ pc \in HidPc \cup RequestPc))
    /\ UNCHANGED <<pc, request, prev, Length, handled, bus, count>>

-----------------------------------------------------------------------------
(* A step of the main loop that moves to p with registers d *)
Step(p, d) ==
    /\ pc' = p
    /\ dev' = d
    /\ UNCHANGED <<bus, count, trouble>>

Plain(p, d) == Step(p, d) /\ UNCHANGED <<request, prev, Length, handled>>

ReceiveCommand == pc = "receive" /\ Plain("hid", dev)

(* HID_Task *)
HidTask ==
    /\ pc = "hid"
    /\ IF dev.state # "Configured" THEN Plain("task", dev)
       ELSE Plain("hidOut", Select(dev, OutEp))

HidOut ==
    /\ pc = "hidOut"
    /\ IF IsOUTReceived THEN Plain("hidRead", dev)
       ELSE Plain("hidIn", Select(dev, InEp))

(* Mutant: the IN endpoint is not selected after a report was read. *)
HidReadKeepsSelection == pc = "hidRead" /\ Plain("hidIn", ClearOUT(dev))

HidRead == pc = "hidRead" /\ Plain("hidIn", Select(ClearOUT(dev), InEp))

HidIn ==
    /\ pc = "hidIn"
    /\ Plain(IF IsINReady THEN "hidSend" ELSE "task", dev)

HidSend == pc = "hidSend" /\ Plain("task", ClearIN(dev))

(* USB_DeviceTask *)
DeviceTask ==
    /\ pc = "task"
    /\ \/ /\ dev.state = "Unattached"
          /\ Plain("receive", dev)
       \/ /\ dev.state # "Unattached"
          /\ ~dev.setup
          /\ Plain("receive", dev)
       \/ /\ dev.state # "Unattached"
          /\ dev.setup
          /\ prev' = dev.uenum
          /\ Step("process", Select(dev, ControlEp))
          /\ UNCHANGED <<request, Length, handled>>

(* The header is read and EVENT_USB_Device_ControlRequest serves the class
   requests.  A reset has emptied the bank if SETUP is gone: what is read then
   is left open. *)
ClassRequest(r) ==
    /\ request' = r
    /\ bus' = [bus EXCEPT !.unread = FALSE]
    /\ handled' = IF r \in {GetReport, SetReport} THEN 1 ELSE 0
    /\ Length' = IF r \in {GetReport, SetReport} THEN 1 ELSE 0
    /\ dev' = IF r \in {GetReport, SetReport} THEN ClearSETUP(dev) ELSE dev
    /\ pc' = CASE r = GetReport -> "writeStream"
               [] r = SetReport -> "readStream"
               [] OTHER -> "standard"
    /\ UNCHANGED <<prev, count, trouble>>

Process ==
    /\ pc = "process"
    /\ IF dev.setup THEN ClassRequest(bus.header)
       ELSE \E r \in Requests : ClassRequest(r)

-----------------------------------------------------------------------------
(* The standard requests of DeviceStandardReq.c *)
Handle(p, d, n) ==
    /\ Step(p, d)
    /\ handled' = handled + 1
    /\ Length' = n
    /\ UNCHANGED <<request, prev>>

SetAddress ==
    /\ request.bRequest = 5 /\ request.bmRequestType = "out.standard.device"
    /\ Handle("status", ClearSETUP([dev EXCEPT !.addr = request.wValue]), 0)

(* Mutant: the type of the request is not compared. *)
SetConfigurationUntyped ==
    /\ request.bRequest = 9
    /\ IF request.wValue > 1 THEN Plain("finish", dev)
       ELSE Handle("status", ClearSETUP([dev EXCEPT !.config = request.wValue]), 0)

SetConfiguration ==
    /\ request.bRequest = 9 /\ request.bmRequestType = "out.standard.device"
    /\ IF request.wValue > 1 THEN Plain("finish", dev)
       ELSE Handle("status", ClearSETUP([dev EXCEPT !.config = request.wValue]), 0)

(* USB_Device_GetConfiguration and USB_Device_GetStatus, which looks at an
   endpoint and selects the control endpoint again. *)
GetByte ==
    /\ \/ request.bRequest \in {0, 8} /\ request.bmRequestType = "in.standard.device"
       \/ request.bRequest = 0 /\ request.bmRequestType = "in.standard.endpoint"
    /\ Handle("status", ClearIN(ClearSETUP(dev)), 0)

GetDescriptorBytes ==
    /\ request.bRequest = 6 /\ request.bmRequestType = "in.standard.device"
    /\ IF request.wValue = 0 THEN Plain("finish", dev)
       ELSE Handle("writeStream", ClearSETUP(dev), request.wValue)

(* Mutant: SETUP is not cleared for the device feature. *)
ClearSetFeatureKeepsSetup ==
    /\ request.bRequest \in {1, 3}
    /\ \/ /\ request.bmRequestType = "out.standard.device"
          /\ IF request.wValue # 1 THEN Plain("finish", dev)
             ELSE Handle("status", [dev EXCEPT !.remote = (request.bRequest = 3)], 0)
       \/ /\ request.bmRequestType = "out.standard.endpoint"
          /\ Handle("feature", Select(dev, request.wValue), 0)

ClearSetFeature ==
    /\ request.bRequest \in {1, 3}
    /\ \/ /\ request.bmRequestType = "out.standard.device"
          /\ IF request.wValue # 1 THEN Plain("finish", dev)
             ELSE Handle("status",
                         ClearSETUP([dev EXCEPT !.remote = (request.bRequest = 3)]), 0)
       \/ /\ request.bmRequestType = "out.standard.endpoint"
          /\ Handle("feature", Select(dev, request.wValue), 0)

(* The endpoint is selected; it is halted or released. *)
Feature ==
    /\ pc = "feature"
    /\ LET d == IF dev.uenum \notin dev.alloc THEN dev
                ELSE IF request.bRequest = 3 THEN Stall(dev)
                ELSE [dev EXCEPT !.stalled = @ \ {dev.uenum},
                                 !.in = @ \cup ({request.wValue} \cap {InEp}),
                                 !.out = @ \ {request.wValue}]
       IN  Plain("status", ClearSETUP(Select(d, ControlEp)))

NoHandler ==
    \/ request.bRequest \notin {0, 1, 3, 5, 6, 8, 9}
    \/ request.bmRequestType \in {"in.class.interface", "out.class.interface"}

Standard ==
    /\ pc = "standard"
    /\ \/ ~IsSETUPReceived /\ Plain("finish", dev)
       \/ /\ IsSETUPReceived
          /\ \/ SetAddress \/ SetConfiguration \/ GetByte
             \/ GetDescriptorBytes \/ ClearSetFeature
             \/ NoHandler /\ Plain("finish", dev)

(* Where a handler goes on after Endpoint_ClearStatusStage *)
AfterStatus ==
    CASE request.bRequest = 5 -> "addressWait"
      [] request.bRequest = 9 -> "configState"
      [] OTHER -> "finish"

(* Mutant: the wait does not look at the state. *)
StatusStageBlind ==
    /\ pc = "status"
    /\ \/ /\ DeviceToHost(request) /\ IsOUTReceived
          /\ Plain(AfterStatus, ClearOUT(dev))
       \/ /\ ~DeviceToHost(request) /\ IsINReady
          /\ Plain(AfterStatus, ClearIN(dev))

(* Endpoint_ClearStatusStage *)
StatusStage ==
    /\ pc = "status"
    /\ \/ /\ DeviceToHost(request) /\ IsOUTReceived
          /\ Plain(AfterStatus, ClearOUT(dev))
       \/ /\ ~DeviceToHost(request) /\ IsINReady
          /\ Plain(AfterStatus, ClearIN(dev))
       \/ /\ dev.state = "Unattached"
          /\ ~(IF DeviceToHost(request) THEN IsOUTReceived ELSE IsINReady)
          /\ Plain(AfterStatus, dev)

(* USB_Device_SetAddress: the wait, and then the two assignments *)
AddressWait ==
    /\ pc = "addressWait"
    /\ IsINReady
    /\ Plain("addressState", [dev EXCEPT !.adden = TRUE])

AddressState ==
    /\ pc = "addressState"
    /\ Plain("finish", [dev EXCEPT !.state = IF request.wValue # 0 THEN "Addressed"
                                             ELSE "Default"])

(* USB_Device_SetConfiguration after the status stage, and the event handler *)
ConfigState ==
    /\ pc = "configState"
    /\ Plain("configEndpoints",
             [dev EXCEPT !.state = IF dev.config # 0 \/ dev.adden THEN "Configured"
                                   ELSE "Powered"])

(* Mutant: the OUT endpoint is forgotten. *)
ConfigurationChangedInOnly ==
    /\ pc = "configEndpoints"
    /\ Plain("finish", ConfigureEndpoint(dev, InEp))

ConfigurationChanged ==
    /\ pc = "configEndpoints"
    /\ Plain("finish", ConfigureEndpoint(ConfigureEndpoint(dev, OutEp), InEp))

(* After a control stream: ClearOUT or ClearIN, whatever the stream returned *)
StreamDone(d) ==
    Plain(IF request.bRequest = 6 THEN "finish" ELSE "standard",
          IF DeviceToHost(request) THEN ClearOUT(d) ELSE ClearIN(d))

BusGone == dev.state \in {"Unattached", "Suspended"}

(* Endpoint_Write_Control_Stream_LE and _PStream_LE *)
WriteStream ==
    /\ pc = "writeStream"
    /\ \/ /\ BusGone \/ IsSETUPReceived
          /\ StreamDone(dev)
       \/ /\ ~BusGone /\ ~IsSETUPReceived /\ IsOUTReceived
          /\ Plain("writeStatus", dev)
       \/ /\ ~BusGone /\ ~IsSETUPReceived /\ ~IsOUTReceived /\ IsINReady
          /\ Step(IF Length = 1 THEN "writeStatus" ELSE "writeStream", ClearIN(dev))
          /\ Length' = Length - 1
          /\ UNCHANGED <<request, prev, handled>>

WriteStatus ==
    /\ pc = "writeStatus"
    /\ IsOUTReceived \/ BusGone \/ IsSETUPReceived
    /\ StreamDone(dev)

(* Endpoint_Read_Control_Stream_LE *)
ReadStream ==
    /\ pc = "readStream"
    /\ \/ /\ BusGone \/ IsSETUPReceived
          /\ StreamDone(dev)
       \/ /\ ~BusGone /\ ~IsSETUPReceived /\ IsOUTReceived
          /\ Step("readStatus", ClearOUT(dev))
          /\ Length' = 0
          /\ UNCHANGED <<request, prev, handled>>

ReadStatus ==
    /\ pc = "readStatus"
    /\ IsINReady \/ BusGone
    /\ StreamDone(dev)

(* The end of USB_Device_ProcessControlRequest and of USB_DeviceTask *)
Finish ==
    /\ pc = "finish"
    /\ Plain("leave", IF IsSETUPReceived THEN Stall(ClearSETUP(dev)) ELSE dev)

Leave == pc = "leave" /\ Plain("receive", Select(dev, prev))

Main ==
    \/ ReceiveCommand \/ HidTask \/ HidOut \/ HidRead \/ HidIn \/ HidSend
    \/ DeviceTask \/ Process \/ Standard \/ Feature \/ StatusStage
    \/ AddressWait \/ AddressState \/ ConfigState \/ ConfigurationChanged
    \/ WriteStream \/ WriteStatus \/ ReadStream \/ ReadStatus \/ Finish \/ Leave

-----------------------------------------------------------------------------
(* The controller hardware and the host.  A wake-up clears a pending suspend
   flag and the other way round. *)
RaiseWakeup(d)  == [d EXCEPT !.pending = (@ \ {"SUSPI"}) \cup {"WAKEUPI"}]
RaiseSuspend(d) == [d EXCEPT !.pending = (@ \ {"WAKEUPI"}) \cup {"SUSPI"}]

InRequest == pc \in RequestPc \/ dev.setup

Host == UNCHANGED <<pc, request, prev, Length, handled>>

(* VBUS rises or falls.  Trouble: a request, or other interrupts, are pending. *)
Plug ==
    /\ count < MaxEvents
    /\ "VBUSTI" \notin dev.pending
    /\ count' = count + 1
    /\ bus' = [bus EXCEPT !.vbus = ~@, !.reset = FALSE, !.suspended = FALSE,
                          !.addr = 0, !.config = 0, !.phase = "none"]
    /\ dev' = [dev EXCEPT !.pending = @ \cup {"VBUSTI"}]
    /\ trouble' = (trouble \/ InRequest \/ dev.pending \cap dev.enabled # {})
    /\ Host

(* The host resets the bus, once the plug has been noticed.  A frozen clock
   runs again by the end of the reset if the wake-up interrupt is armed. *)
BusReset ==
    /\ bus.vbus /\ "VBUSTI" \notin dev.pending
    /\ count < MaxEvents
    /\ count' = count + 1
    /\ bus' = [bus EXCEPT !.reset = TRUE, !.suspended = FALSE, !.addr = 0,
                          !.config = 0, !.phase = "none"]
    /\ dev' = LET d == [RaiseWakeup(dev) EXCEPT
                           !.adden = FALSE, !.setup = FALSE,
                           !.in = @ \cup {ControlEp}, !.out = @ \ {ControlEp}]
              IN  IF dev.frozen /\ "WAKEUPI" \notin dev.enabled THEN d
                  ELSE [d EXCEPT !.pending = @ \cup {"EORSTI"}]
    /\ trouble' = (InRequest \/ (trouble /\ pc \in HidPc))
    /\ Host

(* A frame starts.  Only the first one after a reset or a plug makes a
   difference. *)
StartOfFrame ==
    /\ bus.vbus /\ ~bus.suspended
    /\ dev.pending \cap {"VBUSTI", "EORSTI"} = {}
    /\ "WAKEUPI" \in dev.enabled \ dev.pending
    /\ dev' = RaiseWakeup(dev)
    /\ UNCHANGED <<bus, count, trouble>>
    /\ Host

(* Frames have been sent, and then nothing for three milliseconds, which may
   be in the middle of a request; the host goes on with it after Resume. *)
Suspend ==
    /\ bus.reset /\ ~bus.suspended
    /\ dev.pll /\ ~dev.frozen /\ "WAKEUPI" \notin dev.enabled
    /\ dev.pending \cap dev.enabled = {}
    /\ count < MaxEvents
    /\ count' = count + 1
    /\ bus' = [bus EXCEPT !.suspended = TRUE]
    /\ dev' = RaiseSuspend(dev)
    /\ trouble' = (trouble \/ InRequest \/ bus.phase # "none")
    /\ Host

Resume ==
    /\ bus.suspended
    /\ bus' = [bus EXCEPT !.suspended = FALSE]
    /\ dev' = RaiseWakeup(dev)
    /\ UNCHANGED <<count, trouble>>
    /\ Host

(* After a reset, the device hears what the host sends to its address. *)
Hears ==
    /\ bus.reset /\ ~bus.suspended
    /\ dev.pll /\ ~dev.frozen
    /\ dev.pending \cap {"VBUSTI", "EORSTI"} = {}
    /\ bus.addr = IF dev.adden THEN dev.addr ELSE 0

(* A host addresses before it configures, and configures before it uses; what
   a device without an address does when asked for its status, the USB
   specification leaves open. *)
InOrder(r) ==
    IF bus.addr = 0 THEN r \in {SetAddress1, GetDescriptor, GetNoDescriptor}
    ELSE /\ r # SetAddress1
         /\ bus.config = 0 => r \notin {SetHalt, ClearHalt, GetEndpointStatus,
                                         GetReport, SetReport, SetIdle}

(* A SETUP packet is always taken, also in the middle of another request; the
   controller resets the bank of the control endpoint for it. *)
HostSetup(r) ==
    /\ Hears /\ InOrder(r)
    /\ count < MaxEvents
    /\ count' = count + 1
    /\ bus' = [bus EXCEPT !.header = r, !.unread = TRUE,
                          !.phase = IF DeviceToHost(r) THEN "dataIn"
                                    ELSE IF r = SetReport THEN "dataOut" ELSE "statusIn"]
    /\ dev' = [RaiseWakeup(dev) EXCEPT !.setup = TRUE, !.in = @ \cup {ControlEp},
                 !.out = @ \ {ControlEp}, !.stalled = @ \ {ControlEp}]
    /\ trouble' = (trouble \/ bus.phase # "none")
    /\ Host

(* The packets on the control endpoint, once SETUP has been cleared *)
HostPacket(phase, p, d) ==
    /\ Hears /\ ~dev.setup
    /\ bus.phase = phase
    /\ bus' = [bus EXCEPT !.phase = p,
                  !.addr = IF phase = "statusIn" /\ bus.header = SetAddress1
                           THEN bus.header.wValue ELSE @,
                  !.config = IF phase = "statusIn"
                                /\ bus.header \in {SetConfiguration0, SetConfiguration1}
                             THEN bus.header.wValue ELSE @]
    /\ dev' = d
    /\ UNCHANGED <<count, trouble>>
    /\ Host

TakeIN == [dev EXCEPT !.in = @ \cup {ControlEp}]
PutOUT == [dev EXCEPT !.out = @ \cup {ControlEp}]

HostControl ==
    \/ /\ ControlEp \notin dev.in \cup dev.stalled
       /\ \E p \in {"statusOut"} \cup (IF Length > 0 THEN {"dataIn"} ELSE {}) :
             HostPacket("dataIn", p, TakeIN)
    \/ ControlEp \notin dev.out \cup dev.stalled /\ HostPacket("statusOut", "none", PutOUT)
    \/ ControlEp \notin dev.out \cup dev.stalled /\ HostPacket("dataOut", "statusIn", PutOUT)
    \/ ControlEp \notin dev.in \cup dev.stalled /\ HostPacket("statusIn", "none", TakeIN)

(* The host sees a stalled request. *)
HostStalled ==
    /\ Hears /\ ~dev.setup /\ ControlEp \in dev.stalled
    /\ bus.phase # "none"
    /\ bus' = [bus EXCEPT !.phase = "none"]
    /\ UNCHANGED <<dev, count, trouble>>
    /\ Host

(* The host polls the joystick: it takes a report, or sends one. *)
HostPoll ==
    /\ Hears /\ bus.config # 0
    /\ \/ /\ InEp \notin dev.in \cup dev.stalled
          /\ dev' = [dev EXCEPT !.in = @ \cup {InEp}]
       \/ /\ OutEp \notin dev.out \cup dev.stalled
          /\ dev' = [dev EXCEPT !.out = @ \cup {OutEp}]
    /\ UNCHANGED <<bus, count, trouble>>
    /\ Host

Next ==
    \/ Main \/ Interrupt
    \/ Plug \/ BusReset \/ StartOfFrame \/ Suspend \/ Resume
    \/ \E r \in Requests : HostSetup(r)
    \/ HostControl \/ HostStalled \/ HostPoll

Spec == Init /\ [][Next]_vars

(* The processor runs, interrupts are taken, and the host goes on with a
   request it has begun. *)
FairSpec == Spec /\ WF_vars(Main) /\ WF_vars(Interrupt)
                 /\ WF_vars(HostControl \/ HostStalled)

-----------------------------------------------------------------------------
(* Once the interrupts are served, an unplugged device is Unattached, so that
   the waits of the driver end, and between requests device and host agree on
   the address, the configuration and the state of the device, unless a
   request was cut short since the last clean reset.  In particular a
   suspended device notices that the bus has woken up (SetAddress,
   SetConfiguration, USB_GEN_vect, Endpoint_ClearStatusStage). *)
HostAndDeviceAgree ==
    dev.pending \cap dev.enabled = {} /\ ~trouble =>
        /\ ~bus.vbus => dev.state = "Unattached"
        /\ bus.reset /\ bus.phase = "none" /\ ~InRequest =>
              /\ dev.config = bus.config
              /\ IF bus.suspended THEN dev.state = "Suspended"
                 ELSE /\ bus.addr = IF dev.adden THEN dev.addr ELSE 0
                      /\ bus.config # 0 => dev.state = "Configured"
                      /\ dev.state \notin {"Unattached", "Suspended"}

(* HID_Task finds both endpoints allocated, whatever set the state to
   Configured (HID_Task, EVENT_USB_Device_ConfigurationChanged). *)
HidFindsItsEndpoints == pc \in HidPc => Endpoints \subseteq dev.alloc

(* No header is acted on twice, although the numbers of the HID requests are
   those of standard requests (USB_Device_ProcessControlRequest). *)
HandledOnce == handled <= 1

(* What the driver stalls is a request it does not support, or a request that
   arrived before the one being served had ended
   (USB_Device_ProcessControlRequest). *)
Stalls == pc = "finish" /\ pc' = "leave" /\ dev.setup /\ ~dev'.setup

StallsAreDeserved ==
    [][Stalls => request \notin Supported \/ bus.unread]_vars

(* The main loop always comes round again, also when the device is unplugged
   in the middle of a request, or the bus suspended in the data stage of one
   and never resumed.  The exceptions are a request, a reset or a new plug
   that comes before the driver has left the request or the report it is
   serving, another interrupt taken together with that of VBUS, and the two
   waits that do not look at the state they should: the status stage of a bus
   that is suspended, and SetAddress, for which that of an unplugged device is
   the same (Endpoint_ClearStatusStage, the control streams, SetAddress). *)
Overrun ==
    \/ bus.unread /\ pc \in RequestPc \ {"process"}
    \/ bus.vbus /\ ~bus.reset /\ pc \in RequestPc
    \/ "EORSTI" \in dev.pending /\ pc \in RequestPc \cup HidPc
    \/ "VBUSTI" \in dev.pending /\ dev.pending \cap dev.enabled # {"VBUSTI"}
    \/ bus.suspended /\ pc \in {"status", "addressWait"}
    \/ ~bus.vbus /\ pc = "addressWait"

MainLoopRuns == []<>(pc = "receive") \/ <>Overrun

(* As long as the host keeps the joystick configured and the bus awake, and
   has cut no request short, reports are queued for it again and again,
   however many reports it sends itself; the exceptions are those above and a
   halted endpoint (HID_Task). *)
ReportsFlow ==
    <>[](bus.config # 0 /\ ~bus.suspended /\ ~trouble)
        => \/ []<>(InEp \notin dev.in \/ InEp \in dev.stalled)
           \/ <>Overrun

-----------------------------------------------------------------------------
(* The inductive invariant behind HostAndDeviceAgree, HidFindsItsEndpoints,
   HandledOnce and StallsAreDeserved.  First, what holds whatever was cut
   short. *)
ClassRequests == {GetReport, SetReport}
Configurations == {SetConfiguration0, SetConfiguration1}

(* Which request the driver may be serving where, *)
RequestAt ==
    /\ pc \in RequestPc \ {"process"} => request \in AllRequests
    /\ dev.setup => bus.header \in AllRequests
    /\ pc = "status" => request \in Supported \ (ClassRequests \cup {GetDescriptor})
    /\ pc \in {"addressWait", "addressState"} => request = SetAddress1
    /\ pc \in {"configState", "configEndpoints"} => request \in Configurations
    /\ pc = "feature" => request \in {SetHalt, ClearHalt}
    /\ pc \in {"writeStream", "writeStatus"} => request \in {GetReport, GetDescriptor}
    /\ pc = "writeStream" => Length > 0
    /\ pc \in {"readStream", "readStatus"} => request = SetReport
    /\ pc = "standard" => handled = 0 \/ request \in ClassRequests
    /\ handled <= 1

(* which endpoint is selected and which are allocated then, *)
Selected ==
    /\ pc \in RequestPc \ {"feature", "finish", "leave"} => dev.uenum = ControlEp
    /\ pc = "finish" /\ dev.uenum # ControlEp => request \in Configurations

Configures == pc \in {"status", "configState", "configEndpoints"} /\ request \in Configurations

Allocated ==
    /\ ControlEp \in dev.alloc /\ dev.stalled \subseteq dev.alloc
    /\ dev.config # 0 \/ dev.state = "Configured" =>
          Endpoints \subseteq dev.alloc \/ Configures
    /\ pc \in HidPc => Endpoints \subseteq dev.alloc

(* and whose SETUP is received. *)
Answered ==
    dev.setup => \/ bus.unread
                 \/ pc = "standard" /\ request \notin ClassRequests
                 \/ pc = "feature"
                 \/ pc = "finish" /\ request \notin Supported

(* A device that is suspended can be woken. *)
Registers ==
    /\ {"VBUSTI", "EORSTI"} \subseteq dev.enabled
    /\ dev.enabled \cap {"SUSPI", "WAKEUPI"} # {}
    /\ dev.frozen => "WAKEUPI" \in dev.enabled
    /\ dev.state = "Suspended" => dev.frozen
    /\ "SUSPI" \notin dev.pending \/ "WAKEUPI" \notin dev.pending
    /\ dev.setup => ControlEp \notin dev.out

HostInv ==
    /\ bus.reset => bus.vbus /\ "VBUSTI" \notin dev.pending
    /\ bus.suspended => bus.reset /\ dev.pending \cap {"WAKEUPI", "EORSTI"} = {}
    /\ bus.reset /\ "SUSPI" \in dev.pending => bus.suspended
    /\ bus.reset /\ "EORSTI" \in dev.pending => "WAKEUPI" \in dev.pending
    /\ bus.phase # "none" => bus.reset /\ "EORSTI" \notin dev.pending
    /\ bus.phase \in {"dataIn", "statusOut"} => DeviceToHost(bus.header)
    /\ bus.phase = "dataOut" => bus.header = SetReport
    /\ bus.phase # "none" /\ bus.header = SetAddress1 => bus.addr = 0
    /\ bus.phase # "none" /\ bus.header \in Configurations => bus.addr = 1
    /\ bus.addr = 0 => bus.config = 0
    /\ bus.addr = 1 => "EORSTI" \notin dev.pending

DriverInv ==
    TypeOK /\ RequestAt /\ Selected /\ Allocated /\ Answered /\ Registers /\ HostInv

(* Second, what holds while no request has been cut short since the last clean
   reset.  The device is apart from the host when it is not plugged. *)
Apart ==
    ~bus.vbus => /\ ~InRequest /\ dev.pending \cap dev.enabled \subseteq {"VBUSTI"}
                 /\ "VBUSTI" \in dev.pending \/ dev.state = "Unattached"

FirstPhase(r) == IF DeviceToHost(r) THEN "dataIn"
                 ELSE IF r = SetReport THEN "dataOut" ELSE "statusIn"

(* The driver is about to serve the header it has read; *)
Begins == pc = "feature" \/ (pc = "standard" /\ request \notin ClassRequests)

(* it is about to send the packet that ends a request; *)
EndsWithIn == pc = "readStatus" \/ (pc = "status" /\ ~DeviceToHost(request))

(* the host waits for that packet. *)
Awaits(R) == /\ bus.phase = "statusIn" /\ bus.header \in R
             /\ ~dev.setup /\ ControlEp \notin dev.stalled

(* The driver and the host are at the same request, and nothing of an earlier
   one is left in the banks of the control endpoint, *)
Serving ==
    /\ InRequest => bus.reset /\ "EORSTI" \notin dev.pending
    /\ InRequest \/ bus.phase # "none" => ~bus.suspended
    /\ pc \in {"hidOut", "hidRead"} => dev.uenum = OutEp
    /\ pc \in {"hidIn", "hidSend", "feature"} => dev.uenum = InEp
    /\ dev.setup => bus.phase = FirstPhase(bus.header) /\ ControlEp \in dev.in \ dev.stalled
    /\ pc = "process" => dev.setup
    /\ Begins => dev.setup /\ request = bus.header
    /\ EndsWithIn \/ pc = "readStream" =>
          ~dev.setup /\ request = bus.header /\ ControlEp \in dev.in \ dev.stalled
    /\ EndsWithIn => bus.phase = "statusIn"
    /\ pc = "readStream" => \/ bus.phase = "dataOut" /\ ControlEp \notin dev.out
                            \/ bus.phase = "statusIn"

(* so that the address changes for both between two requests, *)
Addressing ==
    /\ Awaits({SetAddress1}) => pc = "addressWait" \/ (pc = "status" /\ request = SetAddress1)
    /\ pc = "addressWait" =>
          /\ ~dev.setup /\ ~dev.adden
          /\ \/ Awaits({SetAddress1}) /\ ControlEp \notin dev.in
             \/ bus.phase = "none" /\ bus.addr = 1
    /\ pc \in {"status", "addressWait", "addressState"} /\ request = SetAddress1 =>
          dev.addr = 1 /\ dev.config = 0
    /\ bus.reset /\ bus.addr = 1 => dev.addr = 1 /\ (dev.adden \/ pc = "addressWait")
    /\ bus.reset /\ bus.addr = 0 => ~dev.adden

(* the configuration too, *)
Configuring ==
    bus.reset /\ "EORSTI" \notin dev.pending =>
       /\ dev.config = IF Awaits(Configurations) THEN bus.header.wValue ELSE bus.config
       /\ dev.config # 0 => \/ dev.state \in {"Configured", "Suspended"}
                            \/ pc \in {"status", "configState"} /\ request \in Configurations

(* and both are awake or asleep. *)
Awake ==
    bus.reset /\ "EORSTI" \notin dev.pending =>
       /\ dev.state # "Unattached"
       /\ dev.frozen /\ ~bus.suspended => "WAKEUPI" \in dev.pending
       /\ InRequest \/ bus.phase # "none" => ~dev.frozen
       /\ bus.suspended => "SUSPI" \in dev.pending \cap dev.enabled \/ dev.state = "Suspended"

CleanInv == ~trouble => Apart /\ Serving /\ Addressing /\ Configuring /\ Awake
=============================================================================
