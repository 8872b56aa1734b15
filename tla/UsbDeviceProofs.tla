-------------------------- MODULE UsbDeviceProofs --------------------------
(***************************************************************************)
(* Proofs about the USB side of the firmware (UsbDevice), for any set of   *)
(* the requests and any number of events: what the driver serves, what it  *)
(* stalls, the endpoints it finds, and that device and host agree.         *)
(***************************************************************************)
EXTENDS UsbDevice, TLAPS

USE RequestsAssumption

(* The headers, by their fields. *)
LEMMA Headers ==
  /\ SetAddress1.bRequest = 5 /\ SetAddress1.bmRequestType = "out.standard.device"
  /\ SetConfiguration0.bRequest = 9 /\ SetConfiguration0.bmRequestType = "out.standard.device"
  /\ SetConfiguration1.bRequest = 9 /\ SetConfiguration1.bmRequestType = "out.standard.device"
  /\ SetConfiguration2.bRequest = 9 /\ SetConfiguration2.bmRequestType = "out.standard.device"
  /\ GetConfiguration.bRequest = 8 /\ GetConfiguration.bmRequestType = "in.standard.device"
  /\ GetStatus.bRequest = 0 /\ GetStatus.bmRequestType = "in.standard.device"
  /\ GetDescriptor.bRequest = 6 /\ GetDescriptor.bmRequestType = "in.standard.device"
  /\ GetNoDescriptor.bRequest = 6 /\ GetNoDescriptor.bmRequestType = "in.standard.device"
  /\ GetEndpointStatus.bRequest = 0 /\ GetEndpointStatus.bmRequestType = "in.standard.endpoint"
  /\ SetWakeup.bRequest = 3 /\ SetWakeup.bmRequestType = "out.standard.device"
  /\ ClearWakeup.bRequest = 1 /\ ClearWakeup.bmRequestType = "out.standard.device"
  /\ SetTestMode.bRequest = 3 /\ SetTestMode.bmRequestType = "out.standard.device"
  /\ SetHalt.bRequest = 3 /\ SetHalt.bmRequestType = "out.standard.endpoint"
  /\ ClearHalt.bRequest = 1 /\ ClearHalt.bmRequestType = "out.standard.endpoint"
  /\ GetReport.bRequest = 1 /\ GetReport.bmRequestType = "in.class.interface"
  /\ SetReport.bRequest = 9 /\ SetReport.bmRequestType = "out.class.interface"
  /\ SetIdle.bRequest = 10 /\ SetIdle.bmRequestType = "out.class.interface"
  BY Zenon DEF Request, SetAddress1, SetConfiguration0, SetConfiguration1, SetConfiguration2,
         GetConfiguration, GetStatus, GetDescriptor, GetNoDescriptor,
         GetEndpointStatus, SetWakeup, ClearWakeup, SetTestMode, SetHalt, ClearHalt, GetReport, SetReport, SetIdle

LEMMA Values ==
  /\ SetAddress1.wValue = 1 /\ SetConfiguration0.wValue = 0 /\ SetConfiguration1.wValue = 1
  /\ SetConfiguration2.wValue = 2 /\ GetDescriptor.wValue = 2 /\ GetNoDescriptor.wValue = 0
  /\ SetHalt.wValue = InEp /\ ClearHalt.wValue = InEp
  /\ SetWakeup.wValue = 1 /\ ClearWakeup.wValue = 1 /\ SetTestMode.wValue = 2
  BY Zenon DEF Request, SetAddress1, SetConfiguration0, SetConfiguration1, SetConfiguration2,
         GetDescriptor, GetNoDescriptor, SetHalt, ClearHalt, SetWakeup, ClearWakeup,
         SetTestMode

(* Which of them answer the host with data. *)
LEMMA Directions ==
  ASSUME NEW r \in AllRequests
  PROVE  DeviceToHost(r) <=> r \in {GetConfiguration, GetStatus, GetDescriptor,
                                    GetNoDescriptor, GetEndpointStatus, GetReport}
  BY Headers, Zenon DEF DeviceToHost, AllRequests

(* A header sets the address or a configuration, not both. *)
LEMMA SetAddressApart == SetAddress1 \notin Configurations
  BY Headers DEF Configurations

-----------------------------------------------------------------------------
(* What the operations on the registers change. *)

(* The registers of the interrupts, *)
SameInterrupts(d, e) ==
    /\ e.pending = d.pending /\ e.enabled = d.enabled /\ e.pll = d.pll /\ e.frozen = d.frozen

(* the state of the device, *)
SameDevice(d, e) ==
    /\ e.state = d.state /\ e.config = d.config /\ e.addr = d.addr /\ e.adden = d.adden

(* and the banks of the endpoints. *)
SameBanks(d, e) ==
    /\ e.in = d.in /\ e.out = d.out /\ e.setup = d.setup
    /\ e.alloc = d.alloc /\ e.stalled = d.stalled

LEMMA SelectChanges ==
  ASSUME NEW d \in Dev, NEW n \in Endpoints
  PROVE  /\ Select(d, n) \in Dev /\ Select(d, n).uenum = n
         /\ SameInterrupts(d, Select(d, n)) /\ SameDevice(d, Select(d, n))
         /\ SameBanks(d, Select(d, n))
  BY Zenon DEF Select, Dev, SameInterrupts, SameDevice, SameBanks

LEMMA ClearSETUPChanges ==
  ASSUME NEW d \in Dev
  PROVE  /\ ClearSETUP(d) \in Dev /\ ClearSETUP(d).uenum = d.uenum
         /\ SameInterrupts(d, ClearSETUP(d)) /\ SameDevice(d, ClearSETUP(d))
         /\ ClearSETUP(d).in = d.in /\ ClearSETUP(d).out = d.out
         /\ ClearSETUP(d).alloc = d.alloc /\ ClearSETUP(d).stalled = d.stalled
         /\ ClearSETUP(d).setup = (d.setup /\ d.uenum # ControlEp)
  BY Zenon DEF ClearSETUP, Dev, SameInterrupts, SameDevice

LEMMA ClearINChanges ==
  ASSUME NEW d \in Dev
  PROVE  /\ ClearIN(d) \in Dev /\ ClearIN(d).uenum = d.uenum
         /\ SameInterrupts(d, ClearIN(d)) /\ SameDevice(d, ClearIN(d))
         /\ ClearIN(d).in = d.in \ {d.uenum} /\ ClearIN(d).out = d.out
         /\ ClearIN(d).alloc = d.alloc /\ ClearIN(d).stalled = d.stalled
         /\ ClearIN(d).setup = d.setup
  BY Zenon DEF ClearIN, Dev, SameInterrupts, SameDevice

LEMMA ClearOUTChanges ==
  ASSUME NEW d \in Dev
  PROVE  /\ ClearOUT(d) \in Dev /\ ClearOUT(d).uenum = d.uenum
         /\ SameInterrupts(d, ClearOUT(d)) /\ SameDevice(d, ClearOUT(d))
         /\ ClearOUT(d).in = d.in /\ ClearOUT(d).out = d.out \ {d.uenum}
         /\ ClearOUT(d).alloc = d.alloc /\ ClearOUT(d).stalled = d.stalled
         /\ ClearOUT(d).setup = d.setup
  BY Zenon DEF ClearOUT, Dev, SameInterrupts, SameDevice

LEMMA StallChanges ==
  ASSUME NEW d \in Dev
  PROVE  /\ Stall(d) \in Dev /\ Stall(d).uenum = d.uenum
         /\ SameInterrupts(d, Stall(d)) /\ SameDevice(d, Stall(d))
         /\ Stall(d).in = d.in /\ Stall(d).out = d.out
         /\ Stall(d).alloc = d.alloc /\ Stall(d).stalled = d.stalled \cup ({d.uenum} \cap d.alloc)
         /\ Stall(d).setup = d.setup
  BY Zenon DEF Stall, Dev, SameInterrupts, SameDevice

(* Endpoint_ConfigureEndpoint, by its registers. *)
Again(d, n) == {m \in d.alloc \cup {n} : m >= n}

LEMMA ConfigureRegisters ==
  ASSUME NEW d \in Dev, NEW n \in Endpoints
  PROVE  /\ ConfigureEndpoint(d, n) \in Dev /\ ConfigureEndpoint(d, n).uenum = n
         /\ SameInterrupts(d, ConfigureEndpoint(d, n)) /\ SameDevice(d, ConfigureEndpoint(d, n))
         /\ ConfigureEndpoint(d, n).alloc = d.alloc \cup {n}
         /\ ConfigureEndpoint(d, n).stalled = d.stalled \ Again(d, n)
         /\ ConfigureEndpoint(d, n).in =
               (d.in \ Again(d, n)) \cup (Again(d, n) \cap {ControlEp, InEp})
         /\ ConfigureEndpoint(d, n).out = d.out \ Again(d, n)
         /\ ConfigureEndpoint(d, n).setup = (d.setup /\ ControlEp \notin Again(d, n))
  <1> DEFINE e == [d EXCEPT !.alloc = d.alloc \cup {n},
                  !.in = (d.in \ Again(d, n)) \cup (Again(d, n) \cap {ControlEp, InEp}),
                  !.out = d.out \ Again(d, n),
                  !.stalled = d.stalled \ Again(d, n),
                  !.setup = d.setup /\ ControlEp \notin Again(d, n),
                  !.uenum = n]
  <1>1. ConfigureEndpoint(d, n) = e
    BY Zenon DEF ConfigureEndpoint, Again
  <1>2. (d.setup /\ ControlEp \notin Again(d, n)) \in BOOLEAN
    BY Zenon
  <1>3. e \in Dev
    BY <1>2, Zenon DEF Dev
  <1>4. /\ e.uenum = n /\ e.alloc = d.alloc \cup {n} /\ e.stalled = d.stalled \ Again(d, n)
        /\ e.in = (d.in \ Again(d, n)) \cup (Again(d, n) \cap {ControlEp, InEp})
        /\ e.out = d.out \ Again(d, n)
        /\ e.setup = (d.setup /\ ControlEp \notin Again(d, n))
    BY Zenon DEF Dev
  <1>5. SameInterrupts(d, e) /\ SameDevice(d, e)
    BY Zenon DEF Dev, SameInterrupts, SameDevice
  <1> HIDE DEF e
  <1> QED BY <1>1, <1>3, <1>4, <1>5, Zenon

(* For an endpoint of the joystick it leaves the control endpoint alone. *)
LEMMA ConfigureChanges ==
  ASSUME NEW d \in Dev, NEW n \in {InEp, OutEp}
  PROVE  /\ ConfigureEndpoint(d, n) \in Dev /\ ConfigureEndpoint(d, n).uenum = n
         /\ SameInterrupts(d, ConfigureEndpoint(d, n)) /\ SameDevice(d, ConfigureEndpoint(d, n))
         /\ ConfigureEndpoint(d, n).alloc = d.alloc \cup {n}
         /\ ConfigureEndpoint(d, n).stalled \subseteq d.stalled
         /\ ConfigureEndpoint(d, n).setup = d.setup
         /\ ControlEp \in ConfigureEndpoint(d, n).in <=> ControlEp \in d.in
         /\ ControlEp \in ConfigureEndpoint(d, n).out <=> ControlEp \in d.out
         /\ ControlEp \in ConfigureEndpoint(d, n).stalled <=> ControlEp \in d.stalled
  <1>1. n \in Endpoints /\ ControlEp \notin Again(d, n)
    BY DEF Again, Endpoints, ControlEp, InEp, OutEp
  <1>2. d.setup \in BOOLEAN
    BY Zenon DEF Dev
  <1>3. (d.setup /\ ControlEp \notin Again(d, n)) = d.setup
    BY <1>1, <1>2, Zenon
  <1>4. ConfigureEndpoint(d, n).setup = d.setup
    BY <1>1, <1>3, ConfigureRegisters
  <1>5. /\ ControlEp \in ConfigureEndpoint(d, n).in <=> ControlEp \in d.in
        /\ ControlEp \in ConfigureEndpoint(d, n).out <=> ControlEp \in d.out
        /\ ControlEp \in ConfigureEndpoint(d, n).stalled <=> ControlEp \in d.stalled
    BY <1>1, ConfigureRegisters
  <1>6. ConfigureEndpoint(d, n).stalled \subseteq d.stalled
    BY <1>1, ConfigureRegisters
  <1>7. /\ ConfigureEndpoint(d, n) \in Dev /\ ConfigureEndpoint(d, n).uenum = n
        /\ SameInterrupts(d, ConfigureEndpoint(d, n)) /\ SameDevice(d, ConfigureEndpoint(d, n))
        /\ ConfigureEndpoint(d, n).alloc = d.alloc \cup {n}
    BY <1>1, ConfigureRegisters, Zenon
  <1> QED BY <1>4, <1>5, <1>6, <1>7, Zenon

(* For the control endpoint it starts all of them again. *)
LEMMA RestartChanges ==
  ASSUME NEW d \in Dev
  PROVE  /\ ConfigureEndpoint(d, ControlEp) \in Dev
         /\ ConfigureEndpoint(d, ControlEp).uenum = ControlEp
         /\ SameInterrupts(d, ConfigureEndpoint(d, ControlEp))
         /\ SameDevice(d, ConfigureEndpoint(d, ControlEp))
         /\ ConfigureEndpoint(d, ControlEp).alloc = d.alloc \cup {ControlEp}
         /\ ControlEp \in ConfigureEndpoint(d, ControlEp).in
         /\ ControlEp \notin ConfigureEndpoint(d, ControlEp).out
         /\ ControlEp \notin ConfigureEndpoint(d, ControlEp).stalled
         /\ ConfigureEndpoint(d, ControlEp).stalled \subseteq d.stalled
         /\ ~ConfigureEndpoint(d, ControlEp).setup
  <1>1. ControlEp \in Endpoints /\ ControlEp \in Again(d, ControlEp)
    BY DEF Again, Endpoints, ControlEp
  <1>2. ~ConfigureEndpoint(d, ControlEp).setup
    BY <1>1, ConfigureRegisters, Zenon
  <1>3. /\ ControlEp \in ConfigureEndpoint(d, ControlEp).in
        /\ ControlEp \notin ConfigureEndpoint(d, ControlEp).out
        /\ ControlEp \notin ConfigureEndpoint(d, ControlEp).stalled
        /\ ConfigureEndpoint(d, ControlEp).stalled \subseteq d.stalled
    BY <1>1, ConfigureRegisters
  <1>4. /\ ConfigureEndpoint(d, ControlEp) \in Dev
        /\ ConfigureEndpoint(d, ControlEp).uenum = ControlEp
        /\ SameInterrupts(d, ConfigureEndpoint(d, ControlEp))
        /\ SameDevice(d, ConfigureEndpoint(d, ControlEp))
        /\ ConfigureEndpoint(d, ControlEp).alloc = d.alloc \cup {ControlEp}
    BY <1>1, ConfigureRegisters, Zenon
  <1> QED BY <1>2, <1>3, <1>4, Zenon

-----------------------------------------------------------------------------
(* The main loop outside of requests.                                       *)

(* A step there changes no more than the selected endpoint and the banks of
   the endpoints of the joystick. *)
Outside ==
    /\ dev' \in Dev /\ SameInterrupts(dev, dev') /\ SameDevice(dev, dev')
    /\ dev'.setup = dev.setup /\ dev'.alloc = dev.alloc /\ dev'.stalled = dev.stalled
    /\ UNCHANGED <<request, prev, Length, handled, bus, count, trouble>>
    /\ pc \notin RequestPc /\ pc' \in Pc \ RequestPc
    /\ pc' \in HidPc => Endpoints \subseteq dev.alloc
    /\ ControlEp \in dev'.out => ControlEp \in dev.out
    /\ ~trouble => ControlEp \in dev'.in <=> ControlEp \in dev.in
    /\ ~trouble /\ pc' \in {"hidOut", "hidRead"} => dev'.uenum = OutEp
    /\ ~trouble /\ pc' \in {"hidIn", "hidSend"} => dev'.uenum = InEp

LEMMA OutsideKeeps ==
  ASSUME DriverInv, CleanInv, Outside PROVE DriverInv' /\ CleanInv'
  <1>1. pc \notin RequestPc /\ pc' \notin RequestPc
    BY Zenon DEF Outside
  <1>2. pc \notin {"status", "configState", "configEndpoints", "process", "standard", "feature",
                   "addressWait", "addressState", "writeStream", "writeStatus", "readStream",
                   "readStatus", "finish", "leave"}
        /\ pc' \notin {"status", "configState", "configEndpoints", "process", "standard", "feature",
                   "addressWait", "addressState", "writeStream", "writeStatus", "readStream",
                   "readStatus", "finish", "leave"}
    BY <1>1, Zenon DEF RequestPc
  <1>3. TypeOK'
    BY Zenon DEF DriverInv, TypeOK, Outside
  <1>4. RequestAt' /\ Selected' /\ Answered'
    BY <1>1, <1>2, Zenon DEF DriverInv, RequestAt, Selected, Answered, Outside
  <1>5. Allocated'
    BY <1>2, Zenon DEF DriverInv, Allocated, Configures, Outside, SameDevice
  <1>6. Registers' /\ HostInv'
    BY DEF DriverInv, Registers, HostInv, Outside, SameDevice, SameInterrupts
  <1>7. ASSUME ~trouble' PROVE Apart' /\ Serving' /\ Addressing' /\ Configuring' /\ Awake'
    <2>1. ~trouble /\ Apart /\ Serving /\ Addressing /\ Configuring /\ Awake
      BY <1>7, Zenon DEF CleanInv, Outside
    <2>2. InRequest' <=> InRequest
      BY <1>1, Zenon DEF InRequest, Outside
    <2>3. Apart' /\ Awake'
      BY <2>1, <2>2, Zenon DEF Apart, Awake, Outside, SameInterrupts, SameDevice
    <2>4. \A R : Awaits(R)' <=> Awaits(R)
      BY Zenon DEF Awaits, Outside
    <2>5. Addressing'
      BY <1>2, <2>1, <2>4, Zenon DEF Addressing, Outside, SameDevice
    <2>6. Configuring'
      BY <1>2, <2>1, <2>4, Zenon DEF Configuring, Outside, SameInterrupts, SameDevice
    <2>7. ~Begins' /\ ~EndsWithIn'
      BY <1>2, Zenon DEF Begins, EndsWithIn
    <2>8. Serving'
      BY <1>2, <2>1, <2>2, <2>7, Zenon DEF Serving, Outside, SameInterrupts
    <2> QED BY <2>3, <2>5, <2>6, <2>8, Zenon
  <1> QED BY <1>3, <1>4, <1>5, <1>6, <1>7, Zenon DEF DriverInv, CleanInv

(* Receive_Command, the control requests apart, and HID_Task *)
LEMMA HidKeeps ==
  ASSUME DriverInv, CleanInv,
         ReceiveCommand \/ HidTask \/ HidOut \/ HidRead \/ HidIn \/ HidSend
  PROVE  DriverInv' /\ CleanInv'
  <1>1. dev \in Dev /\ InEp \in Endpoints /\ OutEp \in Endpoints
        /\ ControlEp \notin {InEp, OutEp}
    BY DEF DriverInv, TypeOK, Endpoints, InEp, OutEp, ControlEp
  <1>2. UNCHANGED <<request, prev, Length, handled, bus, count, trouble>>
    BY Zenon DEF ReceiveCommand, HidTask, HidOut, HidRead, HidIn, HidSend, Plain, Step
  <1>3. /\ pc \in {"receive", "hid"} \cup HidPc /\ pc' \in {"hid", "task"} \cup HidPc
        /\ pc \notin RequestPc /\ pc' \in Pc \ RequestPc
    BY Zenon DEF ReceiveCommand, HidTask, HidOut, HidRead, HidIn, HidSend, Plain, Step,
           Pc, HidPc, RequestPc
  <1>4. pc' \in HidPc => Endpoints \subseteq dev.alloc
    <2>1. ASSUME pc' \in HidPc PROVE pc \in HidPc \/ (pc = "hid" /\ dev.state = "Configured")
      BY <2>1, Zenon DEF ReceiveCommand, HidTask, HidOut, HidRead, HidIn, HidSend, Plain, Step, HidPc
    <2>2. pc = "hid" => ~Configures
      BY Zenon DEF Configures
    <2> QED BY <2>1, <2>2, Zenon DEF DriverInv, Allocated
  <1>5. ~trouble /\ pc \in {"hidOut", "hidRead"} => dev.uenum = OutEp
    BY Zenon DEF CleanInv, Serving
  <1>6. ~trouble /\ pc \in {"hidIn", "hidSend"} => dev.uenum = InEp
    BY Zenon DEF CleanInv, Serving
  <1>7. CASE ReceiveCommand
    <2>1. dev' = dev /\ pc' = "hid"
      BY <1>7, Zenon DEF ReceiveCommand, Plain, Step
    <2> QED BY <1>1, <1>2, <1>3, <1>4, <2>1, OutsideKeeps, Zenon DEF Outside, SameInterrupts, SameDevice
  <1>8. CASE HidTask
    <2>1. (dev' = dev /\ pc' = "task") \/ (dev' = Select(dev, OutEp) /\ pc' = "hidOut")
      BY <1>8, Zenon DEF HidTask, Plain, Step
    <2>2. Outside
      BY <1>1, <1>2, <1>3, <1>4, <2>1, SelectChanges
         DEF Outside, SameInterrupts, SameDevice, SameBanks
    <2> QED BY <2>2, OutsideKeeps, Zenon
  <1>9. CASE HidOut
    <2>1. \/ dev' = dev /\ pc' = "hidRead" /\ pc = "hidOut"
          \/ dev' = Select(dev, InEp) /\ pc' = "hidIn"
      BY <1>9, Zenon DEF HidOut, Plain, Step
    <2>2. Outside
      BY <1>1, <1>2, <1>3, <1>4, <1>5, <2>1, SelectChanges
         DEF Outside, SameInterrupts, SameDevice, SameBanks
    <2> QED BY <2>2, OutsideKeeps, Zenon
  <1>10. CASE HidRead
    <2>1. dev' = Select(ClearOUT(dev), InEp) /\ pc' = "hidIn"
      BY <1>10, Zenon DEF HidRead, Plain, Step
    <2>2. Outside
      BY <1>1, <1>2, <1>3, <1>4, <2>1, SelectChanges, ClearOUTChanges
         DEF Outside, SameInterrupts, SameDevice, SameBanks
    <2> QED BY <2>2, OutsideKeeps, Zenon
  <1>11. CASE HidIn
    <2>1. dev' = dev /\ pc' \in {"hidSend", "task"} /\ pc = "hidIn"
      BY <1>11, Zenon DEF HidIn, Plain, Step
    <2>2. Outside
      BY <1>1, <1>2, <1>3, <1>4, <1>6, <2>1, Zenon DEF Outside, SameInterrupts, SameDevice
    <2> QED BY <2>2, OutsideKeeps, Zenon
  <1>12. CASE HidSend
    <2>1. dev' = ClearIN(dev) /\ pc' = "task" /\ pc = "hidSend"
      BY <1>12, Zenon DEF HidSend, Plain, Step
    <2>2. Outside
      BY <1>1, <1>2, <1>3, <1>4, <1>6, <2>1, ClearINChanges, Zenon DEF Outside
    <2> QED BY <2>2, OutsideKeeps, Zenon
  <1> QED BY <1>7, <1>8, <1>9, <1>10, <1>11, <1>12, Zenon

-----------------------------------------------------------------------------
(* The main loop in a request.                                              *)

(* A step there leaves the interrupts to the interrupt routine and the bus to
   the host; it never suspends nor detaches the device. *)
Inside ==
    /\ dev' \in Dev /\ SameInterrupts(dev, dev') /\ bus' \in Bus
    /\ bus'.vbus = bus.vbus /\ bus'.reset = bus.reset /\ bus'.suspended = bus.suspended
    /\ bus'.addr = bus.addr /\ bus'.config = bus.config /\ bus'.phase = bus.phase
    /\ bus'.header = bus.header
    /\ count' = count /\ trouble' = trouble
    /\ pc' \in Pc /\ request' \in AllRequests \cup {NoRequest} /\ prev' \in Endpoints
    /\ Length' \in 0 .. 2 /\ handled' \in Nat
    /\ InRequest
    /\ dev'.state = dev.state \/ dev'.state \notin {"Suspended", "Unattached"}
    /\ dev'.setup => dev.setup
    /\ ControlEp \in dev'.out => ControlEp \in dev.out

LEMMA InsideKeeps ==
  ASSUME DriverInv, CleanInv, Inside,
         RequestAt', Selected', Allocated', Answered',
         ~trouble => Serving' /\ Addressing' /\ Configuring'
  PROVE  DriverInv' /\ CleanInv'
  <1>1. TypeOK'
    BY Zenon DEF DriverInv, TypeOK, Inside
  <1>2. Registers'
    BY Zenon DEF DriverInv, Registers, Inside, SameInterrupts
  <1>3. HostInv'
    BY Zenon DEF DriverInv, HostInv, Inside, SameInterrupts
  <1>4. ASSUME ~trouble' PROVE Apart' /\ Awake'
    <2>1. ~trouble /\ Serving /\ Awake /\ InRequest
      BY <1>4, Zenon DEF CleanInv, Inside
    <2>2. bus.reset /\ bus.vbus /\ ~bus.suspended /\ "EORSTI" \notin dev.pending
      BY <2>1, Zenon DEF Serving, DriverInv, HostInv
    <2>3. dev.state # "Unattached" /\ ~dev.frozen
      BY <2>1, <2>2, Zenon DEF Awake
    <2> QED BY <2>2, <2>3, Zenon DEF Apart, Awake, Inside, SameInterrupts
  <1> QED BY <1>1, <1>2, <1>3, <1>4, Zenon DEF DriverInv, CleanInv, Inside

(* The bounds and the types that a step in a request starts from. *)
LEMMA InsideFacts ==
  ASSUME DriverInv, CleanInv
  PROVE  /\ dev \in Dev /\ bus \in Bus /\ pc \in Pc /\ request \in AllRequests \cup {NoRequest}
         /\ prev \in Endpoints /\ Length \in 0 .. 2 /\ handled \in Nat
         /\ ~trouble => Serving /\ Addressing /\ Configuring
         /\ ControlEp \in dev.alloc
         /\ SameInterrupts(dev, dev) /\ SameDevice(dev, dev) /\ SameBanks(dev, dev)
  BY Zenon DEF DriverInv, TypeOK, CleanInv, Allocated, SameInterrupts, SameDevice, SameBanks

(* The driver gives up what it has not served: no handler, or no SETUP. *)
LEMMA RefuseKeeps ==
  ASSUME DriverInv, CleanInv, pc = "standard", Plain("finish", dev),
         dev.setup => request \in ClassRequests \/ request \notin Supported
  PROVE  DriverInv' /\ CleanInv'
  <1>1. /\ pc' = "finish" /\ dev' = dev
        /\ UNCHANGED <<request, prev, Length, handled, bus, count, trouble>>
    BY Zenon DEF Plain, Step
  <1>2. Inside
    BY <1>1, InsideFacts, Zenon DEF Inside, InRequest, RequestPc, Pc
  <1>3. RequestAt' /\ Selected'
    BY <1>1, Zenon DEF DriverInv, RequestAt, Selected, RequestPc
  <1>4. Allocated' /\ Answered'
    BY <1>1, Zenon DEF DriverInv, Allocated, Answered, Configures, HidPc
  <1>5. ASSUME ~trouble PROVE Serving' /\ Addressing' /\ Configuring'
    <2>1. Serving /\ Addressing /\ Configuring
      BY <1>5, InsideFacts, Zenon
    <2>2. Serving'
      BY <1>1, <2>1, Zenon DEF Serving, InRequest, RequestPc, Begins, EndsWithIn
    <2>3. Addressing' /\ Configuring'
      BY <1>1, <2>1, Zenon DEF Addressing, Configuring, Awaits
    <2> QED BY <2>2, <2>3, Zenon
  <1> QED BY <1>2, <1>3, <1>4, <1>5, InsideKeeps, Zenon

(* USB_DeviceTask *)
LEMMA TaskKeeps ==
  ASSUME DriverInv, CleanInv, DeviceTask PROVE DriverInv' /\ CleanInv'
  <1>1. CASE Plain("receive", dev)
    <2>1. /\ pc = "task" /\ pc' = "receive" /\ dev' = dev
          /\ UNCHANGED <<request, prev, Length, handled, bus, count, trouble>>
      BY <1>1, Zenon DEF DeviceTask, Plain, Step
    <2>2. Outside
      BY <2>1, InsideFacts, Zenon DEF Outside, Pc, HidPc, RequestPc
    <2> QED BY <2>2, OutsideKeeps, Zenon
  <1>2. CASE /\ dev.setup /\ prev' = dev.uenum /\ Step("process", Select(dev, ControlEp))
             /\ UNCHANGED <<request, Length, handled>>
    <2>1. /\ pc = "task" /\ pc' = "process" /\ dev' = Select(dev, ControlEp)
          /\ UNCHANGED <<request, Length, handled, bus, count, trouble>>
      BY <1>2, Zenon DEF DeviceTask, Step
    <2>2. /\ dev' \in Dev /\ dev'.uenum = ControlEp /\ SameInterrupts(dev, dev')
          /\ SameDevice(dev, dev') /\ SameBanks(dev, dev')
      BY <2>1, InsideFacts, SelectChanges, Zenon DEF Endpoints
    <2>3. dev.uenum \in Endpoints
      BY InsideFacts, Zenon DEF Dev
    <2>4. Inside
      BY <1>2, <2>1, <2>2, <2>3, InsideFacts, Zenon
         DEF Inside, InRequest, RequestPc, Pc, SameDevice, SameBanks
    <2>5. RequestAt' /\ Selected'
      BY <2>1, <2>2, Zenon DEF DriverInv, RequestAt, Selected, RequestPc, SameBanks
    <2>6. Allocated' /\ Answered'
      BY <2>1, <2>2, Zenon DEF DriverInv, Allocated, Answered, Configures, HidPc, SameDevice, SameBanks
    <2>7. ASSUME ~trouble PROVE Serving' /\ Addressing' /\ Configuring'
      <3>1. Serving /\ Addressing /\ Configuring
        BY <2>7, InsideFacts, Zenon
      <3>2. Serving'
        BY <1>2, <2>1, <2>2, <3>1, Zenon
           DEF Serving, InRequest, RequestPc, Begins, EndsWithIn, SameInterrupts, SameBanks
      <3>3. Addressing' /\ Configuring'
        BY <2>1, <2>2, <3>1, Zenon
           DEF Addressing, Configuring, Awaits, SameInterrupts, SameDevice, SameBanks
      <3> QED BY <3>2, <3>3, Zenon
    <2> QED BY <2>4, <2>5, <2>6, <2>7, InsideKeeps, Zenon
  <1> QED BY <1>1, <1>2, Zenon DEF DeviceTask

(* The header is read, and the requests of the class are served. *)
LEMMA ProcessKeeps ==
  ASSUME DriverInv, CleanInv, Process PROVE DriverInv' /\ CleanInv'
  <1>1. PICK r \in AllRequests : ClassRequest(r) /\ (dev.setup => r = bus.header)
    <2>1. dev.setup => bus.header \in AllRequests
      BY Zenon DEF DriverInv, RequestAt
    <2> QED BY <2>1, Zenon DEF Process
  <1>2. /\ pc = "process" /\ request' = r /\ UNCHANGED <<prev, count, trouble>>
        /\ bus' = [bus EXCEPT !.unread = FALSE]
    BY <1>1, Zenon DEF Process, ClassRequest
  <1>3. dev.uenum = ControlEp
    BY <1>2, Zenon DEF DriverInv, Selected, RequestPc
  <1>4. /\ bus' \in Bus /\ bus'.vbus = bus.vbus /\ bus'.reset = bus.reset
        /\ bus'.suspended = bus.suspended /\ bus'.addr = bus.addr /\ bus'.config = bus.config
        /\ bus'.phase = bus.phase /\ bus'.header = bus.header
    BY <1>2, InsideFacts, Zenon DEF Bus
  <1>5. CASE r \in ClassRequests
    <2>1. /\ handled' = 1 /\ Length' = 1 /\ dev' = ClearSETUP(dev)
          /\ pc' = IF r = GetReport THEN "writeStream" ELSE "readStream"
      BY <1>1, <1>5, Headers, Zenon DEF ClassRequest, ClassRequests
    <2>2. /\ dev' \in Dev /\ dev'.uenum = ControlEp /\ SameInterrupts(dev, dev')
          /\ SameDevice(dev, dev') /\ dev'.in = dev.in /\ dev'.out = dev.out
          /\ dev'.alloc = dev.alloc /\ dev'.stalled = dev.stalled /\ ~dev'.setup
      BY <1>3, <2>1, InsideFacts, ClearSETUPChanges, Zenon
    <2>3. Inside
      BY <1>2, <1>4, <2>1, <2>2, InsideFacts
         DEF Inside, InRequest, RequestPc, Pc, SameDevice
    <2>4. RequestAt' /\ Selected'
      BY <1>2, <1>5, <2>1, <2>2 DEF DriverInv, RequestAt, Selected, RequestPc, ClassRequests
    <2>5. Allocated' /\ Answered'
      BY <1>2, <2>1, <2>2, Zenon DEF DriverInv, Allocated, Answered, Configures, HidPc, SameDevice
    <2>6. ASSUME ~trouble PROVE Serving' /\ Addressing' /\ Configuring'
      <3>1. Serving /\ Addressing /\ Configuring
        BY <2>6, InsideFacts, Zenon
      <3>2. dev.setup /\ r = bus.header /\ ControlEp \notin dev.out
        BY <1>1, <1>2, <3>1, Zenon DEF Serving, DriverInv, Registers
      <3>3. bus.header \notin Configurations \cup {SetAddress1}
        BY <1>5, <3>2, Headers, Zenon DEF ClassRequests, Configurations
      <3>4. SetReport \in AllRequests /\ ~DeviceToHost(SetReport)
        BY Headers, Zenon DEF DeviceToHost, AllRequests
      <3>5. FirstPhase(SetReport) = "dataOut"
        BY <3>4, Zenon DEF FirstPhase
      <3>6. Serving'
        BY <1>2, <1>4, <1>5, <2>1, <2>2, <3>1, <3>2, <3>5, Zenon
           DEF Serving, InRequest, RequestPc, Begins, EndsWithIn, SameInterrupts, ClassRequests
      <3>7. ~Awaits({SetAddress1})' /\ ~Awaits(Configurations)' /\ ~Awaits(Configurations)
        BY <1>4, <3>2, <3>3, Zenon DEF Awaits
      <3>8. Addressing' /\ Configuring'
        BY <1>2, <1>4, <2>1, <2>2, <3>1, <3>7, Zenon
           DEF Addressing, Configuring, SameInterrupts, SameDevice
      <3> QED BY <3>6, <3>8, Zenon
    <2> QED BY <2>3, <2>4, <2>5, <2>6, InsideKeeps, Zenon
  <1>6. CASE r \notin ClassRequests
    <2>1. handled' = 0 /\ Length' = 0 /\ dev' = dev /\ pc' = "standard"
      BY <1>1, <1>6, Zenon DEF ClassRequest, ClassRequests
    <2>2. Inside
      BY <1>2, <1>4, <2>1, InsideFacts DEF Inside, InRequest, RequestPc, Pc
    <2>3. RequestAt' /\ Selected'
      BY <1>2, <1>4, <2>1 DEF DriverInv, RequestAt, Selected, RequestPc
    <2>4. Allocated' /\ Answered'
      BY <1>2, <1>6, <2>1, Zenon DEF DriverInv, Allocated, Answered, Configures, HidPc
    <2>5. ASSUME ~trouble PROVE Serving' /\ Addressing' /\ Configuring'
      <3>1. Serving /\ Addressing /\ Configuring
        BY <2>5, InsideFacts, Zenon
      <3>2. dev.setup /\ r = bus.header
        BY <1>1, <1>2, <3>1, Zenon DEF Serving
      <3>3. Serving'
        BY <1>2, <1>4, <1>6, <2>1, <3>1, <3>2, Zenon
           DEF Serving, InRequest, RequestPc, Begins, EndsWithIn
      <3>4. ~Awaits({SetAddress1})' /\ ~Awaits(Configurations)' /\ ~Awaits(Configurations)
        BY <2>1, <3>2, Zenon DEF Awaits
      <3>5. Addressing' /\ Configuring'
        BY <1>2, <1>4, <2>1, <3>1, <3>4, Zenon DEF Addressing, Configuring
      <3> QED BY <3>3, <3>5, Zenon
    <2> QED BY <2>2, <2>3, <2>4, <2>5, InsideKeeps, Zenon
  <1> QED BY <1>5, <1>6, Zenon

(* A standard request is served up to its status stage. *)
Served ==
    /\ pc = "standard" /\ dev.setup /\ request \in Supported \ {GetReport, SetReport, GetDescriptor}
    /\ pc' = "status" /\ handled' = handled + 1 /\ Length' = 0
    /\ UNCHANGED <<request, prev, bus, count, trouble>>
    /\ dev' \in Dev /\ SameInterrupts(dev, dev')
    /\ dev'.uenum = dev.uenum /\ ~dev'.setup /\ dev'.out = dev.out
    /\ dev'.alloc = dev.alloc /\ dev'.stalled = dev.stalled
    /\ dev'.state = dev.state /\ dev'.adden = dev.adden
    /\ ~DeviceToHost(request) => dev'.in = dev.in
    /\ dev'.addr = IF request = SetAddress1 THEN 1 ELSE dev.addr
    /\ dev'.config = IF request \in Configurations THEN request.wValue ELSE dev.config

LEMMA ServedKeeps ==
  ASSUME DriverInv, CleanInv, Served PROVE DriverInv' /\ CleanInv'
  <1>1. request \in AllRequests /\ request \notin ClassRequests
    BY Zenon DEF Served, Supported, ClassRequests
  <1>2. dev.uenum = ControlEp /\ handled = 0
    BY <1>1, Zenon DEF Served, DriverInv, Selected, RequestAt, RequestPc
  <1>3. Inside
    BY <1>2, InsideFacts DEF Served, Inside, InRequest, RequestPc, Pc
  <1>4. RequestAt' /\ Selected'
    BY <1>1, <1>2 DEF Served, DriverInv, RequestAt, Selected, RequestPc, ClassRequests
  <1>5. Allocated' /\ Answered'
    BY <1>2, Zenon DEF Served, DriverInv, Allocated, Answered, Configures, HidPc
  <1>6. ASSUME ~trouble PROVE Serving' /\ Addressing' /\ Configuring'
    <2>1. Serving /\ Addressing /\ Configuring
      BY <1>6, InsideFacts, Zenon
    <2>2. /\ bus.reset /\ ~bus.suspended /\ "EORSTI" \notin dev.pending
          /\ request = bus.header /\ bus.phase = FirstPhase(request)
          /\ ControlEp \in dev.in \ dev.stalled
      BY <1>1, <2>1, Zenon DEF Served, Serving, Begins, InRequest, RequestPc
    <2>3. ~DeviceToHost(request) => bus.phase = "statusIn"
      BY <2>2, <1>1, Zenon DEF FirstPhase, ClassRequests
    <2>4. Serving'
      BY <2>1, <2>2, <2>3, Zenon
         DEF Served, Serving, InRequest, RequestPc, Begins, EndsWithIn, SameInterrupts
    <2>5. SetAddress1 \notin Configurations
      BY Headers DEF Configurations
    <2>6. \A r \in Configurations \cup {SetAddress1} : r \in AllRequests /\ ~DeviceToHost(r)
      BY Headers, Zenon DEF Configurations, AllRequests, DeviceToHost
    <2>7. ~Awaits(Configurations)
      BY Zenon DEF Served, Awaits
    <2>8. dev.config = bus.config
      BY <2>1, <2>2, <2>7, Zenon DEF Configuring
    <2>9. request = SetAddress1 => bus.addr = 0 /\ bus.config = 0 /\ dev.config = 0
      <3>1. ASSUME request = SetAddress1 PROVE bus.phase # "none"
        BY <2>3, <2>6, <3>1, Zenon
      <3> QED BY <2>2, <2>8, <3>1, Zenon DEF DriverInv, HostInv
    <2>10. Awaits(Configurations)' <=> request \in Configurations
      BY <2>2, <2>3, <2>6, Zenon DEF Served, Awaits
    <2>11. Awaits({SetAddress1})' <=> request = SetAddress1
      BY <2>2, <2>3, <2>6, Zenon DEF Served, Awaits
    <2>12. Addressing'
      BY <2>1, <2>2, <2>5, <2>9, <2>11, Zenon DEF Served, Addressing
    <2>13. Configuring'
      BY <2>1, <2>2, <2>8, <2>10, Zenon DEF Served, Configuring, SameInterrupts
    <2> QED BY <2>4, <2>12, <2>13, Zenon
  <1> QED BY <1>3, <1>4, <1>5, <1>6, InsideKeeps, Zenon

(* A field of the device is assigned. *)
LEMMA AssignmentChanges ==
  ASSUME NEW d \in Dev, NEW v \in 0 .. 1, NEW b \in BOOLEAN
  PROVE  /\ [d EXCEPT !.addr = v] \in Dev /\ [d EXCEPT !.config = v] \in Dev
         /\ [d EXCEPT !.remote = b] \in Dev
         /\ LET e == [d EXCEPT !.addr = v]
            IN  /\ SameInterrupts(d, e) /\ SameBanks(d, e) /\ e.uenum = d.uenum /\ e.addr = v
                /\ e.state = d.state /\ e.config = d.config /\ e.adden = d.adden
         /\ LET e == [d EXCEPT !.config = v]
            IN  /\ SameInterrupts(d, e) /\ SameBanks(d, e) /\ e.uenum = d.uenum /\ e.config = v
                /\ e.state = d.state /\ e.addr = d.addr /\ e.adden = d.adden
         /\ LET e == [d EXCEPT !.remote = b]
            IN  SameInterrupts(d, e) /\ SameBanks(d, e) /\ e.uenum = d.uenum /\ SameDevice(d, e)
  <1>1. [d EXCEPT !.addr = v] \in Dev /\ [d EXCEPT !.config = v] \in Dev
    BY Zenon DEF Dev
  <1>2. [d EXCEPT !.remote = b] \in Dev
    BY Zenon DEF Dev
  <1>3. LET e == [d EXCEPT !.addr = v]
        IN  /\ SameInterrupts(d, e) /\ SameBanks(d, e) /\ e.uenum = d.uenum /\ e.addr = v
            /\ e.state = d.state /\ e.config = d.config /\ e.adden = d.adden
    BY Zenon DEF Dev, SameInterrupts, SameBanks
  <1>4. LET e == [d EXCEPT !.config = v]
        IN  /\ SameInterrupts(d, e) /\ SameBanks(d, e) /\ e.uenum = d.uenum /\ e.config = v
            /\ e.state = d.state /\ e.addr = d.addr /\ e.adden = d.adden
    BY Zenon DEF Dev, SameInterrupts, SameBanks
  <1>5. LET e == [d EXCEPT !.remote = b]
        IN  SameInterrupts(d, e) /\ SameBanks(d, e) /\ e.uenum = d.uenum /\ SameDevice(d, e)
    BY Zenon DEF Dev, SameInterrupts, SameBanks, SameDevice
  <1> QED BY <1>1, <1>2, <1>3, <1>4, <1>5, Zenon

(* The handlers that go on to a status stage. *)
LEMMA HandlersServe ==
  ASSUME DriverInv, CleanInv, pc = "standard", dev.setup, request \in AllRequests,
         \/ SetAddress
         \/ SetConfiguration /\ request.wValue <= 1
         \/ GetByte
         \/ ClearSetFeature /\ request \in {SetWakeup, ClearWakeup}
  PROVE  Served
  <1>1. dev \in Dev /\ dev.uenum = ControlEp
    BY InsideFacts, Zenon DEF DriverInv, Selected, RequestPc
  <1>2. CASE SetAddress
    <2>1. request = SetAddress1
      BY <1>2, Headers DEF SetAddress, AllRequests
    <2> DEFINE e == [dev EXCEPT !.addr = request.wValue]
    <2>2. /\ dev' = ClearSETUP(e) /\ pc' = "status" /\ handled' = handled + 1 /\ Length' = 0
          /\ UNCHANGED <<request, prev, bus, count, trouble>>
      BY <1>2, Zenon DEF SetAddress, Handle, Step
    <2>3. /\ e \in Dev /\ SameInterrupts(dev, e) /\ SameBanks(dev, e) /\ e.uenum = dev.uenum
          /\ e.addr = 1 /\ e.state = dev.state /\ e.config = dev.config /\ e.adden = dev.adden
      <3>1. request.wValue = 1 /\ request.wValue \in 0 .. 1
        BY <2>1, Values
      <3> QED BY <1>1, <3>1, AssignmentChanges, Zenon
    <2> HIDE DEF e
    <2>4. ~DeviceToHost(request) /\ request \in Supported \ {GetReport, SetReport, GetDescriptor}
      BY <2>1, Headers DEF DeviceToHost, Supported, AllRequests
    <2>5. request \notin Configurations
      BY <2>1, Headers DEF Configurations
    <2> QED BY <1>1, <2>1, <2>2, <2>3, <2>4, <2>5, ClearSETUPChanges, Zenon
            DEF Served, SameInterrupts, SameDevice, SameBanks
  <1>3. CASE SetConfiguration /\ request.wValue <= 1
    <2>1. request \in Configurations /\ request.wValue \in 0 .. 1
      BY <1>3, Headers, Values DEF SetConfiguration, AllRequests, Configurations
    <2> DEFINE e == [dev EXCEPT !.config = request.wValue]
    <2>2. /\ dev' = ClearSETUP(e) /\ pc' = "status" /\ handled' = handled + 1 /\ Length' = 0
          /\ UNCHANGED <<request, prev, bus, count, trouble>>
      BY <1>3, <2>1 DEF SetConfiguration, Handle, Step
    <2>3. /\ e \in Dev /\ SameInterrupts(dev, e) /\ SameBanks(dev, e) /\ e.uenum = dev.uenum
          /\ e.config = request.wValue /\ e.state = dev.state /\ e.addr = dev.addr
          /\ e.adden = dev.adden
      BY <1>1, <2>1, AssignmentChanges, Zenon
    <2> HIDE DEF e
    <2>4. ~DeviceToHost(request) /\ request \in Supported \ {GetReport, SetReport, GetDescriptor}
      BY <2>1, Headers, Values DEF DeviceToHost, Supported, AllRequests, Configurations
    <2>5. request # SetAddress1
      BY <2>1, Headers DEF Configurations
    <2> QED BY <1>1, <2>1, <2>2, <2>3, <2>4, <2>5, ClearSETUPChanges, Zenon
            DEF Served, SameInterrupts, SameDevice, SameBanks
  <1>4. CASE GetByte
    <2>1. request \in {GetConfiguration, GetStatus, GetEndpointStatus}
      BY <1>4, Headers DEF GetByte, AllRequests
    <2>2. /\ dev' = ClearIN(ClearSETUP(dev)) /\ pc' = "status" /\ handled' = handled + 1
          /\ Length' = 0 /\ UNCHANGED <<request, prev, bus, count, trouble>>
      BY <1>4, Zenon DEF GetByte, Handle, Step
    <2>3. DeviceToHost(request) /\ request \in Supported \ {GetReport, SetReport, GetDescriptor}
      BY <2>1, Headers DEF DeviceToHost, Supported, AllRequests
    <2>4. request \notin Configurations \cup {SetAddress1}
      BY <2>1, Headers, Zenon DEF Configurations
    <2> DEFINE e == ClearSETUP(dev)
    <2>5. /\ e \in Dev /\ e.uenum = dev.uenum /\ SameInterrupts(dev, e) /\ SameDevice(dev, e)
          /\ e.out = dev.out /\ e.alloc = dev.alloc /\ e.stalled = dev.stalled /\ ~e.setup
      BY <1>1, ClearSETUPChanges, Zenon
    <2> HIDE DEF e
    <2>6. /\ dev' \in Dev /\ dev'.uenum = dev.uenum /\ SameInterrupts(e, dev')
          /\ SameDevice(e, dev') /\ dev'.out = dev.out /\ dev'.alloc = dev.alloc
          /\ dev'.stalled = dev.stalled /\ ~dev'.setup
      BY <2>2, <2>5, ClearINChanges, Zenon DEF e
    <2> QED BY <2>2, <2>3, <2>4, <2>5, <2>6, Zenon DEF Served, SameInterrupts, SameDevice
  <1>5. CASE ClearSetFeature /\ request \in {SetWakeup, ClearWakeup}
    <2>1. /\ request \in {SetWakeup, ClearWakeup} /\ request.wValue = 1
          /\ request.bmRequestType = "out.standard.device"
      BY <1>5, Headers, Values, Zenon
    <2> DEFINE e == [dev EXCEPT !.remote = (request.bRequest = 3)]
    <2>2. /\ dev' = ClearSETUP(e) /\ pc' = "status" /\ handled' = handled + 1 /\ Length' = 0
          /\ UNCHANGED <<request, prev, bus, count, trouble>>
      BY <1>5, <2>1, Zenon DEF ClearSetFeature, Handle, Step
    <2>3. /\ e \in Dev /\ SameInterrupts(dev, e) /\ SameBanks(dev, e) /\ e.uenum = dev.uenum
          /\ SameDevice(dev, e)
      <3>1. (request.bRequest = 3) \in BOOLEAN /\ 0 \in 0 .. 1
        OBVIOUS
      <3> QED BY <1>1, <3>1, AssignmentChanges, Zenon
    <2> HIDE DEF e
    <2>4. ~DeviceToHost(request) /\ request \in Supported \ {GetReport, SetReport, GetDescriptor}
      <3>1. request # SetTestMode
        BY <2>1, Values
      <3>2. request.bRequest \in {1, 3}
        BY <2>1, Headers, Zenon
      <3>3. request \notin {SetConfiguration2, GetNoDescriptor, SetIdle, GetDescriptor, SetReport}
        BY <3>2, Headers
      <3>4. request # GetReport /\ ~DeviceToHost(request)
        BY <2>1, Headers, Zenon DEF DeviceToHost
      <3> QED BY <2>1, <3>1, <3>3, <3>4, Zenon DEF Supported, AllRequests
    <2>5. request \notin Configurations \cup {SetAddress1}
      BY <2>1, Headers DEF Configurations
    <2> QED BY <1>1, <2>2, <2>3, <2>4, <2>5, ClearSETUPChanges, Zenon
            DEF Served, SameInterrupts, SameDevice, SameBanks
  <1> QED BY <1>2, <1>3, <1>4, <1>5, Zenon

(* A descriptor is sent. *)
LEMMA DescriptorKeeps ==
  ASSUME DriverInv, CleanInv, pc = "standard", dev.setup, request = GetDescriptor,
         GetDescriptorBytes
  PROVE  DriverInv' /\ CleanInv'
  <1>1. /\ pc' = "writeStream" /\ dev' = ClearSETUP(dev) /\ Length' = 2
        /\ handled' = handled + 1 /\ UNCHANGED <<request, prev, bus, count, trouble>>
    BY Values DEF GetDescriptorBytes, Handle, Step
  <1>2. /\ request \in AllRequests /\ DeviceToHost(request)
        /\ request \notin ClassRequests \cup Configurations \cup {SetAddress1}
    BY Headers, Zenon DEF AllRequests, DeviceToHost, ClassRequests, Configurations
  <1>3. dev.uenum = ControlEp /\ handled = 0
    BY <1>2, Zenon DEF DriverInv, Selected, RequestAt, RequestPc
  <1>4. /\ dev' \in Dev /\ dev'.uenum = ControlEp /\ SameInterrupts(dev, dev')
        /\ SameDevice(dev, dev') /\ dev'.in = dev.in /\ dev'.out = dev.out
        /\ dev'.alloc = dev.alloc /\ dev'.stalled = dev.stalled /\ ~dev'.setup
    BY <1>1, <1>3, InsideFacts, ClearSETUPChanges, Zenon
  <1>5. Inside
    BY <1>1, <1>4, InsideFacts DEF Inside, InRequest, RequestPc, Pc, SameDevice
  <1>6. RequestAt' /\ Selected'
    BY <1>1, <1>2, <1>3, <1>4 DEF DriverInv, RequestAt, Selected, RequestPc
  <1>7. Allocated' /\ Answered'
    BY <1>1, <1>4, Zenon DEF DriverInv, Allocated, Answered, Configures, HidPc, SameDevice
  <1>8. ASSUME ~trouble PROVE Serving' /\ Addressing' /\ Configuring'
    <2>1. Serving /\ Addressing /\ Configuring
      BY <1>8, InsideFacts, Zenon
    <2>2. /\ bus.reset /\ ~bus.suspended /\ "EORSTI" \notin dev.pending /\ request = bus.header
      BY <1>2, <2>1, Zenon DEF Serving, Begins, InRequest, RequestPc
    <2>3. Serving'
      BY <1>1, <1>4, <2>1, <2>2, Zenon
         DEF Serving, InRequest, RequestPc, Begins, EndsWithIn, SameInterrupts
    <2>4. ~Awaits({SetAddress1})' /\ ~Awaits(Configurations)' /\ ~Awaits(Configurations)
      BY <1>1, <1>2, <2>2, Zenon DEF Awaits
    <2>5. Addressing' /\ Configuring'
      BY <1>1, <1>4, <2>1, <2>4, Zenon DEF Addressing, Configuring, SameInterrupts, SameDevice
    <2> QED BY <2>3, <2>5, Zenon
  <1> QED BY <1>5, <1>6, <1>7, <1>8, InsideKeeps, Zenon

(* An endpoint is selected, to be halted or released. *)
LEMMA SelectionKeeps ==
  ASSUME DriverInv, CleanInv, pc = "standard", dev.setup, request \in {SetHalt, ClearHalt},
         ClearSetFeature
  PROVE  DriverInv' /\ CleanInv'
  <1>1. request.bmRequestType = "out.standard.endpoint" /\ request.wValue = InEp
    BY Headers, Values, Zenon
  <1>2. /\ pc' = "feature" /\ dev' = Select(dev, InEp) /\ Length' = 0
        /\ handled' = handled + 1 /\ UNCHANGED <<request, prev, bus, count, trouble>>
    BY <1>1, Zenon DEF ClearSetFeature, Handle, Step
  <1>3. request \in AllRequests /\ request \notin ClassRequests
    BY Headers, Zenon DEF AllRequests, ClassRequests
  <1>4. handled = 0
    BY <1>3, Zenon DEF DriverInv, RequestAt
  <1>5. /\ dev' \in Dev /\ dev'.uenum = InEp /\ SameInterrupts(dev, dev')
        /\ SameDevice(dev, dev') /\ SameBanks(dev, dev')
    BY <1>2, InsideFacts, SelectChanges, Zenon DEF Endpoints
  <1>6. Inside
    BY <1>2, <1>5, InsideFacts DEF Inside, InRequest, RequestPc, Pc, SameDevice, SameBanks
  <1>7. RequestAt' /\ Selected'
    BY <1>2, <1>3, <1>4, <1>5 DEF DriverInv, RequestAt, Selected, RequestPc, SameBanks
  <1>8. Allocated' /\ Answered'
    BY <1>2, <1>5, Zenon DEF DriverInv, Allocated, Answered, Configures, HidPc, SameDevice, SameBanks
  <1>9. ASSUME ~trouble PROVE Serving' /\ Addressing' /\ Configuring'
    <2>1. Serving /\ Addressing /\ Configuring
      BY <1>9, InsideFacts, Zenon
    <2>2. Serving'
      BY <1>2, <1>3, <1>5, <2>1, Zenon
         DEF Serving, InRequest, RequestPc, Begins, EndsWithIn, SameInterrupts, SameBanks
    <2>3. Addressing' /\ Configuring'
      BY <1>2, <1>5, <2>1, Zenon
         DEF Addressing, Configuring, Awaits, SameInterrupts, SameDevice, SameBanks
    <2> QED BY <2>2, <2>3, Zenon
  <1> QED BY <1>6, <1>7, <1>8, <1>9, InsideKeeps, Zenon

(* USB_Device_ProcessControlRequest, the standard requests *)
LEMMA StandardKeeps ==
  ASSUME DriverInv, CleanInv, Standard PROVE DriverInv' /\ CleanInv'
  <1>1. pc = "standard" /\ dev.uenum = ControlEp /\ request \in AllRequests
    BY Zenon DEF Standard, DriverInv, Selected, RequestAt, RequestPc
  <1>2. CASE ~IsSETUPReceived /\ Plain("finish", dev)
    BY <1>1, <1>2, RefuseKeeps, Zenon DEF IsSETUPReceived
  <1>3. ASSUME IsSETUPReceived PROVE dev.setup
    BY <1>3, Zenon DEF IsSETUPReceived
  <1>4. CASE IsSETUPReceived /\ (SetAddress \/ GetByte)
    BY <1>1, <1>3, <1>4, HandlersServe, ServedKeeps, Zenon
  <1>5. CASE IsSETUPReceived /\ SetConfiguration
    <2>1. CASE request.wValue <= 1
      BY <1>1, <1>3, <1>5, <2>1, HandlersServe, ServedKeeps, Zenon
    <2>2. CASE ~(request.wValue <= 1)
      <3>1. request = SetConfiguration2
        BY <1>1, <1>5, <2>2, Headers, Values DEF SetConfiguration, AllRequests
      <3>2. Plain("finish", dev) /\ request \notin Supported
        BY <1>5, <3>1, Values DEF SetConfiguration, Supported
      <3> QED BY <1>1, <3>2, RefuseKeeps, Zenon
    <2> QED BY <2>1, <2>2, Zenon
  <1>6. CASE IsSETUPReceived /\ GetDescriptorBytes
    <2>1. request \in {GetDescriptor, GetNoDescriptor}
      BY <1>1, <1>6, Headers DEF GetDescriptorBytes, AllRequests
    <2>2. CASE request = GetDescriptor
      BY <1>1, <1>3, <1>6, <2>2, DescriptorKeeps, Zenon
    <2>3. CASE request = GetNoDescriptor
      <3>1. Plain("finish", dev) /\ request \notin Supported
        BY <1>6, <2>3, Values, Zenon DEF GetDescriptorBytes, Supported
      <3> QED BY <1>1, <3>1, RefuseKeeps, Zenon
    <2> QED BY <2>1, <2>2, <2>3, Zenon
  <1>7. CASE IsSETUPReceived /\ ClearSetFeature
    <2>1. CASE request.bmRequestType = "out.standard.device"
      <3>1. request \in {SetWakeup, ClearWakeup, SetTestMode}
        BY <1>1, <1>7, <2>1, Headers DEF ClearSetFeature, AllRequests
      <3>2. CASE request = SetTestMode
        <4>1. request.wValue # 1
          BY <3>2, Values
        <4>2. Plain("finish", dev) /\ request \notin Supported
          BY <1>7, <2>1, <3>2, <4>1, Zenon DEF ClearSetFeature, Supported
        <4> QED BY <1>1, <4>2, RefuseKeeps, Zenon
      <3> QED BY <1>1, <1>3, <1>7, <3>1, <3>2, HandlersServe, ServedKeeps, Zenon
    <2>2. CASE request.bmRequestType = "out.standard.endpoint"
      <3>1. request \in {SetHalt, ClearHalt}
        BY <1>1, <2>2, Headers, Zenon DEF AllRequests
      <3> QED BY <1>1, <1>3, <1>7, <3>1, SelectionKeeps, Zenon
    <2> QED BY <1>7, <2>1, <2>2, Zenon DEF ClearSetFeature
  <1>8. CASE IsSETUPReceived /\ NoHandler /\ Plain("finish", dev)
    <2>1. request \in {GetReport, SetReport, SetIdle}
      BY <1>1, <1>8, Headers DEF NoHandler, AllRequests
    <2>2. request \in ClassRequests \/ request \notin Supported
      BY <2>1, Zenon DEF ClassRequests, Supported
    <2> QED BY <1>1, <1>8, <2>2, RefuseKeeps, Zenon
  <1> QED BY <1>2, <1>4, <1>5, <1>6, <1>7, <1>8, Zenon DEF Standard

(* The endpoint is halted or released: the control endpoint is left alone. *)
LEMMA FeatureChanges ==
  ASSUME DriverInv, CleanInv, Feature
  PROVE  /\ pc' = "status" /\ UNCHANGED <<request, prev, Length, handled, bus, count, trouble>>
         /\ dev' \in Dev /\ dev'.uenum = ControlEp /\ ~dev'.setup
         /\ SameInterrupts(dev, dev') /\ SameDevice(dev, dev')
         /\ dev'.alloc = dev.alloc /\ dev'.stalled \subseteq dev.alloc
         /\ ControlEp \in dev'.out => ControlEp \in dev.out
         /\ dev.uenum = InEp => /\ ControlEp \in dev'.in <=> ControlEp \in dev.in
                                /\ ControlEp \in dev'.stalled <=> ControlEp \in dev.stalled
  <1> DEFINE released == [dev EXCEPT !.stalled = dev.stalled \ {dev.uenum},
                                     !.in = dev.in \cup ({request.wValue} \cap {InEp}),
                                     !.out = dev.out \ {request.wValue}]
             d == IF dev.uenum \notin dev.alloc THEN dev
                  ELSE IF request.bRequest = 3 THEN Stall(dev) ELSE released
  <1>1. /\ pc' = "status" /\ UNCHANGED <<request, prev, Length, handled, bus, count, trouble>>
        /\ dev' = ClearSETUP(Select(d, ControlEp))
    BY Zenon DEF Feature, Plain, Step
  <1>2. dev \in Dev /\ dev.stalled \subseteq dev.alloc /\ ControlEp \in Endpoints /\ ControlEp # InEp
    BY InsideFacts DEF DriverInv, Allocated, Endpoints, ControlEp, InEp
  <1>3. /\ released \in Dev /\ SameInterrupts(dev, released) /\ SameDevice(dev, released)
        /\ released.alloc = dev.alloc /\ released.stalled = dev.stalled \ {dev.uenum}
        /\ released.in = dev.in \cup ({request.wValue} \cap {InEp})
        /\ released.out = dev.out \ {request.wValue}
    BY <1>2, Zenon DEF Dev, SameInterrupts, SameDevice
  <1> HIDE DEF released
  <1>4. /\ d \in Dev /\ SameInterrupts(dev, d) /\ SameDevice(dev, d)
        /\ d.alloc = dev.alloc /\ d.stalled \subseteq dev.alloc /\ d.out \subseteq dev.out
        /\ ControlEp \in d.in <=> ControlEp \in dev.in
        /\ dev.uenum # ControlEp => ControlEp \in d.stalled <=> ControlEp \in dev.stalled
    <2>1. CASE dev.uenum \notin dev.alloc
      BY <1>2, <2>1, InsideFacts, Zenon
    <2>2. CASE dev.uenum \in dev.alloc /\ request.bRequest = 3
      BY <1>2, <2>2, StallChanges, Zenon
    <2>3. CASE dev.uenum \in dev.alloc /\ request.bRequest # 3
      BY <1>2, <1>3, <2>3, Zenon
    <2> QED BY <2>1, <2>2, <2>3, Zenon
  <1> HIDE DEF d
  <1> DEFINE e == Select(d, ControlEp)
  <1>5. /\ e \in Dev /\ e.uenum = ControlEp /\ SameInterrupts(d, e) /\ SameDevice(d, e)
        /\ SameBanks(d, e)
    BY <1>2, <1>4, SelectChanges, Zenon
  <1> HIDE DEF e
  <1>6. /\ dev' \in Dev /\ dev'.uenum = ControlEp /\ ~dev'.setup
        /\ SameInterrupts(e, dev') /\ SameDevice(e, dev')
        /\ dev'.in = e.in /\ dev'.out = e.out /\ dev'.alloc = e.alloc /\ dev'.stalled = e.stalled
    BY <1>1, <1>5, ClearSETUPChanges, Zenon DEF e
  <1>7. SameInterrupts(dev, dev') /\ SameDevice(dev, dev')
    BY <1>4, <1>5, <1>6, Zenon DEF SameInterrupts, SameDevice
  <1> QED BY <1>1, <1>2, <1>4, <1>5, <1>6, <1>7, Zenon DEF SameBanks

LEMMA FeatureKeeps ==
  ASSUME DriverInv, CleanInv, Feature PROVE DriverInv' /\ CleanInv'
  <1>1. pc = "feature" /\ request \in {SetHalt, ClearHalt}
    BY Zenon DEF Feature, DriverInv, RequestAt
  <1>2. /\ request \in AllRequests /\ ~DeviceToHost(request)
        /\ request \in Supported \ (ClassRequests \cup {GetDescriptor})
        /\ request \notin Configurations \cup {SetAddress1}
    BY <1>1, Headers DEF AllRequests, DeviceToHost, Supported, ClassRequests, Configurations
  <1>3. Inside
    BY <1>1, FeatureChanges, InsideFacts, Zenon DEF Inside, InRequest, RequestPc, Pc, SameDevice
  <1>4. RequestAt' /\ Selected'
    BY <1>2, FeatureChanges, Zenon DEF DriverInv, RequestAt, Selected, RequestPc
  <1>5. Allocated' /\ Answered'
    BY <1>1, FeatureChanges, Zenon DEF DriverInv, Allocated, Answered, Configures, HidPc, SameDevice
  <1>6. ASSUME ~trouble PROVE Serving' /\ Addressing' /\ Configuring'
    <2>1. Serving /\ Addressing /\ Configuring
      BY <1>6, InsideFacts, Zenon
    <2>2. /\ bus.reset /\ ~bus.suspended /\ "EORSTI" \notin dev.pending /\ dev.uenum = InEp
          /\ request = bus.header /\ bus.phase = "statusIn" /\ ControlEp \in dev.in \ dev.stalled
      <3>1. dev.setup /\ request = bus.header /\ dev.uenum = InEp
        BY <1>1, <2>1, Zenon DEF Serving, Begins
      <3>2. FirstPhase(request) = "statusIn"
        BY <1>2, Zenon DEF FirstPhase, ClassRequests
      <3> QED BY <2>1, <3>1, <3>2, Zenon DEF Serving, InRequest
    <2>3. ControlEp \in dev'.in \ dev'.stalled
      BY <2>2, FeatureChanges, Zenon
    <2>4. Serving'
      BY <2>1, <2>2, <2>3, FeatureChanges, Zenon
         DEF Serving, InRequest, RequestPc, Begins, EndsWithIn, SameInterrupts
    <2>5. ~Awaits({SetAddress1})' /\ ~Awaits(Configurations)' /\ ~Awaits(Configurations)
      BY <1>2, <2>2, FeatureChanges, Zenon DEF Awaits
    <2>6. Addressing'
      BY <1>1, <1>2, <2>1, <2>5, FeatureChanges, Zenon DEF Addressing, SameDevice
    <2>7. Configuring'
      BY <1>1, <2>1, <2>5, FeatureChanges, Zenon DEF Configuring, SameInterrupts, SameDevice
    <2> QED BY <2>4, <2>6, <2>7, Zenon
  <1> QED BY <1>3, <1>4, <1>5, <1>6, InsideKeeps, Zenon

(* Where the status stage leads. *)
LEMMA StatusLeads ==
  ASSUME DriverInv, pc = "status"
  PROVE  /\ AfterStatus = IF request = SetAddress1 THEN "addressWait"
                          ELSE IF request \in Configurations THEN "configState" ELSE "finish"
         /\ request \in AllRequests /\ request \in Supported
         /\ DeviceToHost(request) => request \notin Configurations \cup {SetAddress1}
         /\ dev.uenum = ControlEp
  <1>1. request \in Supported \ (ClassRequests \cup {GetDescriptor})
    BY Zenon DEF DriverInv, RequestAt
  <1>2. request \in AllRequests \ {SetReport, SetConfiguration2}
    BY <1>1, Zenon DEF Supported, ClassRequests
  <1>3. AfterStatus = IF request = SetAddress1 THEN "addressWait"
                      ELSE IF request \in Configurations THEN "configState" ELSE "finish"
    BY <1>2, Headers DEF AfterStatus, AllRequests, Configurations
  <1>4. DeviceToHost(request) => request \notin Configurations \cup {SetAddress1}
    BY Headers, Zenon DEF DeviceToHost, Configurations
  <1>5. dev.uenum = ControlEp
    BY Zenon DEF DriverInv, Selected, RequestPc
  <1> QED BY <1>1, <1>2, <1>3, <1>4, <1>5, Zenon

(* Endpoint_ClearStatusStage *)
LEMMA StatusKeeps ==
  ASSUME DriverInv, CleanInv, StatusStage PROVE DriverInv' /\ CleanInv'
  <1>1. /\ pc = "status" /\ pc' = AfterStatus
        /\ UNCHANGED <<request, prev, Length, handled, bus, count, trouble>>
        /\ \/ dev' = ClearOUT(dev) /\ DeviceToHost(request)
           \/ dev' = ClearIN(dev) /\ ~DeviceToHost(request)
           \/ dev' = dev /\ dev.state = "Unattached"
    BY Zenon DEF StatusStage, Plain, Step
  <1>2. /\ dev' \in Dev /\ dev'.uenum = ControlEp /\ SameInterrupts(dev, dev')
        /\ SameDevice(dev, dev') /\ dev'.setup = dev.setup
        /\ dev'.alloc = dev.alloc /\ dev'.stalled = dev.stalled /\ dev'.out \subseteq dev.out
    BY <1>1, InsideFacts, StatusLeads, ClearINChanges, ClearOUTChanges DEF SameBanks
  <1>3. pc' = IF request = SetAddress1 THEN "addressWait"
              ELSE IF request \in Configurations THEN "configState" ELSE "finish"
    BY <1>1, StatusLeads, Zenon
  <1>4. Inside
    BY <1>1, <1>2, <1>3, InsideFacts, Zenon DEF Inside, InRequest, RequestPc, Pc, SameDevice
  <1>5. RequestAt' /\ Selected'
    BY <1>1, <1>2, <1>3, StatusLeads, Zenon DEF DriverInv, RequestAt, Selected, RequestPc
  <1>6. Allocated'
    BY <1>1, <1>2, <1>3, SetAddressApart, Zenon DEF DriverInv, Allocated, Configures, HidPc, SameDevice
  <1>7. Answered'
    BY <1>1, <1>2, Zenon DEF DriverInv, Answered
  <1>8. ASSUME ~trouble PROVE Serving' /\ Addressing' /\ Configuring'
    <2>1. Serving /\ Addressing /\ Configuring /\ Awake
      BY <1>8, Zenon DEF CleanInv
    <2>2. /\ bus.reset /\ ~bus.suspended /\ "EORSTI" \notin dev.pending
          /\ dev.state # "Unattached"
      BY <1>1, <2>1, Zenon DEF Serving, InRequest, RequestPc, Awake
    <2>3. IF DeviceToHost(request) THEN dev'.in = dev.in
          ELSE /\ dev'.in = dev.in \ {ControlEp} /\ ~dev.setup /\ request = bus.header
               /\ bus.phase = "statusIn" /\ ControlEp \notin dev.stalled
      BY <1>1, <2>1, <2>2, StatusLeads, InsideFacts, ClearINChanges, ClearOUTChanges, Zenon
         DEF Serving, EndsWithIn
    <2>4. Serving'
      BY <1>1, <1>2, <1>3, <2>1, <2>2, <2>3, Zenon
         DEF Serving, InRequest, RequestPc, Begins, EndsWithIn, SameInterrupts
    <2>5. /\ Awaits({SetAddress1})' <=> Awaits({SetAddress1})
          /\ Awaits(Configurations)' <=> Awaits(Configurations)
      BY <1>1, <1>2, Zenon DEF Awaits
    <2>6. request = SetAddress1 => /\ Awaits({SetAddress1})' /\ ControlEp \notin dev'.in
                                   /\ ~dev'.setup
      BY <1>1, <1>2, <2>3, StatusLeads, Zenon DEF Awaits
    <2>7. request = SetAddress1 => ~dev'.adden
      <3>1. request = SetAddress1 => bus.phase # "none" /\ bus.header = SetAddress1
        BY <1>1, <2>3, StatusLeads, Zenon
      <3> QED BY <1>2, <2>1, <2>2, <3>1, Zenon DEF Addressing, DriverInv, HostInv, SameDevice
    <2>8. Addressing'
      BY <1>1, <1>2, <1>3, <2>1, <2>5, <2>6, <2>7, Zenon DEF Addressing, SameDevice
    <2>9. Configuring'
      BY <1>1, <1>2, <1>3, <2>1, <2>5, SetAddressApart, Zenon
         DEF Configuring, SameInterrupts, SameDevice
    <2> QED BY <2>4, <2>8, <2>9, Zenon
  <1> QED BY <1>4, <1>5, <1>6, <1>7, <1>8, InsideKeeps, Zenon

(* The address is enabled once the host has taken the status packet. *)
LEMMA AddressWaitKeeps ==
  ASSUME DriverInv, CleanInv, AddressWait PROVE DriverInv' /\ CleanInv'
  <1>1. /\ pc = "addressWait" /\ pc' = "addressState" /\ dev.uenum \in dev.in
        /\ dev' = [dev EXCEPT !.adden = TRUE]
        /\ UNCHANGED <<request, prev, Length, handled, bus, count, trouble>>
    BY Zenon DEF AddressWait, IsINReady, Plain, Step
  <1>2. /\ dev' \in Dev /\ SameInterrupts(dev, dev') /\ SameBanks(dev, dev')
        /\ dev'.uenum = dev.uenum /\ dev'.state = dev.state /\ dev'.config = dev.config
        /\ dev'.addr = dev.addr /\ dev'.adden
    BY <1>1, InsideFacts, Zenon DEF Dev, SameInterrupts, SameBanks
  <1>3. dev.uenum = ControlEp /\ request = SetAddress1
    BY <1>1, Zenon DEF DriverInv, Selected, RequestAt, RequestPc
  <1>4. Inside
    BY <1>1, <1>2, InsideFacts, Zenon DEF Inside, InRequest, RequestPc, Pc, SameBanks
  <1>5. RequestAt' /\ Selected'
    BY <1>1, <1>2, <1>3, Zenon DEF DriverInv, RequestAt, Selected, RequestPc, SameBanks
  <1>6. Allocated' /\ Answered'
    BY <1>1, <1>2, Zenon DEF DriverInv, Allocated, Answered, Configures, HidPc, SameBanks
  <1>7. ASSUME ~trouble PROVE Serving' /\ Addressing' /\ Configuring'
    <2>1. Serving /\ Addressing /\ Configuring
      BY <1>7, InsideFacts, Zenon
    <2>2. bus.phase = "none" /\ bus.addr = 1 /\ ~dev.setup
      BY <1>1, <1>3, <2>1, Zenon DEF Addressing
    <2>3. Serving'
      BY <1>1, <1>2, <2>1, Zenon
         DEF Serving, InRequest, RequestPc, Begins, EndsWithIn, SameInterrupts, SameBanks
    <2>4. ~Awaits({SetAddress1})' /\ ~Awaits(Configurations)' /\ ~Awaits(Configurations)
      BY <1>1, <2>2, Zenon DEF Awaits
    <2>5. Addressing' /\ Configuring'
      BY <1>1, <1>2, <1>3, <2>1, <2>2, <2>4 DEF Addressing, Configuring, SameInterrupts
    <2> QED BY <2>3, <2>5, Zenon
  <1> QED BY <1>4, <1>5, <1>6, <1>7, InsideKeeps, Zenon

(* The device becomes Addressed. *)
LEMMA AddressStateKeeps ==
  ASSUME DriverInv, CleanInv, AddressState PROVE DriverInv' /\ CleanInv'
  <1>1. pc = "addressState" /\ request = SetAddress1
    BY Zenon DEF AddressState, DriverInv, RequestAt
  <1>2. /\ pc' = "finish" /\ dev' = [dev EXCEPT !.state = "Addressed"]
        /\ UNCHANGED <<request, prev, Length, handled, bus, count, trouble>>
    BY <1>1, Values DEF AddressState, Plain, Step
  <1>3. /\ dev' \in Dev /\ SameInterrupts(dev, dev') /\ SameBanks(dev, dev')
        /\ dev'.uenum = dev.uenum /\ dev'.state = "Addressed" /\ dev'.config = dev.config
        /\ dev'.addr = dev.addr /\ dev'.adden = dev.adden
    BY <1>2, InsideFacts, Zenon DEF Dev, SameInterrupts, SameBanks, States
  <1>4. dev.uenum = ControlEp
    BY <1>1, Zenon DEF DriverInv, Selected, RequestPc
  <1>5. Inside
    BY <1>1, <1>2, <1>3, InsideFacts, Zenon DEF Inside, InRequest, RequestPc, Pc, SameBanks
  <1>6. RequestAt' /\ Selected'
    BY <1>1, <1>2, <1>3, <1>4, Zenon DEF DriverInv, RequestAt, Selected, RequestPc, SameBanks
  <1>7. Allocated' /\ Answered'
    BY <1>1, <1>2, <1>3, Zenon DEF DriverInv, Allocated, Answered, Configures, HidPc, SameBanks
  <1>8. ASSUME ~trouble PROVE Serving' /\ Addressing' /\ Configuring'
    <2>1. Serving /\ Addressing /\ Configuring
      BY <1>8, InsideFacts, Zenon
    <2>2. Serving'
      BY <1>1, <1>2, <1>3, <2>1, Zenon
         DEF Serving, InRequest, RequestPc, Begins, EndsWithIn, SameInterrupts, SameBanks
    <2>3. /\ Awaits({SetAddress1})' <=> Awaits({SetAddress1})
          /\ Awaits(Configurations)' <=> Awaits(Configurations)
      BY <1>2, <1>3, Zenon DEF Awaits, SameBanks
    <2>4. dev.config = 0
      BY <1>1, <2>1, Zenon DEF Addressing
    <2>5. Addressing' /\ Configuring'
      BY <1>1, <1>2, <1>3, <2>1, <2>3, <2>4, Zenon DEF Addressing, Configuring, SameInterrupts
    <2> QED BY <2>2, <2>5, Zenon
  <1> QED BY <1>5, <1>6, <1>7, <1>8, InsideKeeps, Zenon

(* The device becomes Configured, or Powered. *)
LEMMA ConfigStateKeeps ==
  ASSUME DriverInv, CleanInv, ConfigState PROVE DriverInv' /\ CleanInv'
  <1>1. pc = "configState" /\ request \in Configurations /\ dev.uenum = ControlEp
    BY Zenon DEF ConfigState, DriverInv, RequestAt, Selected, RequestPc
  <1> DEFINE new == IF dev.config # 0 \/ dev.adden THEN "Configured" ELSE "Powered"
  <1>2. /\ pc' = "configEndpoints" /\ dev' = [dev EXCEPT !.state = new]
        /\ UNCHANGED <<request, prev, Length, handled, bus, count, trouble>>
    BY Zenon DEF ConfigState, Plain, Step
  <1>3. new \in {"Configured", "Powered"} /\ (dev.config # 0 => new = "Configured")
    BY Zenon
  <1> HIDE DEF new
  <1>4. /\ dev' \in Dev /\ SameInterrupts(dev, dev') /\ SameBanks(dev, dev')
        /\ dev'.uenum = dev.uenum /\ dev'.state = new /\ dev'.config = dev.config
        /\ dev'.addr = dev.addr /\ dev'.adden = dev.adden
    BY <1>2, <1>3, InsideFacts, Zenon DEF Dev, SameInterrupts, SameBanks, States
  <1>5. Inside
    BY <1>1, <1>2, <1>3, <1>4, InsideFacts, Zenon DEF Inside, InRequest, RequestPc, Pc, SameBanks
  <1>6. RequestAt' /\ Selected'
    BY <1>1, <1>2, <1>4, Zenon DEF DriverInv, RequestAt, Selected, RequestPc, SameBanks
  <1>7. Allocated' /\ Answered'
    BY <1>1, <1>2, <1>4, Zenon DEF DriverInv, Allocated, Answered, Configures, HidPc, SameBanks
  <1>8. ASSUME ~trouble PROVE Serving' /\ Addressing' /\ Configuring'
    <2>1. Serving /\ Addressing /\ Configuring
      BY <1>8, InsideFacts, Zenon
    <2>2. Serving'
      BY <1>1, <1>2, <1>4, <2>1, Zenon
         DEF Serving, InRequest, RequestPc, Begins, EndsWithIn, SameInterrupts, SameBanks
    <2>3. /\ Awaits({SetAddress1})' <=> Awaits({SetAddress1})
          /\ Awaits(Configurations)' <=> Awaits(Configurations)
      BY <1>2, <1>4, Zenon DEF Awaits, SameBanks
    <2>4. Addressing'
      BY <1>1, <1>2, <1>4, <2>1, <2>3, Zenon DEF Addressing
    <2>5. Configuring'
      BY <1>2, <1>3, <1>4, <2>1, <2>3, Zenon DEF Configuring, SameInterrupts
    <2> QED BY <2>2, <2>4, <2>5, Zenon
  <1> QED BY <1>5, <1>6, <1>7, <1>8, InsideKeeps, Zenon

(* EVENT_USB_Device_ConfigurationChanged *)
LEMMA ConfigurationKeeps ==
  ASSUME DriverInv, CleanInv, ConfigurationChanged PROVE DriverInv' /\ CleanInv'
  <1>1. pc = "configEndpoints" /\ request \in Configurations
    BY Zenon DEF ConfigurationChanged, DriverInv, RequestAt
  <1> DEFINE e == ConfigureEndpoint(dev, OutEp)
  <1>2. /\ pc' = "finish" /\ dev' = ConfigureEndpoint(e, InEp)
        /\ UNCHANGED <<request, prev, Length, handled, bus, count, trouble>>
    BY Zenon DEF ConfigurationChanged, Plain, Step
  <1>3. /\ e \in Dev /\ SameInterrupts(dev, e) /\ SameDevice(dev, e)
        /\ e.alloc = dev.alloc \cup {OutEp} /\ e.stalled \subseteq dev.stalled
        /\ e.setup = dev.setup
        /\ ControlEp \in e.in <=> ControlEp \in dev.in
        /\ ControlEp \in e.out <=> ControlEp \in dev.out
        /\ ControlEp \in e.stalled <=> ControlEp \in dev.stalled
    BY InsideFacts, ConfigureChanges, Zenon
  <1> HIDE DEF e
  <1>4. /\ dev' \in Dev /\ SameInterrupts(e, dev') /\ SameDevice(e, dev')
        /\ dev'.alloc = e.alloc \cup {InEp} /\ dev'.stalled \subseteq e.stalled
        /\ dev'.setup = e.setup
        /\ ControlEp \in dev'.in <=> ControlEp \in e.in
        /\ ControlEp \in dev'.out <=> ControlEp \in e.out
        /\ ControlEp \in dev'.stalled <=> ControlEp \in e.stalled
    BY <1>2, <1>3, ConfigureChanges, Zenon
  <1>5. /\ SameInterrupts(dev, dev') /\ SameDevice(dev, dev') /\ dev'.setup = dev.setup
        /\ ControlEp \in dev'.in <=> ControlEp \in dev.in
        /\ ControlEp \in dev'.out <=> ControlEp \in dev.out
        /\ ControlEp \in dev'.stalled <=> ControlEp \in dev.stalled
    BY <1>3, <1>4, Zenon DEF SameInterrupts, SameDevice
  <1>6. Endpoints \subseteq dev'.alloc /\ dev'.stalled \subseteq dev'.alloc
    BY <1>3, <1>4, InsideFacts, Zenon DEF DriverInv, Allocated, Endpoints
  <1>7. Inside
    BY <1>1, <1>2, <1>4, <1>5, InsideFacts, Zenon DEF Inside, InRequest, RequestPc, Pc, SameDevice
  <1>8. RequestAt' /\ Selected'
    BY <1>1, <1>2, <1>5, Zenon DEF DriverInv, RequestAt, Selected, RequestPc
  <1>9. Allocated' /\ Answered'
    BY <1>1, <1>2, <1>5, <1>6, Zenon DEF DriverInv, Allocated, Answered, Endpoints
  <1>10. ASSUME ~trouble PROVE Serving' /\ Addressing' /\ Configuring'
    <2>1. Serving /\ Addressing /\ Configuring
      BY <1>10, InsideFacts, Zenon
    <2>2. Serving'
      BY <1>1, <1>2, <1>5, <2>1, Zenon
         DEF Serving, InRequest, RequestPc, Begins, EndsWithIn, SameInterrupts
    <2>3. /\ Awaits({SetAddress1})' <=> Awaits({SetAddress1})
          /\ Awaits(Configurations)' <=> Awaits(Configurations)
      BY <1>2, <1>5, Zenon DEF Awaits
    <2>4. Addressing' /\ Configuring'
      BY <1>1, <1>2, <1>5, <2>1, <2>3, Zenon DEF Addressing, Configuring, SameInterrupts, SameDevice
    <2> QED BY <2>2, <2>4, Zenon
  <1> QED BY <1>7, <1>8, <1>9, <1>10, InsideKeeps, Zenon

(* A step of a control stream or after one: it takes packets from the banks of
   the control endpoint, and no packet that belongs to a later header. *)
Streams ==
    /\ pc \in {"writeStream", "writeStatus", "readStream", "readStatus"}
    /\ pc' \in {"writeStream", "writeStatus", "readStatus", "standard", "finish"}
    /\ pc' \in {"writeStream", "writeStatus"} => request \in {GetReport, GetDescriptor}
    /\ pc' = "writeStream" => Length' > 0
    /\ pc' = "readStatus" => /\ pc = "readStream" /\ dev'.in = dev.in
                             /\ ~trouble => bus.phase = "statusIn"
    /\ pc' = "standard" => request \in ClassRequests
    /\ Length' \in 0 .. 2
    /\ UNCHANGED <<request, prev, handled, bus, count, trouble>>
    /\ dev' \in Dev /\ SameInterrupts(dev, dev') /\ SameDevice(dev, dev')
    /\ dev'.uenum = ControlEp /\ dev'.setup = dev.setup
    /\ dev'.alloc = dev.alloc /\ dev'.stalled = dev.stalled /\ dev'.out \subseteq dev.out
    /\ ~trouble => dev'.in = dev.in \/ ~dev.setup

LEMMA StreamsKeep ==
  ASSUME DriverInv, CleanInv, Streams PROVE DriverInv' /\ CleanInv'
  <1>1. Inside
    BY InsideFacts, Zenon DEF Streams, Inside, InRequest, RequestPc, Pc, SameDevice
  <1>2. request \in AllRequests /\ (pc = "readStream" => request = SetReport)
    BY Zenon DEF Streams, DriverInv, RequestAt, RequestPc
  <1>3. RequestAt' /\ Selected'
    BY <1>2, Zenon DEF Streams, DriverInv, RequestAt, Selected, RequestPc
  <1>4. Allocated' /\ Answered'
    BY Zenon DEF Streams, DriverInv, Allocated, Answered, Configures, HidPc, SameDevice
  <1>5. ASSUME ~trouble PROVE Serving' /\ Addressing' /\ Configuring'
    <2>1. Serving /\ Addressing /\ Configuring
      BY <1>5, InsideFacts, Zenon
    <2>2. Serving'
      BY <1>5, <2>1, Zenon
         DEF Streams, Serving, InRequest, RequestPc, Begins, EndsWithIn, SameInterrupts
    <2>3. /\ Awaits({SetAddress1})' <=> Awaits({SetAddress1})
          /\ Awaits(Configurations)' <=> Awaits(Configurations)
      BY Zenon DEF Streams, Awaits
    <2>4. Addressing' /\ Configuring'
      BY <2>1, <2>3, Zenon DEF Streams, Addressing, Configuring, SameInterrupts, SameDevice
    <2> QED BY <2>2, <2>4, Zenon
  <1> QED BY <1>1, <1>3, <1>4, <1>5, InsideKeeps, Zenon

(* The bus is there while no request has been cut short. *)
LEMMA BusThere ==
  ASSUME DriverInv, CleanInv, InRequest, ~trouble PROVE ~BusGone
  BY Zenon DEF CleanInv, Serving, Awake, DriverInv, Registers, BusGone

(* One packet less to send. *)
LEMMA CountDown ==
  ASSUME NEW l \in 0 .. 2, l > 0
  PROVE  l - 1 \in 0 .. 2 /\ (l # 1 => l - 1 > 0)
  OBVIOUS

(* Endpoint_Write_Control_Stream_LE *)
LEMMA WriteStreamKeeps ==
  ASSUME DriverInv, CleanInv, WriteStream \/ WriteStatus PROVE DriverInv' /\ CleanInv'
  <1>1. /\ pc \in {"writeStream", "writeStatus"} /\ request \in {GetReport, GetDescriptor}
        /\ dev.uenum = ControlEp /\ (pc = "writeStream" => Length > 0)
    BY Zenon DEF WriteStream, WriteStatus, DriverInv, RequestAt, Selected, RequestPc
  <1>2. /\ DeviceToHost(request)
        /\ request.bRequest = 6 <=> request = GetDescriptor
    BY <1>1, Headers DEF DeviceToHost
  <1>3. CASE StreamDone(dev)
    <2>1. /\ pc' = IF request.bRequest = 6 THEN "finish" ELSE "standard"
          /\ dev' = ClearOUT(dev)
          /\ UNCHANGED <<request, prev, Length, handled, bus, count, trouble>>
      BY <1>2, <1>3, Zenon DEF StreamDone, Plain, Step
    <2>2. Streams
      BY <1>1, <1>2, <2>1, InsideFacts, ClearOUTChanges, Zenon DEF Streams, ClassRequests
    <2> QED BY <2>2, StreamsKeep, Zenon
  <1>4. CASE pc = "writeStream" /\ Plain("writeStatus", dev)
    <2>1. /\ pc' = "writeStatus" /\ dev' = dev
          /\ UNCHANGED <<request, prev, Length, handled, bus, count, trouble>>
      BY <1>4, Zenon DEF Plain, Step
    <2>2. Streams
      BY <1>1, <1>4, <2>1, InsideFacts, Zenon DEF Streams
    <2> QED BY <2>2, StreamsKeep, Zenon
  <1>5. CASE /\ pc = "writeStream" /\ ~IsSETUPReceived
             /\ Step(IF Length = 1 THEN "writeStatus" ELSE "writeStream", ClearIN(dev))
             /\ Length' = Length - 1 /\ UNCHANGED <<request, prev, handled>>
    <2>1. /\ pc' = IF Length = 1 THEN "writeStatus" ELSE "writeStream"
          /\ dev' = ClearIN(dev) /\ UNCHANGED <<bus, count, trouble>>
      BY <1>5, Zenon DEF Step
    <2>2. Length' \in 0 .. 2 /\ (pc' = "writeStream" => Length' > 0)
      <3>1. Length \in 0 .. 2 /\ Length > 0 /\ Length' = Length - 1
        BY <1>1, <1>5, InsideFacts, Zenon
      <3>2. Length' \in 0 .. 2 /\ (Length # 1 => Length' > 0)
        BY <3>1, CountDown, Zenon
      <3> QED BY <2>1, <3>2, Zenon
    <2>3. ~dev.setup
      BY <1>1, <1>5, Zenon DEF IsSETUPReceived
    <2>4. Streams
      BY <1>1, <1>5, <2>1, <2>2, <2>3, InsideFacts, ClearINChanges, Zenon DEF Streams
    <2> QED BY <2>4, StreamsKeep, Zenon
  <1> QED BY <1>3, <1>4, <1>5, Zenon DEF WriteStream, WriteStatus

(* Endpoint_Read_Control_Stream_LE *)
LEMMA ReadStreamKeeps ==
  ASSUME DriverInv, CleanInv, ReadStream \/ ReadStatus PROVE DriverInv' /\ CleanInv'
  <1>1. /\ pc \in {"readStream", "readStatus"} /\ request = SetReport
        /\ dev.uenum = ControlEp
    BY Zenon DEF ReadStream, ReadStatus, DriverInv, RequestAt, Selected, RequestPc
  <1>2. ~DeviceToHost(request) /\ request.bRequest = 9 /\ request \in ClassRequests
    BY <1>1, Headers, Zenon DEF DeviceToHost, ClassRequests
  <1>3. ~trouble => ~dev.setup /\ ~BusGone
    <2>1. ~trouble => Serving
      BY InsideFacts, Zenon
    <2>2. InRequest
      BY <1>1, Zenon DEF InRequest, RequestPc
    <2> QED BY <1>1, <2>1, <2>2, BusThere, Zenon DEF Serving, EndsWithIn
  <1>4. CASE StreamDone(dev)
    <2>1. /\ pc' = "standard" /\ dev' = ClearIN(dev)
          /\ UNCHANGED <<request, prev, Length, handled, bus, count, trouble>>
      BY <1>2, <1>4 DEF StreamDone, Plain, Step
    <2>2. Streams
      BY <1>1, <1>2, <1>3, <2>1, InsideFacts, ClearINChanges, Zenon DEF Streams
    <2> QED BY <2>2, StreamsKeep, Zenon
  <1>5. CASE /\ pc = "readStream" /\ IsOUTReceived /\ Step("readStatus", ClearOUT(dev))
             /\ Length' = 0 /\ UNCHANGED <<request, prev, handled>>
    <2>1. /\ pc' = "readStatus" /\ dev' = ClearOUT(dev) /\ UNCHANGED <<bus, count, trouble>>
      BY <1>5, Zenon DEF Step
    <2>2. ~trouble => bus.phase = "statusIn"
      BY <1>1, <1>5, InsideFacts, Zenon DEF Serving, IsOUTReceived
    <2>3. Streams
      BY <1>1, <1>5, <2>1, <2>2, InsideFacts, ClearOUTChanges DEF Streams
    <2> QED BY <2>3, StreamsKeep, Zenon
  <1> QED BY <1>4, <1>5, Zenon DEF ReadStream, ReadStatus

(* What no handler has taken is stalled. *)
LEMMA FinishKeeps ==
  ASSUME DriverInv, CleanInv, Finish PROVE DriverInv' /\ CleanInv'
  <1>1. /\ pc = "finish" /\ pc' = "leave"
        /\ UNCHANGED <<request, prev, Length, handled, bus, count, trouble>>
        /\ dev' = IF IsSETUPReceived THEN Stall(ClearSETUP(dev)) ELSE dev
    BY Zenon DEF Finish, Plain, Step
  <1> DEFINE e == ClearSETUP(dev)
  <1>2. /\ e \in Dev /\ e.uenum = dev.uenum /\ SameInterrupts(dev, e) /\ SameDevice(dev, e)
        /\ e.in = dev.in /\ e.out = dev.out /\ e.alloc = dev.alloc /\ e.stalled = dev.stalled
        /\ e.setup = (dev.setup /\ dev.uenum # ControlEp)
    BY InsideFacts, ClearSETUPChanges, Zenon
  <1> HIDE DEF e
  <1>3. /\ dev' \in Dev /\ dev'.uenum = dev.uenum /\ SameInterrupts(dev, dev')
        /\ SameDevice(dev, dev') /\ dev'.in = dev.in /\ dev'.out = dev.out
        /\ dev'.alloc = dev.alloc
        /\ \/ /\ dev'.setup = dev.setup /\ dev'.stalled = dev.stalled
              /\ dev.setup => dev.uenum # ControlEp
           \/ /\ dev.setup /\ ~dev'.setup
              /\ dev'.stalled = dev.stalled \cup {ControlEp}
    <2>1. CASE IsSETUPReceived
      <3>1. dev' = Stall(e) /\ dev.setup /\ dev.uenum = ControlEp /\ ~e.setup
        BY <1>1, <1>2, <2>1, Zenon DEF IsSETUPReceived, e
      <3>2. {e.uenum} \cap e.alloc = {ControlEp}
        BY <1>2, <3>1, InsideFacts, Zenon
      <3> QED BY <1>2, <3>1, <3>2, StallChanges, Zenon DEF SameInterrupts, SameDevice
    <2>2. CASE ~IsSETUPReceived
      BY <1>1, <2>2, InsideFacts, Zenon DEF IsSETUPReceived
    <2> QED BY <2>1, <2>2, Zenon
  <1>4. Inside
    BY <1>1, <1>3, InsideFacts, Zenon DEF Inside, InRequest, RequestPc, Pc, SameDevice
  <1>5. RequestAt' /\ Selected'
    BY <1>1, <1>3, Zenon DEF DriverInv, RequestAt, Selected, RequestPc
  <1>6. Allocated'
    BY <1>1, <1>3, Zenon DEF DriverInv, Allocated, Configures, HidPc, SameDevice
  <1>7. Answered'
    <2>1. Configurations \subseteq Supported
      BY Headers, Values DEF Configurations, Supported, AllRequests
    <2> QED BY <1>1, <1>3, <2>1, Zenon DEF DriverInv, Answered, Selected
  <1>8. ASSUME ~trouble PROVE Serving' /\ Addressing' /\ Configuring'
    <2>1. Serving /\ Addressing /\ Configuring
      BY <1>8, InsideFacts, Zenon
    <2>2. Serving'
      BY <1>1, <1>3, <2>1, Zenon
         DEF Serving, InRequest, RequestPc, Begins, EndsWithIn, SameInterrupts
    <2>3. /\ Awaits({SetAddress1})' <=> Awaits({SetAddress1})
          /\ Awaits(Configurations)' <=> Awaits(Configurations)
      BY <1>1, <1>3, Zenon DEF Awaits
    <2>4. Addressing' /\ Configuring'
      BY <1>1, <1>3, <2>1, <2>3, Zenon DEF Addressing, Configuring, SameInterrupts, SameDevice
    <2> QED BY <2>2, <2>4, Zenon
  <1> QED BY <1>4, <1>5, <1>6, <1>7, <1>8, InsideKeeps, Zenon

(* The end of USB_DeviceTask *)
LEMMA LeaveKeeps ==
  ASSUME DriverInv, CleanInv, Leave PROVE DriverInv' /\ CleanInv'
  <1>1. /\ pc = "leave" /\ pc' = "receive" /\ dev' = Select(dev, prev)
        /\ UNCHANGED <<request, prev, Length, handled, bus, count, trouble>>
    BY Zenon DEF Leave, Plain, Step
  <1>2. /\ dev' \in Dev /\ SameInterrupts(dev, dev') /\ SameDevice(dev, dev')
        /\ SameBanks(dev, dev')
    BY <1>1, InsideFacts, SelectChanges, Zenon
  <1>3. Inside
    BY <1>1, <1>2, InsideFacts, Zenon DEF Inside, InRequest, RequestPc, Pc, SameDevice, SameBanks
  <1>4. RequestAt' /\ Selected'
    BY <1>1, <1>2, Zenon DEF DriverInv, RequestAt, Selected, RequestPc, SameBanks
  <1>5. Allocated' /\ Answered'
    BY <1>1, <1>2, Zenon DEF DriverInv, Allocated, Answered, Configures, HidPc, SameDevice, SameBanks
  <1>6. ASSUME ~trouble PROVE Serving' /\ Addressing' /\ Configuring'
    <2>1. Serving /\ Addressing /\ Configuring
      BY <1>6, InsideFacts, Zenon
    <2>2. Serving'
      BY <1>1, <1>2, <2>1, Zenon
         DEF Serving, InRequest, RequestPc, Begins, EndsWithIn, SameInterrupts, SameBanks
    <2>3. Addressing' /\ Configuring'
      BY <1>1, <1>2, <2>1, Zenon
         DEF Addressing, Configuring, Awaits, SameInterrupts, SameDevice, SameBanks
    <2> QED BY <2>2, <2>3, Zenon
  <1> QED BY <1>3, <1>4, <1>5, <1>6, InsideKeeps, Zenon

(* Every step of the main loop *)
LEMMA MainKeeps ==
  ASSUME DriverInv, CleanInv, Main PROVE DriverInv' /\ CleanInv'
  <1>1. CASE ReceiveCommand \/ HidTask \/ HidOut \/ HidRead \/ HidIn \/ HidSend
    BY <1>1, HidKeeps, Zenon
  <1>2. CASE DeviceTask \/ Process \/ Standard \/ Feature \/ StatusStage
    BY <1>2, TaskKeeps, ProcessKeeps, StandardKeeps, FeatureKeeps, StatusKeeps, Zenon
  <1>3. CASE AddressWait \/ AddressState \/ ConfigState \/ ConfigurationChanged
    BY <1>3, AddressWaitKeeps, AddressStateKeeps, ConfigStateKeeps, ConfigurationKeeps, Zenon
  <1>4. CASE WriteStream \/ WriteStatus \/ ReadStream \/ ReadStatus \/ Finish \/ Leave
    BY <1>4, WriteStreamKeeps, ReadStreamKeeps, FinishKeeps, LeaveKeeps, Zenon
  <1> QED BY <1>1, <1>2, <1>3, <1>4, Zenon DEF Main

-----------------------------------------------------------------------------
(* USB_GEN_vect, branch by branch.                                          *)

(* The first three leave the endpoints, the address and the configuration. *)
SameRequest(d, e) ==
    /\ SameBanks(d, e) /\ e.uenum = d.uenum
    /\ e.config = d.config /\ e.addr = d.addr /\ e.adden = d.adden

LEMMA VbusChanges ==
  ASSUME NEW d \in Dev, bus \in Bus
  PROVE  /\ VbusBranch(d) \in Dev /\ SameRequest(d, VbusBranch(d))
         /\ VbusBranch(d).enabled = d.enabled /\ VbusBranch(d).frozen = d.frozen
         /\ ~Raised(d, "VBUSTI") => VbusBranch(d) = d
         /\ Raised(d, "VBUSTI") =>
               /\ VbusBranch(d).pending = d.pending \ {"VBUSTI"}
               /\ VbusBranch(d).state = IF bus.vbus THEN "Powered" ELSE "Unattached"
  <1>1. CASE Raised(d, "VBUSTI")
    <2> DEFINE e == [d EXCEPT !.pending = d.pending \ {"VBUSTI"}, !.pll = bus.vbus,
                              !.state = IF bus.vbus THEN "Powered" ELSE "Unattached"]
    <2>1. VbusBranch(d) = e
      BY <1>1, Zenon DEF VbusBranch, Clear, Dev
    <2>2. bus.vbus \in BOOLEAN
      BY Zenon DEF Bus
    <2>3. e \in Dev
      BY <2>2, Zenon DEF Dev, States
    <2>4. SameRequest(d, e) /\ e.enabled = d.enabled /\ e.frozen = d.frozen
      BY Zenon DEF Dev, SameRequest, SameBanks
    <2>5. /\ e.pending = d.pending \ {"VBUSTI"}
          /\ e.state = IF bus.vbus THEN "Powered" ELSE "Unattached"
      BY Zenon DEF Dev
    <2> HIDE DEF e
    <2> QED BY <1>1, <2>1, <2>3, <2>4, <2>5, Zenon
  <1>2. CASE ~Raised(d, "VBUSTI")
    BY <1>2, Zenon DEF VbusBranch, SameRequest, SameBanks
  <1> QED BY <1>1, <1>2, Zenon

LEMMA SuspendChanges ==
  ASSUME NEW d \in Dev
  PROVE  /\ SuspendBranch(d) \in Dev /\ SameRequest(d, SuspendBranch(d))
         /\ SuspendBranch(d).pending = d.pending
         /\ ~Raised(d, "SUSPI") => SuspendBranch(d) = d
         /\ Raised(d, "SUSPI") =>
               /\ SuspendBranch(d).enabled = (d.enabled \ {"SUSPI"}) \cup {"WAKEUPI"}
               /\ SuspendBranch(d).frozen /\ SuspendBranch(d).state = "Suspended"
  <1>1. CASE Raised(d, "SUSPI")
    <2> DEFINE e == [d EXCEPT !.enabled = (d.enabled \ {"SUSPI"}) \cup {"WAKEUPI"},
                              !.frozen = TRUE, !.pll = FALSE, !.state = "Suspended"]
    <2>1. SuspendBranch(d) = e
      BY <1>1, Zenon DEF SuspendBranch, Enable, Disable, Dev
    <2>2. e \in Dev
      BY Zenon DEF Dev, States, Interrupts
    <2>3. SameRequest(d, e) /\ e.pending = d.pending
      BY Zenon DEF Dev, SameRequest, SameBanks
    <2>4. /\ e.enabled = (d.enabled \ {"SUSPI"}) \cup {"WAKEUPI"}
          /\ e.frozen /\ e.state = "Suspended"
      BY Zenon DEF Dev
    <2> HIDE DEF e
    <2> QED BY <1>1, <2>1, <2>2, <2>3, <2>4, Zenon
  <1>2. CASE ~Raised(d, "SUSPI")
    BY <1>2, Zenon DEF SuspendBranch, SameRequest, SameBanks
  <1> QED BY <1>1, <1>2, Zenon

LEMMA WakeupChanges ==
  ASSUME NEW d \in Dev
  PROVE  /\ WakeupBranch(d) \in Dev /\ SameRequest(d, WakeupBranch(d))
         /\ ~Raised(d, "WAKEUPI") => WakeupBranch(d) = d
         /\ Raised(d, "WAKEUPI") =>
               /\ WakeupBranch(d).pending = d.pending \ {"WAKEUPI"}
               /\ WakeupBranch(d).enabled = (d.enabled \ {"WAKEUPI"}) \cup {"SUSPI"}
               /\ ~WakeupBranch(d).frozen
               /\ WakeupBranch(d).state = IF d.config # 0 THEN "Configured"
                                          ELSE IF d.adden THEN "Addressed" ELSE "Powered"
  <1>1. CASE Raised(d, "WAKEUPI")
    <2> DEFINE e == [d EXCEPT !.pending = d.pending \ {"WAKEUPI"},
                              !.enabled = (d.enabled \ {"WAKEUPI"}) \cup {"SUSPI"},
                              !.pll = TRUE, !.frozen = FALSE,
                              !.state = IF d.config # 0 THEN "Configured"
                                        ELSE IF d.adden THEN "Addressed" ELSE "Powered"]
    <2>1. WakeupBranch(d) = e
      BY <1>1, Zenon DEF WakeupBranch, Enable, Disable, Clear, Dev
    <2>2. e \in Dev
      BY Zenon DEF Dev, States, Interrupts
    <2>3. SameRequest(d, e)
      BY Zenon DEF Dev, SameRequest, SameBanks
    <2>4. /\ e.pending = d.pending \ {"WAKEUPI"}
          /\ e.enabled = (d.enabled \ {"WAKEUPI"}) \cup {"SUSPI"} /\ ~e.frozen
          /\ e.state = IF d.config # 0 THEN "Configured"
                       ELSE IF d.adden THEN "Addressed" ELSE "Powered"
      BY Zenon DEF Dev
    <2> HIDE DEF e
    <2> QED BY <1>1, <2>1, <2>2, <2>3, <2>4, Zenon
  <1>2. CASE ~Raised(d, "WAKEUPI")
    BY <1>2, Zenon DEF WakeupBranch, SameRequest, SameBanks
  <1> QED BY <1>1, <1>2, Zenon

LEMMA ResetChanges ==
  ASSUME NEW d \in Dev
  PROVE  /\ ResetBranch(d) \in Dev
         /\ ResetBranch(d).addr = d.addr /\ ResetBranch(d).adden = d.adden
         /\ ResetBranch(d).frozen = d.frozen
         /\ ~Raised(d, "EORSTI") => ResetBranch(d) = d
         /\ Raised(d, "EORSTI") =>
               /\ ResetBranch(d).pending = d.pending \ {"EORSTI", "SUSPI"}
               /\ ResetBranch(d).enabled = (d.enabled \ {"SUSPI"}) \cup {"WAKEUPI"}
               /\ ResetBranch(d).state = "Default" /\ ResetBranch(d).config = 0
               /\ ResetBranch(d).uenum = ControlEp /\ ~ResetBranch(d).setup
               /\ ResetBranch(d).alloc = d.alloc \cup {ControlEp}
               /\ ResetBranch(d).stalled \subseteq d.stalled
  <1>1. CASE Raised(d, "EORSTI")
    <2> DEFINE a == [d EXCEPT !.pending = d.pending \ {"EORSTI", "SUSPI"},
                              !.enabled = (d.enabled \ {"SUSPI"}) \cup {"WAKEUPI"},
                              !.state = "Default", !.config = 0]
    <2>1. ResetBranch(d) = ConfigureEndpoint(a, ControlEp)
      <3>1. Clear(Clear(d, "EORSTI"), "SUSPI") = [d EXCEPT !.pending = d.pending \ {"EORSTI", "SUSPI"}]
        BY Zenon DEF Clear, Dev
      <3>2. [Enable(Disable(Clear(Clear(d, "EORSTI"), "SUSPI"), "SUSPI"), "WAKEUPI")
                EXCEPT !.state = "Default", !.config = 0] = a
        BY <3>1, Zenon DEF Enable, Disable, Dev
      <3> QED BY <1>1, <3>2, Zenon DEF ResetBranch
    <2>2. a \in Dev
      <3>1. /\ d.pending \ {"EORSTI", "SUSPI"} \in SUBSET Interrupts
            /\ (d.enabled \ {"SUSPI"}) \cup {"WAKEUPI"} \in SUBSET Interrupts
            /\ "Default" \in States /\ 0 \in 0 .. 1
        BY DEF Dev, States, Interrupts
      <3> QED BY <3>1, Zenon DEF Dev
    <2>3. /\ a.addr = d.addr /\ a.adden = d.adden /\ a.frozen = d.frozen
          /\ a.pending = d.pending \ {"EORSTI", "SUSPI"}
          /\ a.enabled = (d.enabled \ {"SUSPI"}) \cup {"WAKEUPI"}
          /\ a.state = "Default" /\ a.config = 0
          /\ a.alloc = d.alloc /\ a.stalled = d.stalled
      BY Zenon DEF Dev
    <2> HIDE DEF a
    <2>4. SameInterrupts(a, ResetBranch(d)) /\ SameDevice(a, ResetBranch(d))
      BY <2>1, <2>2, RestartChanges
    <2>5. /\ ResetBranch(d) \in Dev /\ ResetBranch(d).uenum = ControlEp /\ ~ResetBranch(d).setup
          /\ ResetBranch(d).alloc = a.alloc \cup {ControlEp}
          /\ ResetBranch(d).stalled \subseteq a.stalled
      BY <2>1, <2>2, RestartChanges
    <2> QED BY <1>1, <2>3, <2>4, <2>5, Zenon DEF SameInterrupts, SameDevice
  <1>2. CASE ~Raised(d, "EORSTI")
    BY <1>2, Zenon DEF ResetBranch
  <1> QED BY <1>1, <1>2, Zenon

(* What the interrupt routine leaves, and what it changes when the end of a
   reset is pending and when it is not. *)
LEMMA InterruptChanges ==
  ASSUME DriverInv, Interrupt
  PROVE  /\ dev' \in Dev /\ dev'.addr = dev.addr /\ dev'.adden = dev.adden
         /\ dev'.pending \subseteq dev.pending \ {"VBUSTI", "EORSTI"} /\ Registers'
         /\ dev'.frozen => (dev.frozen /\ "WAKEUPI" \notin dev.pending) \/ "SUSPI" \in dev.pending
         /\ "EORSTI" \notin dev.pending =>
               /\ SameBanks(dev, dev') /\ dev'.uenum = dev.uenum /\ dev'.config = dev.config
         /\ "EORSTI" \in dev.pending =>
               /\ dev'.uenum = ControlEp /\ dev'.config = 0 /\ dev'.state = "Default"
               /\ ~dev'.setup /\ dev'.alloc = dev.alloc \cup {ControlEp}
               /\ dev'.stalled \subseteq dev.stalled
  <1> DEFINE d1 == VbusBranch(dev)
             d2 == SuspendBranch(d1)
             d3 == WakeupBranch(d2)
  <1>1. dev \in Dev /\ bus \in Bus /\ Registers
    BY Zenon DEF DriverInv, TypeOK
  <1>2. /\ d1 \in Dev /\ SameRequest(dev, d1)
        /\ d1.enabled = dev.enabled /\ d1.frozen = dev.frozen
        /\ ~Raised(dev, "VBUSTI") => d1 = dev
        /\ Raised(dev, "VBUSTI") => /\ d1.pending = dev.pending \ {"VBUSTI"}
                                    /\ d1.state \in {"Powered", "Unattached"}
    BY <1>1, VbusChanges, Zenon
  <1> HIDE DEF d1
  <1>3. /\ d2 \in Dev /\ SameRequest(d1, d2) /\ d2.pending = d1.pending
        /\ ~Raised(d1, "SUSPI") => d2 = d1
        /\ Raised(d1, "SUSPI") => /\ d2.enabled = (d1.enabled \ {"SUSPI"}) \cup {"WAKEUPI"}
                                  /\ d2.frozen /\ d2.state = "Suspended"
    BY <1>2, SuspendChanges, Zenon
  <1> HIDE DEF d2
  <1>4. /\ d3 \in Dev /\ SameRequest(d2, d3)
        /\ ~Raised(d2, "WAKEUPI") => d3 = d2
        /\ Raised(d2, "WAKEUPI") =>
              /\ d3.pending = d2.pending \ {"WAKEUPI"}
              /\ d3.enabled = (d2.enabled \ {"WAKEUPI"}) \cup {"SUSPI"}
              /\ ~d3.frozen /\ d3.state # "Suspended"
    BY <1>3, WakeupChanges, Zenon
  <1> HIDE DEF d3
  <1>5. dev' = ResetBranch(d3)
    BY Zenon DEF Interrupt, d1, d2, d3
  <1>6. /\ dev' \in Dev /\ dev'.addr = d3.addr /\ dev'.adden = d3.adden /\ dev'.frozen = d3.frozen
        /\ ~Raised(d3, "EORSTI") => dev' = d3
        /\ Raised(d3, "EORSTI") =>
              /\ dev'.pending = d3.pending \ {"EORSTI", "SUSPI"}
              /\ dev'.enabled = (d3.enabled \ {"SUSPI"}) \cup {"WAKEUPI"}
              /\ dev'.state = "Default" /\ dev'.config = 0
              /\ dev'.uenum = ControlEp /\ ~dev'.setup
              /\ dev'.alloc = d3.alloc \cup {ControlEp} /\ dev'.stalled \subseteq d3.stalled
    BY <1>4, <1>5, ResetChanges, Zenon
  <1>7. /\ {"VBUSTI", "EORSTI"} \subseteq d3.enabled
        /\ d3.enabled \cap {"SUSPI", "WAKEUPI"} # {}
        /\ d3.pending \subseteq dev.pending \ {"VBUSTI"}
        /\ "EORSTI" \in d3.pending <=> "EORSTI" \in dev.pending
    BY <1>1, <1>2, <1>3, <1>4, Zenon DEF Registers, Raised
  <1>8. /\ d2.frozen => "WAKEUPI" \in d2.enabled
        /\ d2.frozen => dev.frozen \/ "SUSPI" \in dev.pending
        /\ d2.state = "Suspended" => d2.frozen
        /\ "WAKEUPI" \in dev.pending <=> "WAKEUPI" \in d2.pending
    BY <1>1, <1>2, <1>3, Zenon DEF Registers, Raised
  <1>9. /\ d3.frozen => "WAKEUPI" \in d3.enabled
        /\ d3.frozen => (dev.frozen /\ "WAKEUPI" \notin dev.pending) \/ "SUSPI" \in dev.pending
        /\ d3.state = "Suspended" => d3.frozen
    BY <1>4, <1>8, Zenon DEF Raised
  <1>10. SameBanks(dev, d3) /\ d3.uenum = dev.uenum /\ d3.config = dev.config
         /\ d3.addr = dev.addr /\ d3.adden = dev.adden
    BY <1>2, <1>3, <1>4, Zenon DEF SameRequest, SameBanks
  <1>11. Raised(d3, "EORSTI") <=> "EORSTI" \in dev.pending
    BY <1>7, Zenon DEF Raised
  <1>12. dev'.pending \subseteq dev.pending \ {"VBUSTI", "EORSTI"}
    BY <1>6, <1>7, <1>11, Zenon
  <1>13. Registers'
    <2>1. "SUSPI" \notin dev'.pending \/ "WAKEUPI" \notin dev'.pending
      BY <1>1, <1>12, Zenon DEF Registers
    <2>2. dev'.setup => ControlEp \notin dev'.out
      BY <1>1, <1>6, <1>10, Zenon DEF Registers, SameBanks
    <2>3. /\ {"VBUSTI", "EORSTI"} \subseteq dev'.enabled
          /\ dev'.enabled \cap {"SUSPI", "WAKEUPI"} # {}
          /\ dev'.frozen => "WAKEUPI" \in dev'.enabled
          /\ dev'.state = "Suspended" => dev'.frozen
      BY <1>6, <1>7, <1>9, Zenon
    <2> QED BY <2>1, <2>2, <2>3, Zenon DEF Registers
  <1>14. "EORSTI" \notin dev.pending =>
            /\ SameBanks(dev, dev') /\ dev'.uenum = dev.uenum /\ dev'.config = dev.config
    BY <1>6, <1>10, <1>11, Zenon
  <1>15. "EORSTI" \in dev.pending =>
               /\ dev'.uenum = ControlEp /\ dev'.config = 0 /\ dev'.state = "Default"
               /\ ~dev'.setup /\ dev'.alloc = dev.alloc \cup {ControlEp}
               /\ dev'.stalled \subseteq dev.stalled
    BY <1>6, <1>10, <1>11, Zenon DEF SameBanks
  <1> QED BY <1>6, <1>9, <1>10, <1>12, <1>13, <1>14, <1>15, Zenon

(* Which state it leaves when no reset has ended. *)
LEMMA InterruptState ==
  ASSUME DriverInv, Interrupt, "EORSTI" \notin dev.pending
  PROVE  /\ dev'.state = "Configured" => dev.state = "Configured" \/ dev.config # 0
         /\ dev.config # 0 /\ bus.reset /\ dev.state \in {"Configured", "Suspended"} =>
               dev'.state \in {"Configured", "Suspended"}
         /\ bus.reset /\ dev.state # "Unattached" => dev'.state # "Unattached"
         /\ bus.suspended => IF "SUSPI" \in dev.pending \cap dev.enabled
                             THEN dev'.state = "Suspended" ELSE dev'.state = dev.state
         /\ ~bus.vbus /\ dev.pending \cap dev.enabled \subseteq {"VBUSTI"} =>
               dev'.state = "Unattached" /\ dev'.enabled = dev.enabled
  <1> DEFINE d1 == VbusBranch(dev)
             d2 == SuspendBranch(d1)
             d3 == WakeupBranch(d2)
  <1>1. dev \in Dev /\ bus \in Bus /\ Registers /\ HostInv
    BY Zenon DEF DriverInv, TypeOK
  <1>2. /\ d1 \in Dev /\ SameRequest(dev, d1) /\ d1.enabled = dev.enabled
        /\ ~Raised(dev, "VBUSTI") => d1 = dev
        /\ Raised(dev, "VBUSTI") =>
              /\ d1.pending = dev.pending \ {"VBUSTI"}
              /\ d1.state = IF bus.vbus THEN "Powered" ELSE "Unattached"
    BY <1>1, VbusChanges, Zenon
  <1> HIDE DEF d1
  <1>3. /\ d2 \in Dev /\ SameRequest(d1, d2) /\ d2.pending = d1.pending
        /\ ~Raised(d1, "SUSPI") => d2 = d1
        /\ Raised(d1, "SUSPI") => d2.state = "Suspended"
    BY <1>2, SuspendChanges, Zenon
  <1> HIDE DEF d2
  <1>4. /\ ~Raised(d2, "WAKEUPI") => d3 = d2
        /\ d3 \in Dev /\ SameRequest(d2, d3) /\ d3.pending \subseteq d2.pending
        /\ Raised(d2, "WAKEUPI") =>
              d3.state = IF d2.config # 0 THEN "Configured"
                         ELSE IF d2.adden THEN "Addressed" ELSE "Powered"
    BY <1>3, WakeupChanges, Zenon
  <1> HIDE DEF d3
  <1>5. dev' = ResetBranch(d3)
    BY Zenon DEF Interrupt, d1, d2, d3
  <1>6. dev' = d3
    <2>1. "EORSTI" \notin d3.pending
      BY <1>2, <1>3, <1>4, Zenon
    <2> QED BY <1>4, <1>5, <2>1, ResetChanges, Zenon DEF Raised
  <1>7. d1.config = dev.config /\ d2.config = dev.config
    BY <1>2, <1>3, Zenon DEF SameRequest
  <1>8. bus.reset => d1 = dev
    BY <1>1, <1>2, Zenon DEF HostInv, Raised
  <1>9. dev'.state = "Configured" => dev.state = "Configured" \/ dev.config # 0
    BY <1>2, <1>3, <1>4, <1>6, <1>7, Zenon
  <1>10. dev.config # 0 /\ bus.reset /\ dev.state \in {"Configured", "Suspended"} =>
               dev'.state \in {"Configured", "Suspended"}
    BY <1>3, <1>4, <1>6, <1>7, <1>8, Zenon
  <1>11. bus.reset /\ dev.state # "Unattached" => dev'.state # "Unattached"
    BY <1>3, <1>4, <1>6, <1>7, <1>8, Zenon
  <1>12. bus.suspended => IF "SUSPI" \in dev.pending \cap dev.enabled
                          THEN dev'.state = "Suspended" ELSE dev'.state = dev.state
    <2>1. bus.suspended => bus.reset /\ "WAKEUPI" \notin dev.pending
      BY <1>1, Zenon DEF HostInv
    <2>2. bus.suspended => d3 = d2
      BY <1>3, <1>4, <1>8, <2>1, Zenon DEF Raised
    <2> QED BY <1>3, <1>6, <1>8, <2>1, <2>2, Zenon DEF Raised
  <1>13. ~bus.vbus /\ dev.pending \cap dev.enabled \subseteq {"VBUSTI"} =>
               dev'.state = "Unattached" /\ dev'.enabled = dev.enabled
    <2> SUFFICES ASSUME ~bus.vbus, dev.pending \cap dev.enabled \subseteq {"VBUSTI"}
                 PROVE  dev'.state = "Unattached" /\ dev'.enabled = dev.enabled
      BY Zenon
    <2>1. Raised(dev, "VBUSTI")
      BY Zenon DEF Interrupt, Raised
    <2>2. d2 = d1
      BY <1>2, <1>3, <2>1, Zenon DEF Raised
    <2>3. d3 = d2
      BY <1>2, <1>4, <2>1, <2>2, Zenon DEF Raised
    <2> QED BY <1>2, <1>6, <2>1, <2>2, <2>3, Zenon
  <1> QED BY <1>9, <1>10, <1>11, <1>12, <1>13, Zenon

(* A step of the interrupt routine.  The end of a reset thaws the clock, for
   the wake-up of the bus came before it. *)
LEMMA InterruptKeeps ==
  ASSUME DriverInv, CleanInv, Interrupt PROVE DriverInv' /\ CleanInv'
  <1>1. /\ UNCHANGED <<pc, request, prev, Length, handled, bus, count>>
        /\ trouble' = (trouble \/ (Raised(dev, "EORSTI") /\ pc \in HidPc \cup RequestPc))
    BY Zenon DEF Interrupt
  <1>2. dev' \in Dev /\ dev'.addr = dev.addr /\ dev'.adden = dev.adden
        /\ dev'.pending \subseteq dev.pending \ {"VBUSTI", "EORSTI"}
    BY InterruptChanges, Zenon
  <1>3. "EORSTI" \notin dev.pending =>
           SameBanks(dev, dev') /\ dev'.uenum = dev.uenum /\ dev'.config = dev.config
    BY InterruptChanges, Zenon
  <1>4. "EORSTI" \in dev.pending =>
           /\ dev'.uenum = ControlEp /\ dev'.config = 0 /\ dev'.state = "Default" /\ ~dev'.setup
           /\ dev'.alloc = dev.alloc \cup {ControlEp} /\ dev'.stalled \subseteq dev.stalled
    BY InterruptChanges, Zenon
  <1>5. dev'.setup => dev.setup
    BY <1>3, <1>4, Zenon DEF SameBanks
  <1>6. TypeOK'
    BY <1>1, <1>2, Zenon DEF DriverInv, TypeOK
  <1>7. RequestAt' /\ Answered'
    BY <1>1, <1>5 DEF DriverInv, RequestAt, Answered
  <1>8. Selected'
    BY <1>1, <1>3, <1>4, Zenon DEF DriverInv, Selected
  <1>9. Allocated'
    <2>1. CASE "EORSTI" \in dev.pending
      BY <1>1, <1>4, <2>1, Zenon DEF DriverInv, Allocated
    <2>2. CASE "EORSTI" \notin dev.pending
      BY <1>1, <1>3, <2>2, InterruptState, Zenon DEF DriverInv, Allocated, Configures, SameBanks
    <2> QED BY <2>1, <2>2, Zenon
  <1>10. Registers'
    BY InterruptChanges, Zenon
  <1>11. HostInv'
    BY <1>1, <1>2, Zenon DEF DriverInv, HostInv
  <1>12. ASSUME ~trouble' PROVE Apart' /\ Serving' /\ Addressing' /\ Configuring' /\ Awake'
    <2>1. ~trouble /\ Apart /\ Serving /\ Addressing /\ Configuring /\ Awake
      BY <1>1, <1>12, Zenon DEF CleanInv
    <2>2. "EORSTI" \in dev.pending => pc \notin HidPc \cup RequestPc
      BY <1>1, <1>12, Zenon DEF Raised, DriverInv, Registers
    <2>3. InRequest' => InRequest
      BY <1>1, <1>5, Zenon DEF InRequest
    <2>4. Apart'
      <3>1. ASSUME ~bus.vbus PROVE dev'.state = "Unattached" /\ dev'.enabled = dev.enabled
                                   /\ dev.pending \cap dev.enabled \subseteq {"VBUSTI"}
        <4>1. dev.pending \cap dev.enabled \subseteq {"VBUSTI"} /\ "EORSTI" \notin dev.pending
          BY <2>1, <3>1 DEF Apart, DriverInv, Registers
        <4> QED BY <3>1, <4>1, InterruptState, Zenon
      <3> QED BY <1>1, <1>2, <2>1, <2>3, <3>1, Zenon DEF Apart
    <2>5. "EORSTI" \in dev.pending => ~Begins /\ ~EndsWithIn /\ pc # "addressWait"
      BY <2>2, Zenon DEF Begins, EndsWithIn, RequestPc
    <2>6. (Begins' <=> Begins) /\ (EndsWithIn' <=> EndsWithIn)
      BY <1>1, Zenon DEF Begins, EndsWithIn
    <2>7. Serving'
      <3>1. /\ InRequest' => bus'.reset /\ "EORSTI" \notin dev'.pending
            /\ InRequest' \/ bus'.phase # "none" => ~bus'.suspended
        BY <1>1, <1>2, <2>1, <2>3, Zenon DEF Serving
      <3>2. CASE "EORSTI" \in dev.pending
        BY <1>1, <1>4, <2>2, <2>5, <2>6, <3>1, <3>2, Zenon DEF Serving, HidPc, RequestPc
      <3>3. CASE "EORSTI" \notin dev.pending
        BY <1>1, <1>3, <2>1, <2>6, <3>1, <3>3, Zenon DEF Serving, SameBanks
      <3> QED BY <3>2, <3>3, Zenon
    <2>8. "EORSTI" \in dev.pending => bus.phase = "none" /\ bus.addr = 0 /\ bus.config = 0
      BY DEF DriverInv, HostInv, TypeOK, Bus
    <2>9. /\ Awaits({SetAddress1})' <=> Awaits({SetAddress1})
          /\ Awaits(Configurations)' <=> Awaits(Configurations)
      <3>1. CASE "EORSTI" \in dev.pending
        BY <1>1, <2>8, <3>1, Zenon DEF Awaits
      <3>2. CASE "EORSTI" \notin dev.pending
        BY <1>1, <1>3, <3>2, Zenon DEF Awaits, SameBanks
      <3> QED BY <3>1, <3>2, Zenon
    <2>10. Addressing'
      <3>1. CASE "EORSTI" \in dev.pending
        BY <1>1, <1>2, <1>4, <2>1, <2>2, <2>9, <3>1, Zenon DEF Addressing, RequestPc
      <3>2. CASE "EORSTI" \notin dev.pending
        BY <1>1, <1>2, <1>3, <2>1, <2>9, <3>2, Zenon DEF Addressing, SameBanks
      <3> QED BY <3>1, <3>2, Zenon
    <2>11. Configuring'
      <3>1. CASE "EORSTI" \in dev.pending
        <4>1. ~Awaits(Configurations)'
          BY <1>1, <2>8, <3>1, Zenon DEF Awaits
        <4> QED BY <1>1, <1>4, <2>8, <3>1, <4>1, Zenon DEF Configuring
      <3>2. CASE "EORSTI" \notin dev.pending
        BY <1>1, <1>3, <2>1, <2>9, <3>2, InterruptState, Zenon DEF Configuring
      <3> QED BY <3>1, <3>2, Zenon
    <2>12. Awake'
      <3>1. dev'.frozen =>
               (dev.frozen /\ "WAKEUPI" \notin dev.pending) \/ "SUSPI" \in dev.pending
        BY InterruptChanges, Zenon
      <3>2. bus.reset /\ ~bus.suspended => ~dev'.frozen
        <4>1. bus.reset /\ ~bus.suspended => "SUSPI" \notin dev.pending
          BY Zenon DEF DriverInv, HostInv
        <4>2. bus.reset /\ ~bus.suspended /\ dev.frozen => "WAKEUPI" \in dev.pending
          BY <2>1, Zenon DEF Awake, DriverInv, HostInv
        <4> QED BY <3>1, <4>1, <4>2, Zenon
      <3>3. InRequest \/ bus.phase # "none" => bus.reset /\ ~bus.suspended
        BY <2>1, Zenon DEF Serving, DriverInv, HostInv
      <3>4. bus.reset => dev'.state # "Unattached"
        <4>1. CASE "EORSTI" \in dev.pending
          BY <1>4, <4>1, Zenon
        <4>2. CASE "EORSTI" \notin dev.pending
          BY <2>1, <4>2, InterruptState, Zenon DEF Awake
        <4> QED BY <4>1, <4>2, Zenon
      <3>5. bus.suspended => dev'.state = "Suspended"
        <4>1. bus.suspended => bus.reset /\ "EORSTI" \notin dev.pending
          BY Zenon DEF DriverInv, HostInv
        <4> QED BY <2>1, <4>1, InterruptState, Zenon DEF Awake
      <3> QED BY <1>1, <2>3, <3>2, <3>3, <3>4, <3>5, Zenon DEF Awake
    <2> QED BY <2>4, <2>7, <2>10, <2>11, <2>12, Zenon
  <1> QED BY <1>6, <1>7, <1>8, <1>9, <1>10, <1>11, <1>12, Zenon DEF DriverInv, CleanInv

-----------------------------------------------------------------------------
(* The host and the controller hardware.                                    *)

(* Their steps leave the driver, and most of the registers, where they are. *)
HostStep ==
    /\ Host /\ dev' \in Dev /\ bus' \in Bus /\ count' \in Nat /\ trouble' \in BOOLEAN
    /\ dev'.state = dev.state /\ dev'.config = dev.config /\ dev'.addr = dev.addr
    /\ dev'.enabled = dev.enabled /\ dev'.frozen = dev.frozen
    /\ dev'.uenum = dev.uenum /\ dev'.alloc = dev.alloc /\ dev'.stalled \subseteq dev.stalled

LEMMA HostKeeps ==
  ASSUME DriverInv, CleanInv, HostStep, dev'.setup => bus'.header \in AllRequests,
         Answered', Registers', HostInv',
         ~trouble' => Apart' /\ Serving' /\ Addressing' /\ Configuring' /\ Awake'
  PROVE  DriverInv' /\ CleanInv'
  <1>1. UNCHANGED <<pc, request, prev, Length, handled>>
    BY Zenon DEF HostStep, Host
  <1>2. TypeOK'
    BY <1>1, Zenon DEF DriverInv, TypeOK, HostStep
  <1>3. RequestAt'
    BY <1>1, Zenon DEF DriverInv, RequestAt
  <1>4. Selected'
    BY <1>1, Zenon DEF DriverInv, Selected, HostStep
  <1>5. Allocated'
    BY <1>1, Zenon DEF DriverInv, Allocated, Configures, HostStep
  <1> QED BY <1>2, <1>3, <1>4, <1>5, Zenon DEF DriverInv, CleanInv

(* What of the invariant is about the driver alone. *)
LEMMA HostSame ==
  ASSUME Host
  PROVE  /\ pc' = pc /\ request' = request /\ (Begins' <=> Begins) /\ (EndsWithIn' <=> EndsWithIn)
         /\ InRequest' <=> pc \in RequestPc \/ dev'.setup
  BY Zenon DEF Host, Begins, EndsWithIn, InRequest

(* VBUS rises or falls. *)
LEMMA PlugKeeps ==
  ASSUME DriverInv, CleanInv, Plug PROVE DriverInv' /\ CleanInv'
  <1> DEFINE d == [dev EXCEPT !.pending = dev.pending \cup {"VBUSTI"}]
             b == [bus EXCEPT !.vbus = ~bus.vbus, !.reset = FALSE, !.suspended = FALSE,
                              !.addr = 0, !.config = 0, !.phase = "none"]
  <1>1. /\ dev' = d /\ bus' = b /\ count' = count + 1 /\ Host
        /\ trouble' = (trouble \/ InRequest \/ dev.pending \cap dev.enabled # {})
    BY Zenon DEF Plug
  <1>2. dev \in Dev /\ bus \in Bus /\ count \in Nat /\ trouble \in BOOLEAN
    BY Zenon DEF DriverInv, TypeOK
  <1>3. /\ d \in Dev /\ d.state = dev.state /\ d.config = dev.config /\ d.addr = dev.addr
        /\ d.enabled = dev.enabled /\ d.frozen = dev.frozen /\ d.uenum = dev.uenum
        /\ SameBanks(dev, d) /\ d.pending = dev.pending \cup {"VBUSTI"}
    <2>1. dev.pending \cup {"VBUSTI"} \in SUBSET Interrupts
      BY <1>2, Zenon DEF Dev, Interrupts
    <2>2. d \in Dev
      BY <1>2, <2>1, Zenon DEF Dev
    <2>3. /\ d.state = dev.state /\ d.config = dev.config /\ d.addr = dev.addr
          /\ d.enabled = dev.enabled /\ d.frozen = dev.frozen /\ d.uenum = dev.uenum
          /\ d.pending = dev.pending \cup {"VBUSTI"}
      BY <1>2, Zenon DEF Dev
    <2>4. SameBanks(dev, d)
      BY <1>2, Zenon DEF Dev, SameBanks
    <2> HIDE DEF d
    <2> QED BY <2>2, <2>3, <2>4, Zenon
  <1>4. b \in Bus
    <2>1. 0 \in 0 .. 1 /\ "none" \in {"none", "dataIn", "dataOut", "statusIn", "statusOut"}
      OBVIOUS
    <2> DEFINE c == [bus EXCEPT !.addr = 0, !.config = 0, !.phase = "none"]
    <2>2. c \in Bus
      BY <1>2, <2>1, Zenon DEF Bus
    <2>3. b = [c EXCEPT !.vbus = ~bus.vbus, !.reset = FALSE, !.suspended = FALSE]
      BY <1>2, Zenon DEF Bus
    <2> HIDE DEF c, b
    <2> QED BY <1>2, <2>2, <2>3, Zenon DEF Bus
  <1>5. /\ b.vbus = ~bus.vbus /\ ~b.reset /\ ~b.suspended /\ b.addr = 0 /\ b.config = 0
        /\ b.phase = "none" /\ b.header = bus.header /\ b.unread = bus.unread
    BY <1>2, Zenon DEF Bus
  <1> HIDE DEF d, b
  <1>6. trouble' \in BOOLEAN
    BY <1>1, Zenon
  <1>7. HostStep
    BY <1>1, <1>2, <1>3, <1>4, <1>6 DEF HostStep, SameBanks
  <1>8. /\ dev'.setup => bus'.header \in AllRequests
        /\ Answered'
    BY <1>1, <1>3, <1>5, Zenon DEF DriverInv, RequestAt, Answered, Host, SameBanks
  <1>9. Registers'
    BY <1>1, <1>3, Zenon DEF DriverInv, Registers, SameBanks
  <1>10. HostInv'
    BY <1>1, <1>5 DEF HostInv
  <1>11. ASSUME ~trouble' PROVE Apart' /\ Serving' /\ Addressing' /\ Configuring' /\ Awake'
    <2>1. ~trouble /\ Serving /\ ~InRequest /\ dev.pending \cap dev.enabled = {}
      BY <1>1, <1>11, Zenon DEF CleanInv
    <2>2. pc \notin RequestPc /\ ~dev'.setup
      BY <1>1, <1>3, <2>1, Zenon DEF InRequest, SameBanks
    <2>3. ~InRequest' /\ ~Begins' /\ ~EndsWithIn' /\ pc' = pc
      BY <1>1, <2>2, Zenon DEF InRequest, Begins, EndsWithIn, Host, RequestPc
    <2>4. Apart'
      BY <1>1, <1>3, <2>1, <2>3, Zenon DEF Apart
    <2>5. Serving'
      BY <1>1, <1>3, <1>5, <2>1, <2>2, <2>3, Zenon DEF Serving, RequestPc
    <2>6. Addressing'
      BY <1>1, <1>5, <2>2, <2>3, Zenon DEF Addressing, Awaits, RequestPc
    <2>7. Configuring' /\ Awake'
      BY <1>1, <1>5, Zenon DEF Configuring, Awake
    <2> QED BY <2>4, <2>5, <2>6, <2>7, Zenon
  <1> QED BY <1>7, <1>8, <1>9, <1>10, <1>11, HostKeeps, Zenon

(* The host resets the bus. *)
LEMMA ResetKeeps ==
  ASSUME DriverInv, CleanInv, BusReset PROVE DriverInv' /\ CleanInv'
  <1> DEFINE d == [dev EXCEPT !.pending = ((dev.pending \ {"SUSPI"}) \cup {"WAKEUPI"})
                                             \cup {"EORSTI"},
                              !.adden = FALSE, !.setup = FALSE,
                              !.in = dev.in \cup {ControlEp}, !.out = dev.out \ {ControlEp}]
             b == [bus EXCEPT !.reset = TRUE, !.suspended = FALSE, !.addr = 0,
                              !.config = 0, !.phase = "none"]
  <1>1. /\ bus' = b /\ count' = count + 1 /\ Host
        /\ trouble' = (InRequest \/ (trouble /\ pc \in HidPc))
        /\ bus.vbus /\ "VBUSTI" \notin dev.pending
    BY Zenon DEF BusReset
  <1>2. dev \in Dev /\ bus \in Bus /\ count \in Nat /\ trouble \in BOOLEAN
    BY Zenon DEF DriverInv, TypeOK
  <1>3. dev' = d
    <2>1. ~(dev.frozen /\ "WAKEUPI" \notin dev.enabled)
      BY Zenon DEF DriverInv, Registers
    <2>2. dev' = [[RaiseWakeup(dev) EXCEPT !.adden = FALSE, !.setup = FALSE,
                      !.in = @ \cup {ControlEp}, !.out = @ \ {ControlEp}]
                    EXCEPT !.pending = @ \cup {"EORSTI"}]
      BY <2>1, Zenon DEF BusReset
    <2> QED BY <1>2, <2>2, Zenon DEF RaiseWakeup, Dev
  <1>4. /\ d \in Dev /\ d.state = dev.state /\ d.config = dev.config /\ d.addr = dev.addr
        /\ d.enabled = dev.enabled /\ d.frozen = dev.frozen /\ d.uenum = dev.uenum
        /\ d.alloc = dev.alloc /\ d.stalled = dev.stalled
        /\ d.pending = (dev.pending \ {"SUSPI"}) \cup {"WAKEUPI", "EORSTI"}
        /\ ~d.adden /\ ~d.setup
    <2>1. ((dev.pending \ {"SUSPI"}) \cup {"WAKEUPI"}) \cup {"EORSTI"} \in SUBSET Interrupts
      BY <1>2, Zenon DEF Dev, Interrupts
    <2>2. d \in Dev
      BY <1>2, <2>1, Zenon DEF Dev
    <2>3. /\ d.state = dev.state /\ d.config = dev.config /\ d.addr = dev.addr
          /\ d.enabled = dev.enabled /\ d.frozen = dev.frozen /\ d.uenum = dev.uenum
          /\ d.alloc = dev.alloc /\ d.stalled = dev.stalled /\ ~d.adden /\ ~d.setup
      BY <1>2, Zenon DEF Dev
    <2>4. d.pending = (dev.pending \ {"SUSPI"}) \cup {"WAKEUPI", "EORSTI"}
      BY <1>2, Zenon DEF Dev
    <2> HIDE DEF d
    <2> QED BY <2>2, <2>3, <2>4, Zenon
  <1>5. b \in Bus
    <2>1. 0 \in 0 .. 1 /\ "none" \in {"none", "dataIn", "dataOut", "statusIn", "statusOut"}
      OBVIOUS
    <2> DEFINE c == [bus EXCEPT !.addr = 0, !.config = 0, !.phase = "none"]
    <2>2. c \in Bus
      BY <1>2, <2>1, Zenon DEF Bus
    <2>3. b = [c EXCEPT !.reset = TRUE, !.suspended = FALSE]
      BY <1>2, Zenon DEF Bus
    <2> HIDE DEF c, b
    <2> QED BY <1>2, <2>2, <2>3, Zenon DEF Bus
  <1>6. /\ b.vbus = bus.vbus /\ b.reset /\ ~b.suspended /\ b.addr = 0 /\ b.config = 0
        /\ b.phase = "none" /\ b.header = bus.header /\ b.unread = bus.unread
    BY <1>2, Zenon DEF Bus
  <1> HIDE DEF d, b
  <1>7. trouble' \in BOOLEAN
    BY <1>1, Zenon
  <1>8. HostStep
    BY <1>1, <1>2, <1>3, <1>4, <1>5, <1>7 DEF HostStep
  <1>9. ~dev'.setup /\ Answered'
    BY <1>3, <1>4, Zenon DEF Answered
  <1>10. Registers'
    BY <1>3, <1>4, Zenon DEF DriverInv, Registers
  <1>11. HostInv'
    BY <1>1, <1>3, <1>4, <1>6 DEF HostInv
  <1>12. ASSUME ~trouble' PROVE Apart' /\ Serving' /\ Addressing' /\ Configuring' /\ Awake'
    <2>1. ~InRequest /\ (pc \in HidPc => Serving)
      BY <1>1, <1>12, Zenon DEF CleanInv
    <2>2. pc \notin RequestPc
      BY <2>1, Zenon DEF InRequest
    <2>3. ~InRequest' /\ ~Begins' /\ ~EndsWithIn' /\ pc' = pc
      BY <1>1, <1>9, <2>2, Zenon DEF InRequest, Begins, EndsWithIn, Host, RequestPc
    <2>4. Apart'
      BY <1>1, <1>6, Zenon DEF Apart
    <2>5. Serving'
      BY <1>1, <1>3, <1>4, <1>6, <1>9, <2>1, <2>2, <2>3, Zenon DEF Serving, RequestPc, HidPc
    <2>6. Addressing'
      BY <1>1, <1>3, <1>4, <1>6, <2>2, <2>3 DEF Addressing, Awaits, RequestPc
    <2>7. Configuring' /\ Awake'
      <3>1. "EORSTI" \in dev'.pending
        BY <1>3, <1>4, Zenon
      <3> QED BY <3>1, Zenon DEF Configuring, Awake
    <2> QED BY <2>4, <2>5, <2>6, <2>7, Zenon
  <1> QED BY <1>8, <1>9, <1>10, <1>11, <1>12, HostKeeps, Zenon

(* The flags that a wake-up and a suspension raise. *)
LEMMA RaiseChanges ==
  ASSUME NEW d \in Dev, NEW i \in Interrupts, NEW j \in Interrupts,
         NEW e, e = [d EXCEPT !.pending = (d.pending \ {i}) \cup {j}]
  PROVE  /\ e \in Dev /\ SameBanks(d, e) /\ SameDevice(d, e) /\ e.uenum = d.uenum
         /\ e.enabled = d.enabled /\ e.frozen = d.frozen
         /\ e.pending = (d.pending \ {i}) \cup {j}
  BY Zenon DEF Dev, SameBanks, SameDevice

(* A step of the host that changes those flags only, and whether the bus is
   suspended. *)
LEMMA FlagsKeep ==
  ASSUME DriverInv, CleanInv, HostStep, SameBanks(dev, dev'), SameDevice(dev, dev'),
         trouble => trouble', Registers', HostInv',
         \A f \in {"vbus", "reset", "addr", "config", "phase", "header", "unread"} :
            bus'[f] = bus[f],
         "EORSTI" \in dev'.pending <=> "EORSTI" \in dev.pending,
         bus.vbus, ~trouble' /\ (InRequest \/ bus.phase # "none") => ~bus'.suspended,
         ~trouble' => Awake'
  PROVE  DriverInv' /\ CleanInv'
  <1>1. /\ bus'.vbus = bus.vbus /\ bus'.reset = bus.reset /\ bus'.addr = bus.addr
        /\ bus'.config = bus.config /\ bus'.phase = bus.phase /\ bus'.header = bus.header
        /\ bus'.unread = bus.unread
    BY Zenon
  <1>2. (dev'.setup => bus'.header \in AllRequests) /\ Answered'
    BY <1>1, Zenon DEF DriverInv, RequestAt, Answered, HostStep, Host, SameBanks
  <1>3. ASSUME ~trouble' PROVE Apart' /\ Serving' /\ Addressing' /\ Configuring'
    <2>1. ~trouble /\ Serving /\ Addressing /\ Configuring
      BY <1>3, Zenon DEF CleanInv
    <2>2. pc' = pc /\ request' = request /\ (Begins' <=> Begins) /\ (EndsWithIn' <=> EndsWithIn)
          /\ (InRequest' <=> InRequest)
      BY HostSame, Zenon DEF HostStep, SameBanks, InRequest
    <2>3. Apart'
      BY <1>1, Zenon DEF Apart
    <2>4. Serving'
      <3>1. InRequest' \/ bus'.phase # "none" => ~bus'.suspended
        BY <1>1, <1>3, <2>2, Zenon
      <3> QED BY <1>1, <2>1, <2>2, <3>1, Zenon DEF Serving, SameBanks, HostStep
    <2>5. /\ Awaits({SetAddress1})' <=> Awaits({SetAddress1})
          /\ Awaits(Configurations)' <=> Awaits(Configurations)
      BY <1>1, Zenon DEF Awaits, SameBanks
    <2>6. Addressing'
      BY <1>1, <2>1, <2>2, <2>5, Zenon DEF Addressing, SameBanks, SameDevice
    <2>7. Configuring'
      BY <1>1, <2>1, <2>2, <2>5, Zenon DEF Configuring, SameDevice
    <2> QED BY <2>3, <2>4, <2>6, <2>7, Zenon
  <1> QED BY <1>2, <1>3, HostKeeps, Zenon

LEMMA FrameKeeps ==
  ASSUME DriverInv, CleanInv, StartOfFrame PROVE DriverInv' /\ CleanInv'
  <1>1. /\ bus.vbus /\ ~bus.suspended /\ "EORSTI" \notin dev.pending
        /\ dev' = [dev EXCEPT !.pending = (dev.pending \ {"SUSPI"}) \cup {"WAKEUPI"}]
        /\ UNCHANGED <<bus, count, trouble>> /\ Host
    BY Zenon DEF StartOfFrame, RaiseWakeup
  <1>2. dev \in Dev /\ bus \in Bus /\ count \in Nat /\ trouble \in BOOLEAN
        /\ "SUSPI" \in Interrupts /\ "WAKEUPI" \in Interrupts
    BY Zenon DEF DriverInv, TypeOK, Interrupts
  <1>3. /\ dev' \in Dev /\ SameBanks(dev, dev') /\ SameDevice(dev, dev')
        /\ dev'.uenum = dev.uenum /\ dev'.enabled = dev.enabled /\ dev'.frozen = dev.frozen
        /\ dev'.pending = (dev.pending \ {"SUSPI"}) \cup {"WAKEUPI"}
    BY <1>1, <1>2, RaiseChanges
  <1>4. HostStep
    BY <1>1, <1>2, <1>3, Zenon DEF HostStep, SameBanks, SameDevice
  <1>5. Registers'
    BY <1>3, Zenon DEF DriverInv, Registers, SameBanks, SameDevice
  <1>6. HostInv'
    BY <1>1, <1>3, Zenon DEF DriverInv, HostInv
  <1>7. ~trouble => Awake'
    <2>1. InRequest' <=> InRequest
      BY <1>1, <1>3, Zenon DEF InRequest, Host, SameBanks
    <2> QED BY <1>1, <1>3, <2>1, Zenon DEF CleanInv, Awake, SameDevice
  <1> QED BY <1>1, <1>3, <1>4, <1>5, <1>6, <1>7, FlagsKeep, Zenon

LEMMA SuspendKeeps ==
  ASSUME DriverInv, CleanInv, Suspend PROVE DriverInv' /\ CleanInv'
  <1> DEFINE b == [bus EXCEPT !.suspended = TRUE]
  <1>1. /\ bus.reset /\ "WAKEUPI" \notin dev.enabled
        /\ dev.pending \cap dev.enabled = {}
        /\ dev' = [dev EXCEPT !.pending = (dev.pending \ {"WAKEUPI"}) \cup {"SUSPI"}]
        /\ bus' = b /\ count' = count + 1 /\ Host
        /\ trouble' = (trouble \/ InRequest \/ bus.phase # "none")
    BY Zenon DEF Suspend, RaiseSuspend
  <1>2. dev \in Dev /\ bus \in Bus /\ count \in Nat /\ trouble \in BOOLEAN
        /\ "SUSPI" \in Interrupts /\ "WAKEUPI" \in Interrupts
    BY Zenon DEF DriverInv, TypeOK, Interrupts
  <1>3. /\ dev' \in Dev /\ SameBanks(dev, dev') /\ SameDevice(dev, dev')
        /\ dev'.uenum = dev.uenum /\ dev'.enabled = dev.enabled /\ dev'.frozen = dev.frozen
        /\ dev'.pending = (dev.pending \ {"WAKEUPI"}) \cup {"SUSPI"}
    BY <1>1, <1>2, RaiseChanges
  <1>4. /\ b \in Bus /\ b.vbus = bus.vbus /\ b.reset = bus.reset /\ b.addr = bus.addr
        /\ b.config = bus.config /\ b.phase = bus.phase /\ b.header = bus.header
        /\ b.unread = bus.unread /\ b.suspended
    BY <1>2, Zenon DEF Bus
  <1> HIDE DEF b
  <1>5. HostStep
    BY <1>1, <1>2, <1>3, <1>4 DEF HostStep, SameBanks, SameDevice
  <1>6. Registers'
    BY <1>3, Zenon DEF DriverInv, Registers, SameBanks, SameDevice
  <1>7. "EORSTI" \notin dev.pending /\ "SUSPI" \in dev.enabled
    BY <1>1, Zenon DEF DriverInv, Registers
  <1>8. HostInv'
    BY <1>1, <1>3, <1>4, <1>7, Zenon DEF DriverInv, HostInv
  <1>9. ASSUME ~trouble' PROVE Awake'
    <2>1. ~trouble /\ ~InRequest /\ bus.phase = "none"
      BY <1>1, <1>9, Zenon
    <2>2. ~InRequest'
      BY <1>1, <1>3, <2>1, Zenon DEF InRequest, Host, SameBanks
    <2> QED BY <1>1, <1>3, <1>4, <1>7, <2>1, <2>2, Zenon DEF CleanInv, Awake, SameDevice
  <1>10. \A f \in {"vbus", "reset", "addr", "config", "phase", "header", "unread"} :
            bus'[f] = bus[f]
    BY <1>1, <1>4, Zenon
  <1>11. bus.vbus
    BY <1>1, Zenon DEF DriverInv, HostInv
  <1> QED BY <1>1, <1>3, <1>5, <1>6, <1>8, <1>9, <1>10, <1>11, FlagsKeep, Zenon

LEMMA ResumeKeeps ==
  ASSUME DriverInv, CleanInv, Resume PROVE DriverInv' /\ CleanInv'
  <1> DEFINE b == [bus EXCEPT !.suspended = FALSE]
  <1>1. /\ bus.suspended
        /\ dev' = [dev EXCEPT !.pending = (dev.pending \ {"SUSPI"}) \cup {"WAKEUPI"}]
        /\ bus' = b /\ UNCHANGED <<count, trouble>> /\ Host
    BY Zenon DEF Resume, RaiseWakeup
  <1>2. dev \in Dev /\ bus \in Bus /\ count \in Nat /\ trouble \in BOOLEAN
        /\ "SUSPI" \in Interrupts /\ "WAKEUPI" \in Interrupts
    BY Zenon DEF DriverInv, TypeOK, Interrupts
  <1>3. /\ dev' \in Dev /\ SameBanks(dev, dev') /\ SameDevice(dev, dev')
        /\ dev'.uenum = dev.uenum /\ dev'.enabled = dev.enabled /\ dev'.frozen = dev.frozen
        /\ dev'.pending = (dev.pending \ {"SUSPI"}) \cup {"WAKEUPI"}
    BY <1>1, <1>2, RaiseChanges
  <1>4. /\ b \in Bus /\ b.vbus = bus.vbus /\ b.reset = bus.reset /\ b.addr = bus.addr
        /\ b.config = bus.config /\ b.phase = bus.phase /\ b.header = bus.header
        /\ b.unread = bus.unread /\ ~b.suspended
    BY <1>2, Zenon DEF Bus
  <1> HIDE DEF b
  <1>5. HostStep
    BY <1>1, <1>2, <1>3, <1>4, Zenon DEF HostStep, SameBanks, SameDevice
  <1>6. Registers'
    BY <1>3, Zenon DEF DriverInv, Registers, SameBanks, SameDevice
  <1>7. bus.reset /\ bus.vbus /\ "EORSTI" \notin dev.pending
    BY <1>1, Zenon DEF DriverInv, HostInv
  <1>8. HostInv'
    BY <1>1, <1>3, <1>4, <1>7, Zenon DEF DriverInv, HostInv
  <1>9. ~trouble => Awake'
    <2>1. ~trouble => ~InRequest /\ bus.phase = "none"
      BY <1>1, Zenon DEF CleanInv, Serving
    <2>2. InRequest' <=> InRequest
      BY <1>1, <1>3, Zenon DEF InRequest, Host, SameBanks
    <2> QED BY <1>1, <1>3, <1>4, <1>7, <2>1, <2>2, Zenon DEF CleanInv, Awake, SameDevice
  <1>10. \A f \in {"vbus", "reset", "addr", "config", "phase", "header", "unread"} :
            bus'[f] = bus[f]
    BY <1>1, <1>4, Zenon
  <1> QED BY <1>1, <1>3, <1>4, <1>5, <1>6, <1>7, <1>8, <1>9, <1>10, FlagsKeep, Zenon

(* The host begins a request. *)
LEMMA SetupKeeps ==
  ASSUME DriverInv, CleanInv, NEW r \in Requests, HostSetup(r) PROVE DriverInv' /\ CleanInv'
  <1> DEFINE d == [dev EXCEPT !.pending = (dev.pending \ {"SUSPI"}) \cup {"WAKEUPI"},
                              !.setup = TRUE, !.in = dev.in \cup {ControlEp},
                              !.out = dev.out \ {ControlEp},
                              !.stalled = dev.stalled \ {ControlEp}]
             b == [bus EXCEPT !.header = r, !.unread = TRUE, !.phase = FirstPhase(r)]
  <1>1. /\ Hears /\ InOrder(r) /\ count' = count + 1 /\ Host
        /\ trouble' = (trouble \/ bus.phase # "none") /\ r \in AllRequests
        /\ bus' = b
    BY Zenon DEF HostSetup, FirstPhase
  <1>2. dev \in Dev /\ bus \in Bus /\ count \in Nat /\ trouble \in BOOLEAN
    BY Zenon DEF DriverInv, TypeOK
  <1>3. dev' = d
    BY <1>2, Zenon DEF HostSetup, RaiseWakeup, Dev
  <1>4. /\ d \in Dev /\ d.state = dev.state /\ d.config = dev.config /\ d.addr = dev.addr
        /\ d.adden = dev.adden
        /\ d.enabled = dev.enabled /\ d.frozen = dev.frozen /\ d.uenum = dev.uenum
        /\ d.alloc = dev.alloc /\ d.stalled = dev.stalled \ {ControlEp} /\ d.setup
        /\ d.in = dev.in \cup {ControlEp} /\ d.out = dev.out \ {ControlEp}
        /\ d.pending = (dev.pending \ {"SUSPI"}) \cup {"WAKEUPI"}
    <2>1. (dev.pending \ {"SUSPI"}) \cup {"WAKEUPI"} \in SUBSET Interrupts
      BY <1>2, Zenon DEF Dev, Interrupts
    <2>2. d \in Dev
      BY <1>2, <2>1, Zenon DEF Dev
    <2>3. /\ d.state = dev.state /\ d.config = dev.config /\ d.addr = dev.addr
          /\ d.adden = dev.adden
          /\ d.enabled = dev.enabled /\ d.frozen = dev.frozen /\ d.uenum = dev.uenum
          /\ d.alloc = dev.alloc /\ d.setup
      BY <1>2, Zenon DEF Dev
    <2>4. /\ d.stalled = dev.stalled \ {ControlEp}
          /\ d.in = dev.in \cup {ControlEp} /\ d.out = dev.out \ {ControlEp}
          /\ d.pending = (dev.pending \ {"SUSPI"}) \cup {"WAKEUPI"}
      BY <1>2, Zenon DEF Dev
    <2> HIDE DEF d
    <2> QED BY <2>2, <2>3, <2>4, Zenon
  <1>5. FirstPhase(r) \in {"dataIn", "dataOut", "statusIn"}
    BY Zenon DEF FirstPhase
  <1>6. /\ b \in Bus /\ b.vbus = bus.vbus /\ b.reset = bus.reset /\ b.addr = bus.addr
        /\ b.config = bus.config /\ b.phase = FirstPhase(r) /\ b.header = r
        /\ b.unread /\ b.suspended = bus.suspended
    BY <1>1, <1>2, <1>5, Zenon DEF Bus
  <1> HIDE DEF d, b
  <1>7. trouble' \in BOOLEAN
    BY <1>1, Zenon
  <1>8. HostStep
    <2>1. count' \in Nat
      BY <1>1, <1>2
    <2>2. dev'.stalled \subseteq dev.stalled
      BY <1>3, <1>4, Zenon
    <2> QED BY <1>1, <1>3, <1>4, <1>6, <1>7, <2>1, <2>2, Zenon DEF HostStep
  <1>9. bus'.header \in AllRequests /\ Answered'
    BY <1>1, <1>6, Zenon DEF Answered
  <1>10. Registers'
    BY <1>3, <1>4, Zenon DEF DriverInv, Registers
  <1>11. /\ bus.reset /\ ~bus.suspended /\ "EORSTI" \notin dev.pending /\ "VBUSTI" \notin dev.pending
         /\ bus.vbus /\ ~dev.frozen
    BY <1>1, Zenon DEF Hears, DriverInv, HostInv
  <1>12. HostInv'
    <2>1. /\ FirstPhase(r) \in {"dataIn", "statusOut"} => DeviceToHost(r)
          /\ FirstPhase(r) = "dataOut" => r = SetReport
      BY Zenon DEF FirstPhase
    <2>2. (r = SetAddress1 => bus.addr = 0) /\ (r \in Configurations => bus.addr = 1)
      <3>1. bus.addr \in {0, 1}
        BY <1>2 DEF Bus
      <3>2. r \in Configurations => r \notin {SetAddress1, GetStatus, GetDescriptor, GetNoDescriptor}
        BY Headers DEF Configurations
      <3> QED BY <1>1, <3>1, <3>2, Zenon DEF InOrder
    <2> QED BY <1>1, <1>3, <1>4, <1>6, <1>11, <2>1, <2>2, Zenon DEF DriverInv, HostInv
  <1>13. ASSUME ~trouble' PROVE Apart' /\ Serving' /\ Addressing' /\ Configuring' /\ Awake'
    <2>1. ~trouble /\ Serving /\ Addressing /\ Configuring /\ Awake /\ bus.phase = "none"
      BY <1>1, <1>13, Zenon DEF CleanInv
    <2>2. pc' = pc /\ request' = request /\ (Begins' <=> Begins) /\ (EndsWithIn' <=> EndsWithIn)
      BY <1>1, HostSame, Zenon
    <2>3. ~Begins /\ ~EndsWithIn /\ pc # "readStream"
      BY <2>1, Zenon DEF Serving, FirstPhase
    <2>4. pc # "addressWait"
      BY <1>1, <2>1 DEF Addressing, Hears, Awaits
    <2>5. ~Awaits({SetAddress1})' /\ ~Awaits(Configurations)' /\ ~Awaits(Configurations)
      BY <1>3, <1>4, <2>1, Zenon DEF Awaits
    <2>6. Apart'
      BY <1>1, <1>6, <1>11, Zenon DEF Apart
    <2>7. Serving'
      BY <1>1, <1>3, <1>4, <1>6, <1>11, <2>1, <2>2, <2>3, Zenon DEF Serving
    <2>8. Addressing'
      BY <1>1, <1>3, <1>4, <1>6, <2>1, <2>2, <2>4, <2>5, Zenon DEF Addressing
    <2>9. Configuring'
      BY <1>1, <1>3, <1>4, <1>6, <1>11, <2>1, <2>2, <2>5, Zenon DEF Configuring
    <2>10. Awake'
      BY <1>1, <1>3, <1>4, <1>6, <1>11, <2>1, Zenon DEF Awake
    <2> QED BY <2>6, <2>7, <2>8, <2>9, <2>10, Zenon
  <1> QED BY <1>8, <1>9, <1>10, <1>12, <1>13, HostKeeps, Zenon

(* A packet on the control endpoint.  What the host takes ends a request for
   both: it waits for the driver, which has sent that packet. *)
LEMMA PacketKeeps ==
  ASSUME DriverInv, CleanInv, NEW p, NEW q, NEW d, HostPacket(p, q, d),
         \/ p = "dataIn" /\ q \in {"dataIn", "statusOut"} /\ d = TakeIN
         \/ p = "statusOut" /\ q = "none" /\ d = PutOUT
         \/ p = "dataOut" /\ q = "statusIn" /\ d = PutOUT
         \/ p = "statusIn" /\ q = "none" /\ d = TakeIN /\ ControlEp \notin dev.in \cup dev.stalled
  PROVE  DriverInv' /\ CleanInv'
  <1> DEFINE a == IF p = "statusIn" /\ bus.header = SetAddress1
                  THEN bus.header.wValue ELSE bus.addr
             c == IF p = "statusIn" /\ bus.header \in Configurations
                  THEN bus.header.wValue ELSE bus.config
             b == [bus EXCEPT !.phase = q, !.addr = a, !.config = c]
  <1>1. /\ Hears /\ ~dev.setup /\ bus.phase = p /\ bus' = b /\ dev' = d
        /\ UNCHANGED <<count, trouble>> /\ Host
    BY Zenon DEF HostPacket, Configurations
  <1>2. dev \in Dev /\ bus \in Bus /\ count \in Nat /\ trouble \in BOOLEAN
    BY Zenon DEF DriverInv, TypeOK
  <1>3. /\ dev' \in Dev /\ dev'.state = dev.state /\ dev'.config = dev.config
        /\ dev'.addr = dev.addr /\ dev'.adden = dev.adden /\ dev'.pending = dev.pending
        /\ dev'.enabled = dev.enabled /\ dev'.frozen = dev.frozen /\ dev'.uenum = dev.uenum
        /\ dev'.alloc = dev.alloc /\ dev'.stalled = dev.stalled /\ dev'.setup = dev.setup
        /\ dev.in \subseteq dev'.in
    <2>1. CASE d = TakeIN
      <3>1. dev' = [dev EXCEPT !.in = dev.in \cup {ControlEp}]
        BY <1>1, <2>1, Zenon DEF TakeIN
      <3> QED BY <1>2, <3>1, Zenon DEF Dev
    <2>2. CASE d = PutOUT
      <3>1. dev' = [dev EXCEPT !.out = dev.out \cup {ControlEp}]
        BY <1>1, <2>2, Zenon DEF PutOUT
      <3> QED BY <1>2, <3>1, Zenon DEF Dev
    <2> QED BY <2>1, <2>2, Zenon
  <1>4. a \in 0 .. 1 /\ c \in 0 .. 1
    BY <1>2, Values DEF Bus, Configurations
  <1>5. p = "statusIn" =>
           /\ a = IF bus.header = SetAddress1 THEN 1 ELSE bus.addr
           /\ c = IF bus.header \in Configurations THEN bus.header.wValue ELSE bus.config
    BY Values, Zenon
  <1>6. p # "statusIn" => a = bus.addr /\ c = bus.config
    BY Zenon
  <1> HIDE DEF a, c
  <1>7. /\ b \in Bus /\ b.vbus = bus.vbus /\ b.reset = bus.reset /\ b.addr = a
        /\ b.config = c /\ b.phase = q /\ b.header = bus.header
        /\ b.unread = bus.unread /\ b.suspended = bus.suspended
    BY <1>2, <1>4, Zenon DEF Bus
  <1> HIDE DEF b
  <1>8. HostStep
    BY <1>1, <1>2, <1>3, <1>7, Zenon DEF HostStep
  <1>9. ~dev'.setup /\ Answered'
    BY <1>1, <1>3, Zenon DEF Answered
  <1>10. Registers'
    BY <1>3, <1>9, Zenon DEF DriverInv, Registers
  <1>11. /\ bus.reset /\ ~bus.suspended /\ "EORSTI" \notin dev.pending /\ "VBUSTI" \notin dev.pending
         /\ bus.vbus /\ ~dev.frozen /\ p # "none"
    BY <1>1, Zenon DEF Hears, DriverInv, HostInv
  <1>12. SetReport \notin Configurations \cup {SetAddress1}
    BY Headers, Zenon DEF Configurations
  <1>13. HostInv'
    <2>1. /\ q \in {"dataIn", "statusOut"} => DeviceToHost(bus.header)
          /\ q # "none" => p # "statusIn" /\ q # "dataOut"
      BY <1>1, Zenon DEF DriverInv, HostInv
    <2>2. a = 0 => c = 0
      <3>1. CASE p = "statusIn"
        <4>1. bus.header \in Configurations => bus.addr = 1 /\ bus.header # SetAddress1
          BY <1>1, <1>11, SetAddressApart, Zenon DEF DriverInv, HostInv
        <4>2. CASE bus.header \in Configurations
          <5>1. a = 1
            BY <1>5, <3>1, <4>1, <4>2, Zenon
          <5> QED BY <5>1
        <4>3. CASE bus.header \notin Configurations
          <5>1. c = bus.config /\ (a = bus.addr \/ a = 1)
            BY <1>5, <3>1, <4>3, Zenon
          <5>2. bus.addr = 0 => bus.config = 0
            BY Zenon DEF DriverInv, HostInv
          <5> QED BY <5>1, <5>2
        <4> QED BY <4>2, <4>3, Zenon
      <3>2. CASE p # "statusIn"
        BY <1>6, <3>2, Zenon DEF DriverInv, HostInv
      <3> QED BY <3>1, <3>2, Zenon
    <2>3. q # "none" /\ bus.header = SetAddress1 => a = 0
      BY <1>1, <1>6, <1>11, <2>1, Zenon DEF DriverInv, HostInv
    <2>4. q # "none" /\ bus.header \in Configurations => a = 1
      BY <1>1, <1>6, <1>11, <2>1, Zenon DEF DriverInv, HostInv
    <2> QED BY <1>1, <1>3, <1>7, <1>11, <2>1, <2>2, <2>3, <2>4, Zenon DEF DriverInv, HostInv
  <1>14. ASSUME ~trouble' PROVE Apart' /\ Serving' /\ Addressing' /\ Configuring' /\ Awake'
    <2>1. ~trouble /\ Serving /\ Addressing /\ Configuring /\ Awake
      BY <1>1, <1>14, Zenon DEF CleanInv
    <2>2. pc' = pc /\ request' = request /\ (Begins' <=> Begins) /\ (EndsWithIn' <=> EndsWithIn)
          /\ (InRequest' <=> InRequest)
      BY <1>1, <1>3, HostSame, Zenon DEF InRequest
    <2>3. ~EndsWithIn
      BY <1>1, <2>1, Zenon DEF Serving
    <2>4. pc = "readStream" => p = "dataOut"
      BY <1>1, <1>11, <2>1, Zenon DEF Serving
    <2>5. Apart'
      BY <1>1, <1>7, <1>11, Zenon DEF Apart
    <2>6. Serving'
      BY <1>1, <1>3, <1>7, <1>9, <1>11, <2>1, <2>2, <2>3, <2>4, Zenon DEF Serving
    <2>7. ~Awaits({SetAddress1})' /\ ~Awaits(Configurations)'
      <3>1. q = "statusIn" => bus.header = SetReport
        BY <1>1, Zenon DEF DriverInv, HostInv
      <3> QED BY <1>1, <1>7, <1>12, <3>1, Zenon DEF Awaits
    <2>8. /\ Awaits({SetAddress1}) <=> p = "statusIn" /\ bus.header = SetAddress1
          /\ Awaits(Configurations) <=> p = "statusIn" /\ bus.header \in Configurations
      BY <1>1, Zenon DEF Awaits
    <2>9. p = "statusIn" /\ bus.header = SetAddress1 =>
             pc = "addressWait" /\ request = SetAddress1 /\ dev.addr = 1
      <3>1. pc = "status" => request # SetAddress1
        BY <2>3, Headers, Zenon DEF EndsWithIn, DeviceToHost
      <3> QED BY <2>1, <2>8, <3>1, Zenon DEF Addressing, DriverInv, RequestAt
    <2>10. pc = "addressWait" => p = "statusIn" /\ bus.header = SetAddress1 /\ ~dev.adden
      BY <1>1, <1>11, <2>1, <2>8, Zenon DEF Addressing
    <2>11. Addressing'
      <3>1. pc = "addressWait" => a = 1 /\ q = "none"
        BY <1>5, <2>10, Zenon
      <3>2. a = 1 => dev.addr = 1 /\ (dev.adden \/ pc = "addressWait")
        <4>1. CASE p = "statusIn" /\ bus.header = SetAddress1
          BY <2>9, <4>1, Zenon
        <4>2. CASE ~(p = "statusIn" /\ bus.header = SetAddress1)
          BY <1>5, <1>6, <1>11, <2>1, <4>2, Zenon DEF Addressing
        <4> QED BY <4>1, <4>2, Zenon
      <3>3. a = 0 => ~dev.adden
        <4>1. a = 0 => bus.addr = 0
          BY <1>5, <1>6
        <4> QED BY <1>11, <2>1, <4>1, Zenon DEF Addressing
      <3> QED BY <1>1, <1>3, <1>7, <1>9, <2>1, <2>2, <2>7, <2>10, <3>1, <3>2, <3>3, Zenon
              DEF Addressing
    <2>12. Configuring'
      <3>1. dev.config = c
        BY <1>5, <1>6, <1>11, <2>1, <2>8, Zenon DEF Configuring
      <3> QED BY <1>1, <1>3, <1>7, <1>11, <2>1, <2>2, <2>7, <3>1, Zenon DEF Configuring
    <2>13. Awake'
      BY <1>1, <1>3, <1>7, <1>11, <2>1, <2>2, Zenon DEF Awake
    <2> QED BY <2>5, <2>6, <2>11, <2>12, <2>13, Zenon
  <1> QED BY <1>8, <1>9, <1>10, <1>13, <1>14, HostKeeps, Zenon

LEMMA ControlKeeps ==
  ASSUME DriverInv, CleanInv, HostControl PROVE DriverInv' /\ CleanInv'
  <1>1. CASE /\ ControlEp \notin dev.in \cup dev.stalled
             /\ \E p \in {"statusOut"} \cup (IF Length > 0 THEN {"dataIn"} ELSE {}) :
                   HostPacket("dataIn", p, TakeIN)
    <2>1. PICK p \in {"statusOut", "dataIn"} : HostPacket("dataIn", p, TakeIN)
      BY <1>1, Zenon
    <2> QED BY <2>1, PacketKeeps, Zenon
  <1>2. CASE HostPacket("statusOut", "none", PutOUT)
    BY <1>2, PacketKeeps, Zenon
  <1>3. CASE HostPacket("dataOut", "statusIn", PutOUT)
    BY <1>3, PacketKeeps, Zenon
  <1>4. CASE /\ ControlEp \notin dev.in \cup dev.stalled
             /\ HostPacket("statusIn", "none", TakeIN)
    BY <1>4, PacketKeeps, Zenon
  <1> QED BY <1>1, <1>2, <1>3, <1>4, Zenon DEF HostControl

(* The host sees a stalled request. *)
LEMMA StalledKeeps ==
  ASSUME DriverInv, CleanInv, HostStalled PROVE DriverInv' /\ CleanInv'
  <1> DEFINE b == [bus EXCEPT !.phase = "none"]
  <1>1. /\ bus' = b /\ dev' = dev /\ UNCHANGED <<count, trouble>> /\ Host
        /\ ~dev.setup /\ ControlEp \in dev.stalled /\ bus.phase # "none"
    BY Zenon DEF HostStalled
  <1>2. dev \in Dev /\ bus \in Bus /\ count \in Nat /\ trouble \in BOOLEAN
    BY Zenon DEF DriverInv, TypeOK
  <1>3. /\ b \in Bus /\ b.vbus = bus.vbus /\ b.reset = bus.reset /\ b.addr = bus.addr
        /\ b.config = bus.config /\ b.phase = "none" /\ b.header = bus.header
        /\ b.unread = bus.unread /\ b.suspended = bus.suspended
    BY <1>2, Zenon DEF Bus
  <1> HIDE DEF b
  <1>4. HostStep
    BY <1>1, <1>2, <1>3, Zenon DEF HostStep
  <1>5. ~dev'.setup /\ Answered'
    BY <1>1, Zenon DEF Answered
  <1>6. Registers'
    BY <1>1, Zenon DEF DriverInv, Registers
  <1>7. HostInv'
    BY <1>1, <1>3, Zenon DEF DriverInv, HostInv
  <1>8. ASSUME ~trouble' PROVE Apart' /\ Serving' /\ Addressing' /\ Configuring' /\ Awake'
    <2>1. ~trouble /\ Apart /\ Serving /\ Addressing /\ Configuring /\ Awake
      BY <1>1, <1>8, Zenon DEF CleanInv
    <2>2. pc' = pc /\ request' = request /\ (Begins' <=> Begins) /\ (EndsWithIn' <=> EndsWithIn)
          /\ (InRequest' <=> InRequest)
      BY <1>1, HostSame, Zenon DEF InRequest
    <2>3. /\ ~Awaits({SetAddress1})' /\ ~Awaits(Configurations)'
          /\ ~Awaits({SetAddress1}) /\ ~Awaits(Configurations)
      BY <1>1, Zenon DEF Awaits
    <2>4. Apart' /\ Awake'
      BY <1>1, <1>3, <2>1, <2>2, Zenon DEF Apart, Awake
    <2>5. Serving'
      BY <1>1, <1>3, <2>1, <2>2, Zenon DEF Serving
    <2>6. Addressing' /\ Configuring'
      BY <1>1, <1>3, <2>1, <2>2, <2>3, Zenon DEF Addressing, Configuring
    <2> QED BY <2>4, <2>5, <2>6, Zenon
  <1> QED BY <1>4, <1>5, <1>6, <1>7, <1>8, HostKeeps, Zenon

(* The host polls the joystick. *)
LEMMA PollKeeps ==
  ASSUME DriverInv, CleanInv, HostPoll PROVE DriverInv' /\ CleanInv'
  <1>1. /\ UNCHANGED <<bus, count, trouble>> /\ Host
        /\ \/ dev' = [dev EXCEPT !.in = dev.in \cup {InEp}]
           \/ dev' = [dev EXCEPT !.out = dev.out \cup {OutEp}]
    BY Zenon DEF HostPoll
  <1>2. dev \in Dev /\ bus \in Bus /\ count \in Nat /\ trouble \in BOOLEAN
    BY Zenon DEF DriverInv, TypeOK
  <1>3. ControlEp \notin {InEp, OutEp}
    BY DEF ControlEp, InEp, OutEp
  <1>4. /\ dev' \in Dev /\ SameInterrupts(dev, dev') /\ SameDevice(dev, dev')
        /\ dev'.uenum = dev.uenum /\ dev'.alloc = dev.alloc /\ dev'.stalled = dev.stalled
        /\ dev'.setup = dev.setup
        /\ (ControlEp \in dev'.in <=> ControlEp \in dev.in)
        /\ (ControlEp \in dev'.out <=> ControlEp \in dev.out)
    <2>1. CASE dev' = [dev EXCEPT !.in = dev.in \cup {InEp}]
      BY <1>2, <1>3, <2>1, Zenon DEF Dev, SameInterrupts, SameDevice
    <2>2. CASE dev' = [dev EXCEPT !.out = dev.out \cup {OutEp}]
      BY <1>2, <1>3, <2>2, Zenon DEF Dev, SameInterrupts, SameDevice
    <2> QED BY <1>1, <2>1, <2>2, Zenon
  <1>5. HostStep
    BY <1>1, <1>2, <1>4, Zenon DEF HostStep, SameInterrupts, SameDevice
  <1>6. (dev'.setup => bus'.header \in AllRequests) /\ Answered'
    BY <1>1, <1>4, Zenon DEF DriverInv, RequestAt, Answered, Host
  <1>7. Registers'
    BY <1>4, Zenon DEF DriverInv, Registers, SameInterrupts, SameDevice
  <1>8. HostInv'
    BY <1>1, <1>4, Zenon DEF DriverInv, HostInv, SameInterrupts
  <1>9. ASSUME ~trouble' PROVE Apart' /\ Serving' /\ Addressing' /\ Configuring' /\ Awake'
    <2>1. ~trouble /\ Apart /\ Serving /\ Addressing /\ Configuring /\ Awake
      BY <1>1, <1>9, Zenon DEF CleanInv
    <2>2. pc' = pc /\ request' = request /\ (Begins' <=> Begins) /\ (EndsWithIn' <=> EndsWithIn)
          /\ (InRequest' <=> InRequest)
      BY <1>1, <1>4, HostSame, Zenon DEF InRequest
    <2>3. /\ Awaits({SetAddress1})' <=> Awaits({SetAddress1})
          /\ Awaits(Configurations)' <=> Awaits(Configurations)
      BY <1>1, <1>4, Zenon DEF Awaits
    <2>4. Apart' /\ Awake'
      BY <1>1, <1>4, <2>1, <2>2, Zenon DEF Apart, Awake, SameInterrupts, SameDevice
    <2>5. Serving'
      BY <1>1, <1>4, <2>1, <2>2, Zenon DEF Serving, SameInterrupts
    <2>6. Addressing' /\ Configuring'
      BY <1>1, <1>4, <2>1, <2>2, <2>3, Zenon DEF Addressing, Configuring, SameInterrupts, SameDevice
    <2> QED BY <2>4, <2>5, <2>6, Zenon
  <1> QED BY <1>5, <1>6, <1>7, <1>8, <1>9, HostKeeps, Zenon

-----------------------------------------------------------------------------
(* USB_Init leaves the driver ready. *)
LEMMA InitDriver == Init => DriverInv /\ CleanInv
  <1> SUFFICES ASSUME Init PROVE DriverInv /\ CleanInv
    BY Zenon
  <1> DEFINE d == [state |-> "Unattached", config |-> 0, remote |-> FALSE,
                   pending |-> {}, enabled |-> {"VBUSTI", "SUSPI", "EORSTI"},
                   pll |-> FALSE, frozen |-> FALSE,
                   uenum |-> ControlEp, alloc |-> {}, stalled |-> {},
                   in |-> {}, out |-> {}, setup |-> FALSE,
                   addr |-> 0, adden |-> FALSE]
  <1>1. /\ pc = "receive" /\ dev = ConfigureEndpoint(d, ControlEp) /\ request = NoRequest
        /\ prev = ControlEp /\ Length = 0 /\ handled = 0 /\ count = 0 /\ trouble = FALSE
    BY Zenon DEF Init
  <1>2. /\ bus \in Bus /\ ~bus.vbus /\ ~bus.reset /\ ~bus.suspended /\ bus.addr = 0
        /\ bus.config = 0 /\ bus.phase = "none"
    BY DEF Init, Bus
  <1>3. d \in Dev
    <2>1. /\ "Unattached" \in States /\ ControlEp \in Endpoints /\ 0 \in 0 .. 1
          /\ {"VBUSTI", "SUSPI", "EORSTI"} \in SUBSET Interrupts
      BY DEF States, Interrupts, Endpoints
    <2> QED BY <2>1, Zenon DEF Dev
  <1>4. /\ d.state = "Unattached" /\ d.config = 0 /\ d.pending = {} /\ ~d.frozen
        /\ d.enabled = {"VBUSTI", "SUSPI", "EORSTI"} /\ d.alloc = {} /\ d.stalled = {}
    BY Zenon
  <1> HIDE DEF d
  <1>5. /\ dev \in Dev /\ dev.state = "Unattached" /\ dev.config = 0 /\ dev.pending = {}
        /\ ~dev.frozen /\ dev.enabled = {"VBUSTI", "SUSPI", "EORSTI"}
        /\ dev.alloc = {ControlEp} /\ dev.stalled = {} /\ ~dev.setup
    BY <1>1, <1>3, <1>4, RestartChanges DEF SameInterrupts, SameDevice
  <1>6. pc \notin RequestPc /\ pc \notin HidPc /\ pc \in Pc
    BY <1>1, Zenon DEF RequestPc, HidPc, Pc
  <1>7. TypeOK
    <2>1. request \in AllRequests \cup {NoRequest} /\ trouble \in BOOLEAN
      BY <1>1, Zenon
    <2>2. prev \in Endpoints /\ Length \in 0 .. 2 /\ handled \in Nat /\ count \in Nat
      BY <1>1 DEF Endpoints
    <2> QED BY <1>2, <1>5, <1>6, <2>1, <2>2, Zenon DEF TypeOK
  <1>8. RequestAt /\ Selected /\ Answered
    BY <1>1, <1>5, <1>6 DEF RequestAt, Selected, Answered, RequestPc
  <1>9. Allocated
    BY <1>5, <1>6, Zenon DEF Allocated
  <1>10. Registers /\ HostInv
    BY <1>2, <1>5, Zenon DEF Registers, HostInv
  <1>11. ~InRequest /\ ~Begins /\ ~EndsWithIn /\ \A R : ~Awaits(R)
    BY <1>1, <1>2, <1>5, <1>6, Zenon DEF InRequest, Begins, EndsWithIn, Awaits
  <1>12. Apart /\ Configuring /\ Awake
    BY <1>2, <1>5, <1>11, Zenon DEF Apart, Configuring, Awake
  <1>13. Serving /\ Addressing
    BY <1>1, <1>2, <1>5, <1>11, Zenon DEF Serving, Addressing
  <1> QED BY <1>7, <1>8, <1>9, <1>10, <1>12, <1>13, Zenon DEF DriverInv, CleanInv

(* Every step of the device or of the host preserves what the driver and, as
   long as nothing is cut short, the host rely on. *)
LEMMA StepKeeps == DriverInv /\ CleanInv /\ [Next]_vars => DriverInv' /\ CleanInv'
  <1> SUFFICES ASSUME DriverInv, CleanInv, [Next]_vars PROVE DriverInv' /\ CleanInv'
    BY Zenon
  <1>1. CASE Main
    BY <1>1, MainKeeps, Zenon
  <1>2. CASE Interrupt
    BY <1>2, InterruptKeeps, Zenon
  <1>3. CASE Plug \/ BusReset \/ StartOfFrame \/ Suspend \/ Resume
    BY <1>3, PlugKeeps, ResetKeeps, FrameKeeps, SuspendKeeps, ResumeKeeps, Zenon
  <1>4. CASE \E r \in Requests : HostSetup(r)
    BY <1>4, SetupKeeps, Zenon
  <1>5. CASE HostControl \/ HostStalled \/ HostPoll
    BY <1>5, ControlKeeps, StalledKeeps, PollKeeps, Zenon
  <1>6. CASE UNCHANGED vars
    <2>a. TypeOK'
      BY <1>6 DEF vars, DriverInv, TypeOK
    <2>b. RequestAt' /\ Selected'
      BY <1>6 DEF vars, DriverInv, RequestAt, Selected
    <2>c. Allocated' /\ Answered'
      BY <1>6 DEF vars, DriverInv, Allocated, Configures, Answered
    <2>1. Registers' /\ HostInv'
      BY <1>6 DEF vars, DriverInv, Registers, HostInv
    <2>2. CleanInv'
      BY <1>6, Zenon DEF vars, CleanInv, Apart, Serving, Addressing, Configuring, Awake, InRequest,
                  Begins, EndsWithIn, Awaits
    <2> QED BY <2>a, <2>b, <2>c, <2>1, <2>2, Zenon DEF DriverInv
  <1> QED BY <1>1, <1>2, <1>3, <1>4, <1>5, <1>6, Zenon DEF Next

(* Whatever the host does, the driver serves the header it has read, with its
   endpoints, and can be woken (USB_DeviceTask, USB_GEN_vect); and device and
   host go through a request together unless one was cut short. *)
THEOREM UsbInvariance == Spec => [](DriverInv /\ CleanInv)
  BY InitDriver, StepKeeps, PTL DEF Spec

(* No header is acted on twice, although the HID requests have the numbers of
   standard requests (USB_Device_ProcessControlRequest). *)
THEOREM HandledTheorem == Spec => []HandledOnce
  <1>1. DriverInv /\ CleanInv => HandledOnce
    BY Zenon DEF DriverInv, RequestAt, HandledOnce
  <1> QED BY <1>1, UsbInvariance, PTL

(* HID_Task finds both endpoints allocated, also after resets, suspensions and
   configurations in any order (EVENT_USB_Device_ConfigurationChanged). *)
THEOREM EndpointsTheorem == Spec => []HidFindsItsEndpoints
  <1>1. DriverInv /\ CleanInv => HidFindsItsEndpoints
    BY Zenon DEF DriverInv, Allocated, HidFindsItsEndpoints
  <1> QED BY <1>1, UsbInvariance, PTL

(* Between requests, once the interrupts are served, device and host agree on
   the address, the configuration and the state (SetAddress, SetConfiguration,
   USB_GEN_vect, Endpoint_ClearStatusStage). *)
THEOREM AgreeTheorem == Spec => []HostAndDeviceAgree
  <1>1. DriverInv /\ CleanInv => HostAndDeviceAgree
    <2> SUFFICES ASSUME DriverInv, CleanInv, dev.pending \cap dev.enabled = {}, ~trouble
                 PROVE  /\ ~bus.vbus => dev.state = "Unattached"
                        /\ bus.reset /\ bus.phase = "none" /\ ~InRequest =>
                              /\ dev.config = bus.config
                              /\ IF bus.suspended THEN dev.state = "Suspended"
                                 ELSE /\ bus.addr = IF dev.adden THEN dev.addr ELSE 0
                                      /\ bus.config # 0 => dev.state = "Configured"
                                      /\ dev.state \notin {"Unattached", "Suspended"}
      BY Zenon DEF HostAndDeviceAgree
    <2>1. Apart /\ Serving /\ Addressing /\ Configuring /\ Awake
      BY Zenon DEF CleanInv
    <2>2. "VBUSTI" \notin dev.pending /\ "EORSTI" \notin dev.pending
      BY Zenon DEF DriverInv, Registers
    <2>3. ~bus.vbus => dev.state = "Unattached"
      BY <2>1, <2>2, Zenon DEF Apart
    <2>4. ASSUME bus.reset, bus.phase = "none", ~InRequest
          PROVE  dev.config = bus.config /\ pc \notin RequestPc
      BY <2>1, <2>2, <2>4, Zenon DEF Configuring, Awaits, InRequest
    <2>5. ASSUME bus.reset, bus.suspended PROVE dev.state = "Suspended"
      BY <2>1, <2>2, <2>5, Zenon DEF Awake
    <2>6. ASSUME bus.reset, ~bus.suspended PROVE dev.state \notin {"Unattached", "Suspended"}
      <3>1. dev.state # "Unattached" /\ (dev.frozen => "WAKEUPI" \in dev.pending)
        BY <2>1, <2>2, <2>6, Zenon DEF Awake
      <3> QED BY <3>1, Zenon DEF DriverInv, Registers
    <2>7. ASSUME bus.reset, bus.phase = "none", ~InRequest
          PROVE  bus.addr = IF dev.adden THEN dev.addr ELSE 0
      <3>1. bus.addr \in {0, 1}
        BY DEF DriverInv, TypeOK, Bus
      <3>2. pc # "addressWait"
        BY <2>4, <2>7, Zenon DEF RequestPc
      <3> QED BY <2>1, <2>7, <3>1, <3>2, Zenon DEF Addressing
    <2>8. ASSUME bus.reset, bus.phase = "none", ~InRequest, ~bus.suspended, bus.config # 0
          PROVE  dev.state = "Configured"
      <3>1. dev.config # 0 /\ pc \notin {"status", "configState"}
        BY <2>4, <2>8, Zenon DEF RequestPc
      <3> QED BY <2>1, <2>2, <2>6, <2>8, <3>1, Zenon DEF Configuring
    <2> QED BY <2>3, <2>4, <2>5, <2>6, <2>7, <2>8, Zenon
  <1> QED BY <1>1, UsbInvariance, PTL

(* What the driver stalls it does not support, or it came before the request
   being served had ended (USB_Device_ProcessControlRequest). *)
THEOREM StallTheorem == Spec => StallsAreDeserved
  <1>1. DriverInv /\ [Next]_vars => [Stalls => request \notin Supported \/ bus.unread]_vars
    <2> SUFFICES ASSUME DriverInv, [Next]_vars, Stalls
                 PROVE  request \notin Supported \/ bus.unread
      BY Zenon
    <2>1. pc = "finish" /\ dev.setup
      BY Zenon DEF Stalls
    <2> QED BY <2>1, Zenon DEF DriverInv, Answered
  <1> QED BY <1>1, UsbInvariance, PTL DEF Spec, StallsAreDeserved
=============================================================================
