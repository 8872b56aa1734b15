--------------------- MODULE ControllerServiceProofs ---------------------
(***************************************************************************)
(* Proofs about ControllerService for every set of buttons, directions,    *)
(* sticks, script threads and hold times.                                  *)
(***************************************************************************)
EXTENDS ControllerService, TLAPS

(* ControllerService's fields start out well typed. *)
LEMMA InitType == Init => TypeOK
<1> SUFFICES ASSUME Init PROVE TypeOK BY Zenon
<1> USE DEF Init
<1>1. now \in 1 .. Horizon BY ClockAssumption
<1>2. expired \in [Slots -> Times] BY ClockAssumption DEF NotHeld, Times, Forever
<1>3. Neutral \in [Slots -> Values] BY Zenon DEF Neutral, Values
<1>4. args \in [Threads -> Args]
  BY ClockAssumption DEF Args, NoArgs, Slots, Values, Times, Forever
<1>5. pc \in [Threads -> PCs] BY Zenon DEF PCs
<1>6. QED BY <1>1, <1>2, <1>3, <1>4, <1>5, Zenon DEF TypeOK, ProtocolStates, ClearSteps

(* What a script can ask for: only a stick is ever "held" at Off. *)
LEMMA ActionValues ==
  ASSUME NEW s \in Slots, NEW v \in Actions(s)
  PROVE  /\ v \in Values
         /\ s \notin Sticks => v # Off
  BY DistinctValues, DistinctSlots, Zenon DEF Actions, Slots, Values

(* No call asks for the expiry 0 that stands for "not held". *)
LEMMA ExpiredTimesType ==
  ASSUME now \in 1 .. Horizon, NEW e \in ExpiredTimes
  PROVE  e \in Times \ {0}
<1>1. CASE e = Forever BY <1>1, ClockAssumption DEF Times, Forever
<1>2. CASE e # Forever
  <2>1. PICK d \in Durations : e = now + d /\ now + d <= Horizon
    BY <1>2, Zenon DEF ExpiredTimes
  <2>2. QED BY <2>1, ClockAssumption DEF Times, Forever
<1>3. QED BY <1>1, <1>2, Zenon

(* The steps by which a call enters the monitor, shared by checkAndHold and
   release: slot s is recorded with expiry e, and value v is to be sent. *)
LEMMA EnterStep ==
  ASSUME IInv, NEW t \in Threads, NEW s \in Slots, NEW v \in Values,
         NEW e \in Times, NEW first \in {"off", "send"},
         monitor = Nobody,
         e = 0 => v = Off,
         s \notin Sticks /\ e # 0 => v # Off,
         first = "off" => s = Hat /\ expired[s] # 0,
         expired' = [expired EXCEPT ![s] = e],
         Enter(t, s, v, first),
         UNCHANGED <<now, direction, protocol, image, console, todo, clearing>>
  PROVE  IInv'
<1> USE DEF IInv
<1>1. TypeOK'
  BY ClockAssumption DEF TypeOK, Enter, NoteOverlap, Args, PCs, Times, Forever
<1>2. MonitorInv'
  BY DistinctThreads, Zenon DEF TypeOK, MonitorInv, Enter, Inside, Args
<1>3. PortInv' /\ NoButtonDirection'
  BY Zenon DEF PortInv, NoButtonDirection
<1>4. /\ ~torn' => clearing = "idle" /\ ~torn
      /\ ~overlapped' => clearing = "idle" /\ ~overlapped
      /\ hatFailed' = hatFailed
  BY Zenon DEF Enter, NoteOverlap, TypeOK
<1>5. QuietClearInv'
  BY <1>4, Zenon DEF QuietClearInv
<1>6. \A u \in Threads : pc[u] \notin Inside
  BY DistinctThreads, Zenon DEF MonitorInv
<1>7. LiveInv'
  <2> SUFFICES ASSUME ~torn', clearing' = "idle",
                      protocol' \in {"open", "broken"}
               PROVE  /\ console' = image'
                      /\ \A r \in Slots : Busy(r)' \/ Agrees(r)'
                      /\ \A u \in Threads : pc'[u] \in Inside => HolderOK(u)'
    BY Zenon DEF LiveInv
  <2>1. /\ console = image
        /\ \A r \in Slots : Agrees(r)
    BY <1>4, <1>6, Zenon DEF LiveInv, Busy, Inside
  <2>2. pc' = [pc EXCEPT ![t] = first]
    BY Zenon DEF Enter
  <2>3. pc'[t] \in Inside /\ pc'[t] # "finish" /\ args'[t].slot = s /\ args'[t].val = v
    BY <2>2, Zenon DEF Enter, TypeOK, Inside
  <2>4. \A r \in Slots : Busy(r)' \/ Agrees(r)'
    <3> TAKE r \in Slots
    <3>1. CASE r = s BY <3>1, <2>3, Zenon DEF Busy, Inside
    <3>2. CASE r # s BY <3>2, <2>1, Zenon DEF Agrees, TypeOK
    <3>3. QED BY <3>1, <3>2, Zenon
  <2>5. \A u \in Threads : pc'[u] \in Inside => HolderOK(u)'
    <3> SUFFICES ASSUME NEW u \in Threads, pc'[u] \in Inside PROVE HolderOK(u)'
      BY Zenon
    <3>1. u = t BY <1>6, <2>2, Zenon DEF TypeOK
    <3>2. expired'[s] = e BY Zenon DEF TypeOK
    <3>3. QED BY <3>1, <3>2, <2>3, Zenon DEF HolderOK
  <2>6. QED BY <2>1, <2>4, <2>5, Zenon
<1>8. HatInv'
  <2>1. \A u \in Threads : pc'[u] \in Inside => u = t
    BY <1>6, Zenon DEF Enter, TypeOK
  <2>2. args'[t].slot = s /\ args'[t].val = v /\ pc'[t] \in Inside
    BY Zenon DEF Enter, TypeOK, Inside
  <2>3. s = Hat => Busy(Hat)'
    BY <2>2, Zenon DEF Busy, Inside
  <2>4. s # Hat => expired'[Hat] = expired[Hat]
    BY Zenon DEF TypeOK, Slots
  <2>5. s = Hat /\ expired'[Hat] # 0 => v # Off
    BY DistinctSlots, Zenon DEF TypeOK
  <2>6. ~Busy(Hat)
    BY <1>6, Zenon DEF Busy, Inside
  <2>7. QED BY <1>4, <2>1, <2>2, <2>3, <2>4, <2>5, <2>6, Zenon DEF HatInv
<1>9. CallsFindTheirProtocol'
  <2> SUFFICES ASSUME NEW u \in Threads, ~overlapped', pc'[u] \in {"off", "send"}
               PROVE  /\ protocol' \in {"open", "broken"}
                      /\ pc'[u] = "off" => direction'[Hat] # Off \/ hatFailed'
    BY Zenon DEF CallsFindTheirProtocol
  <2>1. u = t BY <1>6, Zenon DEF Enter, TypeOK, Inside
  <2>2. protocol # "none" /\ pc'[u] = first
    BY <2>1, Zenon DEF Enter, TypeOK
  <2>3. protocol \in {"open", "broken"}
    BY <1>4, <2>2, Zenon DEF PortInv, TypeOK, ProtocolStates
  <2>4. ASSUME first = "off", ~hatFailed PROVE direction[Hat] # Off
    <3>1. s = Hat /\ expired[Hat] # 0 BY <2>4, Zenon
    <3>2. ~Busy(Hat) BY <1>6, Zenon DEF Busy, Inside
    <3>3. QED BY <1>4, <2>4, <3>1, <3>2, Zenon DEF HatInv
  <2>5. QED BY <1>4, <2>2, <2>3, <2>4, Zenon
<1>10. QED BY <1>1, <1>2, <1>3, <1>5, <1>7, <1>8, <1>9, Zenon

(* A call that finds the monitor free and nothing to send: the expiry of a
   held slot may have been prolonged, nothing else has changed. *)
LEMMA LeaveStep ==
  ASSUME IInv, NEW t \in Threads, NEW s \in Slots, NEW e \in Times,
         pc[t] \notin Inside,
         expired[s] = 0 <=> e = 0,
         expired' = [expired EXCEPT ![s] = e],
         LeaveAtOnce(t),
         torn' \in BOOLEAN, overlapped' \in BOOLEAN,
         ~torn' => ~torn /\ (clearing = "idle" \/ expired' = expired),
         ~overlapped' => ~overlapped,
         torn' => torn \/ overlapped' \/ clearing = "idle",
         hatFailed' = hatFailed,
         UNCHANGED <<now, direction, protocol, image, console, todo, clearing>>
  PROVE  IInv'
<1> USE DEF IInv
<1>1. TypeOK'
  <2>1. args' \in [Threads -> Args] /\ pc' \in [Threads -> PCs]
    BY ClockAssumption
    DEF TypeOK, LeaveAtOnce, Args, NoArgs, PCs, Slots, Values, Times, Forever
  <2>2. QED BY <2>1, Zenon DEF TypeOK, LeaveAtOnce
<1>2. pc' = [pc EXCEPT ![t] = "idle"] /\ monitor' = monitor
      /\ args' = [args EXCEPT ![t] = NoArgs]
  BY Zenon DEF LeaveAtOnce
<1>3. \A u \in Threads :
         /\ pc'[u] \in Inside <=> pc[u] \in Inside
         /\ pc'[u] \in Inside \cup {"wait"}
              => pc'[u] = pc[u] /\ args'[u] = args[u]
  <2> SUFFICES ASSUME NEW u \in Threads
               PROVE  /\ pc'[u] \in Inside <=> pc[u] \in Inside
                      /\ pc'[u] \in Inside \cup {"wait"}
                           => pc'[u] = pc[u] /\ args'[u] = args[u]
    BY Zenon
  <2>1. CASE u = t BY <2>1, <1>2, Zenon DEF TypeOK, Inside
  <2>2. CASE u # t BY <2>2, <1>2, Zenon DEF TypeOK
  <2>3. QED BY <2>1, <2>2, Zenon
<1>4. MonitorInv'
  BY <1>2, <1>3 DEF MonitorInv, Inside
<1>5. PortInv' /\ NoButtonDirection'
  BY Zenon DEF PortInv, NoButtonDirection
<1>6. ~torn' => ~torn
  BY Zenon
<1>7. QuietClearInv'
  BY <1>2, <1>6, Zenon DEF QuietClearInv
<1>8. \A r \in Slots : expired'[r] = 0 <=> expired[r] = 0
  BY Zenon DEF TypeOK
<1>9. LiveInv'
  <2> SUFFICES ASSUME ~torn', clearing' = "idle",
                      protocol' \in {"open", "broken"}
               PROVE  /\ console' = image'
                      /\ \A r \in Slots : Busy(r)' \/ Agrees(r)'
                      /\ \A u \in Threads : pc'[u] \in Inside => HolderOK(u)'
    BY Zenon DEF LiveInv
  <2>1. /\ console = image
        /\ \A r \in Slots : Busy(r) \/ Agrees(r)
        /\ \A u \in Threads : pc[u] \in Inside => HolderOK(u)
    BY <1>6, Zenon DEF LiveInv
  <2>2. \A r \in Slots : Busy(r)' \/ Agrees(r)'
    <3> TAKE r \in Slots
    <3>1. CASE Busy(r)
      <4>1. PICK u \in Threads : pc[u] \in Inside /\ args[u].slot = r
        BY <3>1, Zenon DEF Busy, Inside
      <4>2. pc'[u] \in Inside /\ args'[u].slot = r BY <4>1, <1>3, Zenon
      <4>3. QED BY <4>2, Zenon DEF Busy, Inside
    <3>2. CASE Agrees(r) BY <3>2, <1>8, Zenon DEF Agrees
    <3>3. QED BY <3>1, <3>2, <2>1, Zenon
  <2>3. \A u \in Threads : pc'[u] \in Inside => HolderOK(u)'
    <3> SUFFICES ASSUME NEW u \in Threads, pc'[u] \in Inside PROVE HolderOK(u)'
      BY Zenon
    <3>1. HolderOK(u) /\ pc'[u] = pc[u] /\ args'[u] = args[u] BY <2>1, <1>3, Zenon
    <3>2. args[u].slot \in Slots BY Zenon DEF TypeOK, Args
    <3>3. QED BY <3>1, <3>2, <1>8, Zenon DEF HolderOK
  <2>4. QED BY <2>1, <2>2, <2>3, Zenon
<1>10. HatInv'
  <2>1. Busy(Hat) => Busy(Hat)'
    BY <1>3, Zenon DEF Busy, Inside
  <2>2. Hat \in Slots BY Zenon DEF Slots
  <2>3. clearing' # "idle" /\ ~overlapped' => ~torn'
    BY Zenon DEF HatInv
  <2>4. QED BY <1>3, <1>8, <2>1, <2>2, <2>3, Zenon DEF HatInv
<1>11. CallsFindTheirProtocol'
  BY <1>3, Zenon DEF CallsFindTheirProtocol, Inside
<1>12. QED BY <1>1, <1>4, <1>5, <1>7, <1>9, <1>10, <1>11, Zenon

(* checkAndHold keeps the invariant in each of its three branches. *)
LEMMA HoldStep ==
  ASSUME IInv, NEW t \in Threads, NEW s \in Slots, NEW v \in Values,
         NEW e \in Times \ {0},
         pc[t] \notin Inside,
         s \notin Sticks => v # Off,
         checkAndHold(t, s, v, e)
  PROVE  IInv'
<1> USE DEF checkAndHold
<1>1. CASE /\ expired[s] = 0
           /\ expired' = [expired EXCEPT ![s] = e]
           /\ Enter(t, s, v, "send")
  BY <1>1, EnterStep, Zenon
<1>2. CASE /\ expired[s] # 0
           /\ SameDirection(s, v)
           /\ expired' = [expired EXCEPT ![s] = Prolonged(s, e)]
           /\ LeaveAtOnce(t)
           /\ NoteOverlap
  <2>1. Prolonged(s, e) \in Times \ {0}
    BY <1>2, Zenon DEF Prolonged, IInv, TypeOK
  <2>2. /\ torn' \in BOOLEAN /\ overlapped' \in BOOLEAN
        /\ ~torn' => ~torn /\ clearing = "idle"
        /\ ~overlapped' => ~overlapped
        /\ torn' => torn \/ overlapped' \/ clearing = "idle"
        /\ hatFailed' = hatFailed
    BY <1>2, Zenon DEF IInv, TypeOK, NoteOverlap
  <2>3. QED BY <1>2, <2>1, <2>2, LeaveStep, Zenon
<1>3. CASE /\ expired[s] # 0
           /\ ~SameDirection(s, v)
           /\ expired' = [expired EXCEPT ![s] = e]
           /\ Enter(t, s, v, IF s = Hat THEN "off" ELSE "send")
  BY <1>3, EnterStep, Zenon
<1>4. QED BY <1>1, <1>2, <1>3, Zenon

(* release keeps the invariant, whoever calls it. *)
LEMMA ReleaseStep ==
  ASSUME IInv, NEW t \in Threads, NEW s \in Slots,
         pc[t] \notin Inside,
         release(t, s)
  PROVE  IInv'
<1> USE DEF release
<1> 0 \in Times /\ Off \in Values
  BY ClockAssumption DEF Times, Forever, Values
<1>1. CASE /\ expired[s] # 0
           /\ expired' = [expired EXCEPT ![s] = 0]
           /\ Enter(t, s, Off, "send")
  BY <1>1, EnterStep, Zenon
<1>2. CASE /\ expired[s] = 0
           /\ LeaveAtOnce(t)
           /\ UNCHANGED <<expired, histories>>
  <2>1. /\ expired' = [expired EXCEPT ![s] = 0]
        /\ UNCHANGED <<overlapped, hatFailed, torn>>
        /\ torn \in BOOLEAN /\ overlapped \in BOOLEAN
    BY <1>2, Zenon DEF IInv, TypeOK, histories
  <2>2. QED BY <1>2, <2>1, LeaveStep, Zenon
<1>3. QED BY <1>1, <1>2, Zenon

(* Steps outside the monitor that touch neither record, port nor console:
   the clock, the daemon's scan, and a script that awaits the monitor. *)
LEMMA OutsideStep ==
  ASSUME IInv, TypeOK',
         NEW t \in Threads, NEW a \in Args,
         NEW p \in {"idle", "wait", "due", "dead"},
         pc[t] \notin Inside,
         pc' = [pc EXCEPT ![t] = p],
         args' = [args EXCEPT ![t] = a],
         p = "wait" => t \in Clients /\ a.slot \in Sticks /\ a.till # 0,
         UNCHANGED <<expired, direction, protocol, image, console, monitor,
                     clearing, histories>>
  PROVE  IInv'
<1> USE DEF IInv, histories
<1>1. \A u \in Threads :
         /\ pc'[u] \in Inside <=> pc[u] \in Inside
         /\ pc'[u] \in Inside => pc'[u] = pc[u] /\ args'[u] = args[u]
  BY Zenon DEF TypeOK, Inside
<1>2. MonitorInv'
  <2> SUFFICES ASSUME NEW u \in Threads
               PROVE  /\ pc'[u] \in Inside <=> monitor' = u
                      /\ pc'[u] = "off" => args'[u].slot = Hat
                      /\ pc'[u] = "wait" => /\ u \in Clients
                                           /\ args'[u].slot \in Sticks
                                           /\ args'[u].till # 0
    BY Zenon DEF MonitorInv
  <2>1. CASE u = t BY <2>1, <1>1, Zenon DEF MonitorInv, TypeOK, Inside
  <2>2. CASE u # t BY <2>2, Zenon DEF MonitorInv, TypeOK
  <2>3. QED BY <2>1, <2>2, Zenon
<1>3. PortInv' /\ NoButtonDirection' /\ QuietClearInv'
  BY Zenon DEF PortInv, NoButtonDirection, QuietClearInv
<1>4. LiveInv'
  <2> SUFFICES ASSUME ~torn, clearing = "idle", protocol \in {"open", "broken"}
               PROVE  /\ console = image
                      /\ \A r \in Slots : Busy(r)' \/ Agrees(r)'
                      /\ \A u \in Threads : pc'[u] \in Inside => HolderOK(u)'
    BY Zenon DEF LiveInv
  <2>1. \A r \in Slots : Busy(r) => Busy(r)'
    BY <1>1, Zenon DEF Busy, Inside
  <2>2. \A u \in Threads : pc'[u] \in Inside => HolderOK(u)'
    BY <1>1 DEF LiveInv, HolderOK
  <2>3. QED BY <2>1, <2>2, Zenon DEF LiveInv, Agrees
<1>5. HatInv'
  <2>1. Busy(Hat) => Busy(Hat)' BY <1>1, Zenon DEF Busy, Inside
  <2>2. QED BY <1>1, <2>1, Zenon DEF HatInv
<1>6. CallsFindTheirProtocol'
  BY <1>1, Zenon DEF CallsFindTheirProtocol, Inside
<1>7. QED BY <1>2, <1>3, <1>4, <1>5, <1>6, Zenon

(* hold(Stick): the expiry is computed and the monitor awaited. *)
LEMMA HoldStickStep ==
  ASSUME IInv, NEW c \in Clients, NEW s \in Slots, NEW v \in Actions(s),
         HoldStick(c, s, v)
  PROVE  IInv'
<1>1. PICK e \in ExpiredTimes :
         args' = [args EXCEPT ![c] = [slot |-> s, val |-> v, till |-> e]]
  BY Zenon DEF HoldStick
<1>2. e \in Times \ {0} /\ v \in Values
  BY ExpiredTimesType, ActionValues, Zenon DEF IInv, TypeOK
<1>3. [slot |-> s, val |-> v, till |-> e] \in Args /\ c \in Threads
  BY <1>2, Zenon DEF Args, Threads
<1>4. TypeOK'
  BY <1>1, <1>3, Zenon DEF HoldStick, IInv, TypeOK, PCs, histories
<1>5. pc[c] \notin Inside
  BY Zenon DEF HoldStick, Inside
<1>6. QED BY <1>1, <1>2, <1>3, <1>4, <1>5, OutsideStep, Zenon DEF HoldStick

(* The daemon's reading of one expiry time. *)
LEMMA CheckSlotStep ==
  ASSUME IInv, NEW s \in Slots, CheckSlot(s)
  PROVE  IInv'
<1> Daemon \in Threads BY Zenon DEF Threads
<1> DEFINE a == [args[Daemon] EXCEPT !.slot = s]
<1>0. pc[Daemon] \notin Inside /\ args[Daemon] \in Args
  BY Zenon DEF CheckSlot, Inside, IInv, TypeOK
<1>1. CASE Due(s)
  <2>1. a \in Args BY <1>0, Zenon DEF Args
  <2>2. /\ args' = [args EXCEPT ![Daemon] = a]
        /\ pc' = [pc EXCEPT ![Daemon] = "due"]
    BY <1>1, Zenon DEF CheckSlot
  <2>3. TypeOK' BY <2>1, <2>2, Zenon DEF CheckSlot, IInv, TypeOK, PCs, histories
  <2>4. QED BY <1>0, <2>1, <2>2, <2>3, OutsideStep, Zenon DEF CheckSlot
<1>2. CASE ~Due(s)
  <2>1. /\ args' = [args EXCEPT ![Daemon] = args[Daemon]]
        /\ pc' = [pc EXCEPT ![Daemon] = "idle"]
    BY <1>2, Zenon DEF CheckSlot, IInv, TypeOK
  <2>2. TypeOK' BY <1>2, Zenon DEF CheckSlot, IInv, TypeOK, histories
  <2>3. QED BY <1>0, <2>1, <2>2, OutsideStep, Zenon DEF CheckSlot
<1>3. QED BY <1>1, <1>2, Zenon

(* The clock and the daemon's sleep change nothing the invariant is about. *)
LEMMA ClockStep ==
  ASSUME IInv, TypeOK',
         UNCHANGED <<expired, direction, protocol, image, console, monitor, pc,
                     args, clearing, histories>>
  PROVE  IInv'
<1> USE DEF histories
<1>1. MonitorInv' /\ PortInv' /\ NoButtonDirection' /\ QuietClearInv' /\ LiveInv'
  BY Zenon DEF IInv, MonitorInv, PortInv, NoButtonDirection, QuietClearInv, LiveInv,
         Busy, Agrees, HolderOK
<1>2. HatInv' /\ CallsFindTheirProtocol'
  BY Zenon DEF IInv, HatInv, CallsFindTheirProtocol, Busy
<1>3. QED BY <1>1, <1>2, Zenon DEF IInv

(* A protocol call that throws inside the monitor. *)
LEMMA FailStep ==
  ASSUME IInv, NEW t \in Threads, pc[t] \in Inside, Fail(t),
         image' \in [Slots -> Values],
         UNCHANGED <<now, expired, direction, protocol, console, todo, clearing>>
  PROVE  IInv'
<1> USE DEF IInv
<1>1. TypeOK'
  <2>1. NoArgs \in Args
    BY ClockAssumption DEF NoArgs, Args, Slots, Values, Times, Forever
  <2>2. QED BY <2>1, Zenon DEF TypeOK, Fail, PCs
<1>2. MonitorInv'
  <2>1. \A u \in Threads : u # t => pc[u] \notin Inside
    BY Zenon DEF MonitorInv
  <2>2. QED BY <2>1, DistinctThreads, Zenon DEF MonitorInv, TypeOK, Fail, Inside
<1>3. PortInv' /\ NoButtonDirection'
  BY Zenon DEF PortInv, NoButtonDirection
<1>4. torn' /\ overlapped' = overlapped /\ (~hatFailed' => ~hatFailed /\ args[t].slot # Hat)
  BY Zenon DEF Fail, TypeOK
<1>5. QuietClearInv' /\ LiveInv'
  BY <1>4, Zenon DEF QuietClearInv, LiveInv
<1>6. monitor = t /\ \A u \in Threads : pc'[u] \notin Inside
  BY Zenon DEF Fail, MonitorInv, TypeOK, Inside
<1>7. clearing # "idle" => overlapped
  BY <1>6, DistinctThreads, Zenon DEF HatInv, QuietClearInv
<1>8. HatInv'
  <2>1. args[t].slot # Hat => ~Busy(Hat)
    BY <1>6, Zenon DEF Busy, MonitorInv, Inside
  <2>2. QED BY <1>4, <1>6, <1>7, <2>1, Zenon DEF HatInv
<1>9. CallsFindTheirProtocol'
  BY <1>6, Zenon DEF CallsFindTheirProtocol, Inside
<1>10. QED BY <1>1, <1>2, <1>3, <1>5, <1>8, <1>9, Zenon

(* A protocol call: of the thread inside, with the value it sends next. *)
LEMMA CallStep ==
  ASSUME IInv, NEW t \in Threads, NEW v \in Values,
         NEW next \in {"send", "finish"},
         pc[t] \in Inside,
         next = "finish" => v = args[t].val,
         ProtocolCall(t, v, next)
  PROVE  IInv'
<1> USE DEF IInv
<1> DEFINE s == args[t].slot
<1>0. s \in Slots BY Zenon DEF TypeOK, Args
<1>1. image' \in [Slots -> Values]
  BY <1>0, Zenon DEF ProtocolCall, TypeOK
<1>2. CASE protocol # "open"
  BY <1>1, <1>2, FailStep, Zenon DEF ProtocolCall
<1>3. CASE protocol = "open"
  <2>0. /\ image' = [image EXCEPT ![s] = v]
        /\ console' = image'
        /\ pc' = [pc EXCEPT ![t] = next]
        /\ UNCHANGED <<now, expired, direction, protocol, monitor, args, todo,
                       clearing, overlapped, hatFailed, torn>>
    BY <1>3, Zenon DEF ProtocolCall, histories
  <2>1. TypeOK'
    BY <1>1, <2>0, Zenon DEF TypeOK, PCs
  <2>2. MonitorInv'
    BY <2>0, Zenon DEF MonitorInv, TypeOK, Inside
  <2>3. PortInv' /\ NoButtonDirection'
    BY <2>0, Zenon DEF PortInv, NoButtonDirection
  <2>4. monitor = t /\ monitor # Nobody
    BY DistinctThreads, Zenon DEF MonitorInv
  <2>5. QuietClearInv'
    BY <2>0, <2>4, Zenon DEF QuietClearInv
  <2>6. \A u \in Threads : pc'[u] \in Inside => u = t
    BY <2>0, <2>4, Zenon DEF MonitorInv, TypeOK
  <2>7. pc'[t] = next
    BY <2>0, Zenon DEF TypeOK
  <2>8. LiveInv'
    <3> SUFFICES ASSUME ~torn, clearing = "idle"
                 PROVE  /\ console' = image'
                        /\ \A r \in Slots : Busy(r)' \/ Agrees(r)'
                        /\ \A u \in Threads : pc'[u] \in Inside => HolderOK(u)'
      BY <2>0, Zenon DEF LiveInv
    <3>1. /\ console = image
          /\ \A r \in Slots : Busy(r) \/ Agrees(r)
          /\ HolderOK(t)
      BY <1>3, Zenon DEF LiveInv
    <3>2. \A r \in Slots : Busy(r)' \/ Agrees(r)'
      <4> TAKE r \in Slots
      <4>1. CASE r = s BY <4>1, <2>0, <2>7, Zenon DEF Busy
      <4>2. CASE r # s
        <5>1. ~Busy(r) BY <4>2, <2>4, Zenon DEF Busy, MonitorInv, Inside
        <5>2. console'[r] = console[r] BY <4>2, <2>0, <3>1, Zenon DEF TypeOK
        <5>3. QED BY <5>1, <5>2, <3>1, <2>0, Zenon DEF Agrees
      <4>3. QED BY <4>1, <4>2, Zenon
    <3>3. HolderOK(t)'
      <4>1. console'[s] = v BY <2>0, <1>0, Zenon DEF TypeOK
      <4>2. QED BY <4>1, <2>0, <2>7, <3>1, Zenon DEF HolderOK
    <3>4. QED BY <2>0, <2>6, <3>2, <3>3, Zenon
  <2>9. HatInv'
    <3>1. Busy(Hat)' <=> s = Hat
      BY <2>0, <2>6, <2>7, Zenon DEF Busy, Inside
    <3>2. Busy(Hat) <=> s = Hat
      BY <2>4, Zenon DEF Busy, MonitorInv, Inside
    <3>3. QED BY <2>0, <2>6, <3>1, <3>2, Zenon DEF HatInv
  <2>10. CallsFindTheirProtocol'
    BY <1>3, <2>0, <2>6, <2>7, Zenon DEF CallsFindTheirProtocol, Inside
  <2>11. QED BY <2>1, <2>2, <2>3, <2>5, <2>8, <2>9, <2>10, Zenon
<1>4. QED BY <1>2, <1>3, Zenon

(* The three steps of a call inside the monitor. *)
LEMMA InCallStep ==
  ASSUME IInv, NEW t \in Threads, InCall(t)
  PROVE  IInv'
<1> USE DEF IInv
<1>0. args[t].val \in Values /\ args[t].slot \in Slots /\ Off \in Values
  BY Zenon DEF TypeOK, Args, Values
<1>1. CASE ReleaseOldHat(t)
  <2>1. pc[t] \in Inside BY <1>1, Zenon DEF ReleaseOldHat, Inside
  <2>2. CASE ProtocolCall(t, Off, "send")
    BY <1>0, <2>1, <2>2, CallStep, Zenon
  <2>3. CASE Fail(t) /\ UNCHANGED <<now, expired, direction, protocol, image,
                                    console, todo, clearing>>
    BY <2>1, <2>3, FailStep, Zenon DEF TypeOK
  <2>4. QED BY <1>1, <2>2, <2>3, Zenon DEF ReleaseOldHat
<1>2. CASE Send(t)
  BY <1>0, <1>2, CallStep, Zenon DEF Send, Inside
<1>3. CASE Finish(t)
  <2> DEFINE s == args[t].slot
             v == args[t].val
  <2> USE <1>3 DEF Finish, histories
  <2>0. NoArgs \in Args
    BY ClockAssumption DEF NoArgs, Args, Slots, Values, Times, Forever
  <2>1. TypeOK'
    BY <1>0, <2>0, Zenon DEF TypeOK, PCs
  <2>2. monitor = t /\ t # Nobody
    BY DistinctThreads, Zenon DEF MonitorInv, Inside
  <2>3. \A u \in Threads : pc'[u] \notin Inside
    BY <2>2, Zenon DEF MonitorInv, TypeOK, Inside
  <2>4. MonitorInv'
    BY <2>3, DistinctThreads, Zenon DEF MonitorInv, TypeOK, Inside
  <2>5. PortInv' BY Zenon DEF PortInv
  <2>6. NoButtonDirection'
    BY <1>0, Zenon DEF NoButtonDirection, TypeOK
  <2>7. QuietClearInv'
    BY <2>2, Zenon DEF QuietClearInv
  <2>8. LiveInv'
    <3> SUFFICES ASSUME ~torn, clearing = "idle", protocol \in {"open", "broken"}
                 PROVE  /\ console = image
                        /\ \A r \in Slots : Agrees(r)'
      BY <2>3, Zenon DEF LiveInv
    <3>1. /\ console = image
          /\ \A r \in Slots : Busy(r) \/ Agrees(r)
          /\ HolderOK(t)
      BY Zenon DEF LiveInv, Inside
    <3>2. ASSUME NEW r \in Slots PROVE Agrees(r)'
      <4>1. CASE r = s
        <5>1. r \notin Buttons => direction'[r] = v
          BY <4>1, Zenon DEF TypeOK
        <5>2. QED BY <4>1, <5>1, <3>1, Zenon DEF HolderOK, Agrees
      <4>2. CASE r # s
        <5>1. ~Busy(r) BY <4>2, <2>2, Zenon DEF Busy, MonitorInv, Inside
        <5>2. direction'[r] = direction[r] BY <4>2, Zenon DEF TypeOK
        <5>3. QED BY <5>1, <5>2, <3>1, Zenon DEF Agrees
      <4>3. QED BY <4>1, <4>2, Zenon
    <3>3. QED BY <3>1, <3>2, Zenon
  <2>9. HatInv'
    <3>1. pc[t] \in Inside /\ Hat \in Slots BY Zenon DEF Inside, Slots
    <3>2. CASE s = Hat
      <4>1. direction'[Hat] = v BY <3>1, <3>2, DistinctSlots, Zenon DEF TypeOK
      <4>2. QED BY <2>3, <3>1, <3>2, <4>1, Zenon DEF HatInv
    <3>3. CASE s # Hat
      <4>1. ~Busy(Hat) BY <3>3, <2>2, Zenon DEF Busy, MonitorInv, Inside
      <4>2. direction'[Hat] = direction[Hat] BY <3>1, <3>3, Zenon DEF TypeOK
      <4>3. QED BY <2>3, <4>1, <4>2, Zenon DEF HatInv
    <3>4. QED BY <3>2, <3>3, Zenon
  <2>10. CallsFindTheirProtocol'
    BY <2>3, Zenon DEF CallsFindTheirProtocol, Inside
  <2>11. QED BY <2>1, <2>4, <2>5, <2>6, <2>7, <2>8, <2>9, <2>10, Zenon
<1>4. QED BY <1>1, <1>2, <1>3, Zenon DEF InCall

(* clear(), step by step: it runs beside the calls, so only what holds
   without the monitor is kept, and all of it when nothing overlaps. *)
LEMMA ClearStep ==
  ASSUME IInv, Clear
  PROVE  IInv'
<1> USE DEF IInv
<1>0. Neutral \in [Slots -> Values] /\ 0 \in Times /\ Off \in Values /\ Hat \in Slots
  BY ClockAssumption DEF Neutral, Values, Times, Forever, Slots
<1>1. CASE ClearSendDefault
  <2> USE <1>1 DEF ClearSendDefault
  <2>1. CASE protocol = "open"
    <3>1. TypeOK' BY <1>0, <2>1, Zenon DEF TypeOK, ClearSteps
    <3>2. MonitorInv' /\ PortInv' /\ NoButtonDirection'
      BY <2>1, Zenon DEF MonitorInv, PortInv, NoButtonDirection
    <3>3. torn' = (monitor # Nobody) /\ console' = Neutral /\ clearing' = "close"
      BY <2>1, Zenon
    <3>4. QuietClearInv' /\ LiveInv' BY <3>3, Zenon DEF QuietClearInv, LiveInv
    <3>5. overlapped' = (monitor # Nobody) BY <2>1, Zenon
    <3>6. HatInv' BY <3>3, <3>5, Zenon DEF HatInv
    <3>7. CallsFindTheirProtocol'
      BY <3>5, DistinctThreads, Zenon DEF CallsFindTheirProtocol, MonitorInv, Inside
    <3>8. QED BY <3>1, <3>2, <3>4, <3>6, <3>7, Zenon
  <2>2. CASE protocol = "broken"
    BY <2>2, ClockStep, Zenon DEF TypeOK, histories
  <2>3. QED BY <2>1, <2>2, Zenon
<1>2. CASE ClearClosePort \/ ClearUnset \/ ClearFill
  <2>0. clearing # "idle" /\ UNCHANGED <<now, image, console, monitor, pc, args,
                                         todo, overlapped, hatFailed, torn>>
    BY <1>2, Zenon DEF ClearClosePort, ClearUnset, ClearFill, histories
  <2>1. TypeOK'
    <3>1. CASE ClearClosePort \/ ClearUnset
      BY <2>0, <3>1, Zenon DEF ClearClosePort, ClearUnset, TypeOK, ClearSteps, ProtocolStates
    <3>2. CASE ClearFill
      BY <2>0, <3>2, <1>0, Zenon DEF ClearFill, TypeOK, ClearSteps
    <3>3. QED BY <1>2, <3>1, <3>2, Zenon
  <2>2. MonitorInv' BY <2>0, Zenon DEF MonitorInv
  <2>3. PortInv'
    BY <1>2, Zenon DEF ClearClosePort, ClearUnset, ClearFill, PortInv
  <2>4. NoButtonDirection'
    <3>1. CASE ClearClosePort \/ ClearUnset
      BY <3>1, Zenon DEF ClearClosePort, ClearUnset, NoButtonDirection
    <3>2. CASE ClearFill
      BY <3>2, <1>0, Zenon DEF ClearFill, NoButtonDirection, TypeOK
    <3>3. QED BY <1>2, <3>1, <3>2, Zenon
  <2>5. QuietClearInv'
    <3>1. CASE ClearClosePort \/ ClearUnset
      BY <2>0, <3>1, Zenon DEF ClearClosePort, ClearUnset, QuietClearInv
    <3>2. CASE ClearFill
      BY <2>0, <3>2, <1>0, Zenon DEF ClearFill, QuietClearInv, TypeOK
    <3>3. QED BY <1>2, <3>1, <3>2, Zenon
  <2>6. LiveInv'
    <3>1. CASE ClearClosePort \/ ClearUnset
      BY <3>1, Zenon DEF ClearClosePort, ClearUnset, LiveInv
    <3>2. CASE ClearFill
      BY <3>2, Zenon DEF ClearFill, LiveInv, PortInv
    <3>3. QED BY <1>2, <3>1, <3>2, Zenon
  <2>7. ~overlapped => ~torn /\ monitor = Nobody /\ \A t \in Threads : pc[t] \notin Inside
    BY <2>0, DistinctThreads, Zenon DEF HatInv, QuietClearInv, MonitorInv
  <2>8. HatInv'
    <3>1. ASSUME ~overlapped, clearing' = "idle" PROVE expired'[Hat] = 0
      <4>1. ClearFill /\ clearing = "sticks"
        BY <1>2, <3>1, Zenon DEF ClearClosePort, ClearUnset, ClearFill
      <4>2. expired[Hat] = 0
        BY <1>0, <2>7, <3>1, <4>1, DistinctSlots, Zenon DEF QuietClearInv
      <4>3. QED BY <4>1, <4>2, Zenon DEF ClearFill
    <3>2. QED BY <2>0, <2>7, <3>1, Zenon DEF HatInv
  <2>9. CallsFindTheirProtocol'
    BY <2>7, <2>0, Zenon DEF CallsFindTheirProtocol, Inside
  <2>10. QED BY <2>1, <2>2, <2>3, <2>4, <2>5, <2>6, <2>8, <2>9, Zenon
<1>3. QED BY <1>1, <1>2, Zenon DEF Clear

(* A protocol is installed, or found not to answer. *)
LEMMA LoadStep ==
  ASSUME IInv, LoadProtocol
  PROVE  IInv'
<1> USE DEF IInv
<1>0. Neutral \in [Slots -> Values]
  BY Zenon DEF Neutral, Values
<1>1. CASE protocol' = "open" /\ image' = Neutral /\ torn' = ~AtRest
           /\ UNCHANGED console
  <2> USE <1>1 DEF LoadProtocol
  <2>1. TypeOK' BY <1>0, Zenon DEF TypeOK, ProtocolStates, AtRest
  <2>2. MonitorInv' /\ PortInv' /\ NoButtonDirection'
    BY Zenon DEF MonitorInv, PortInv, NoButtonDirection
  <2>3. QuietClearInv' BY Zenon DEF QuietClearInv
  <2>4. ~torn' => \A t \in Threads : pc'[t] \notin Inside
    BY DistinctThreads, Zenon DEF AtRest, MonitorInv
  <2>5. LiveInv'
    <3> SUFFICES ASSUME ~torn' PROVE console' = image' /\ \A r \in Slots : Agrees(r)'
      BY <2>4, Zenon DEF LiveInv
    <3>1. QED BY Zenon DEF AtRest, Agrees, Neutral, NotHeld
  <2>6. HatInv'
    <3>1. AtRest => expired[Hat] = 0 /\ \A t \in Threads : pc'[t] \notin Inside
      BY <2>4, Zenon DEF AtRest, NotHeld, Slots
    <3>2. ~AtRest => overlapped' = overlapped /\ hatFailed' = hatFailed
      BY Zenon DEF TypeOK
    <3>3. QED BY <3>1, <3>2, Zenon DEF HatInv, Busy
  <2>7. CallsFindTheirProtocol'
    BY <2>4, Zenon DEF CallsFindTheirProtocol, Inside, TypeOK
  <2>8. QED BY <2>1, <2>2, <2>3, <2>5, <2>6, <2>7, Zenon
<1>2. CASE console' \in {console, Neutral} /\ UNCHANGED <<protocol, image, histories>>
  <2> USE <1>2 DEF LoadProtocol, histories
  <2>1. TypeOK' BY <1>0, Zenon DEF TypeOK
  <2>2. MonitorInv' /\ PortInv' /\ NoButtonDirection' /\ QuietClearInv' /\ LiveInv'
    BY Zenon DEF MonitorInv, PortInv, NoButtonDirection, QuietClearInv, LiveInv
  <2>3. HatInv' /\ CallsFindTheirProtocol'
    BY Zenon DEF HatInv, CallsFindTheirProtocol, Busy
  <2>4. QED BY <2>1, <2>2, <2>3, Zenon
<1>3. QED BY <1>1, <1>2, Zenon DEF LoadProtocol

(* The adapter is unplugged. *)
LEMMA UnplugStep ==
  ASSUME IInv, Unplug
  PROVE  IInv'
<1> USE DEF IInv, Unplug, histories
<1>1. TypeOK' BY Zenon DEF TypeOK, ProtocolStates
<1>2. MonitorInv' /\ PortInv' /\ NoButtonDirection' /\ QuietClearInv'
  BY Zenon DEF MonitorInv, PortInv, NoButtonDirection, QuietClearInv
<1>3. LiveInv' BY Zenon DEF LiveInv, Busy, Agrees, HolderOK
<1>4. HatInv' /\ CallsFindTheirProtocol'
  BY Zenon DEF HatInv, CallsFindTheirProtocol, Busy
<1>5. QED BY <1>1, <1>2, <1>3, <1>4, Zenon

(* The state the constructor leaves satisfies the invariant. *)
LEMMA InitIInv == Init => IInv
<1> SUFFICES ASSUME Init PROVE IInv BY Zenon
<1>1. TypeOK BY InitType, Zenon
<1>2. Hat \in Slots BY Zenon DEF Slots
<1>3. MonitorInv BY DistinctThreads, Zenon DEF Init, MonitorInv, Inside
<1>4. QED BY <1>1, <1>2, <1>3, Zenon DEF Init, IInv, PortInv, NoButtonDirection,
      QuietClearInv, LiveInv, HatInv, CallsFindTheirProtocol, Neutral, NotHeld, Inside

(* Every step of the program keeps the inductive invariant. *)
LEMMA NextIInv == IInv /\ [Next]_vars => IInv'
<1> SUFFICES ASSUME IInv, [Next]_vars PROVE IInv' BY Zenon
<1>0. TypeOK BY Zenon DEF IInv
<1>1. CASE Tick
  BY <1>1, <1>0, ClockAssumption, ClockStep DEF Tick, TypeOK, histories
<1>2. ASSUME NEW c \in Clients, NEW s \in Slots, NEW v \in Actions(s),
             HoldButton(c, s, v)
      PROVE  IInv'
  <2>1. PICK e \in ExpiredTimes : checkAndHold(c, s, v, e)
    BY <1>2, Zenon DEF HoldButton
  <2>2. e \in Times \ {0} /\ v \in Values /\ (s \notin Sticks => v # Off)
    BY <1>0, ExpiredTimesType, ActionValues, Zenon DEF TypeOK
  <2>3. c \in Threads /\ pc[c] \notin Inside
    BY <1>2, Zenon DEF HoldButton, Threads, Inside
  <2>4. QED BY <2>1, <2>2, <2>3, HoldStep, Zenon
<1>3. ASSUME NEW c \in Clients, NEW s \in Slots, NEW v \in Actions(s),
             HoldStick(c, s, v)
      PROVE  IInv'
  BY <1>3, HoldStickStep, Zenon
<1>4. ASSUME NEW c \in Clients, NEW s \in Slots, Release(c, s)
      PROVE  IInv'
  BY <1>4, ReleaseStep, Zenon DEF Release, Threads, Inside
<1>5. ASSUME NEW c \in Clients, CheckAndHoldStick(c)
      PROVE  IInv'
  <2>1. c \in Threads /\ pc[c] = "wait" /\ pc[c] \notin Inside
    BY <1>5, Zenon DEF CheckAndHoldStick, Threads, Inside
  <2>2. args[c].slot \in Slots /\ args[c].val \in Values /\ args[c].till \in Times
    BY <1>0, <2>1, Zenon DEF TypeOK, Args
  <2>3. args[c].slot \in Sticks /\ args[c].till # 0
    BY <2>1, Zenon DEF IInv, MonitorInv
  <2>4. QED BY <1>5, <2>1, <2>2, <2>3, HoldStep, Zenon DEF CheckAndHoldStick
<1>6. ASSUME NEW t \in Threads, InCall(t)
      PROVE  IInv'
  BY <1>6, InCallStep, Zenon
<1>7. CASE AutoRelease
  <2>1. ASSUME NEW s \in Slots, CheckSlot(s) PROVE IInv'
    BY <2>1, CheckSlotStep, Zenon
  <2>2. CASE NextRound
    BY <2>2, <1>0, ClockStep, Zenon DEF NextRound, TypeOK, histories
  <2>3. QED BY <1>7, <2>1, <2>2, Zenon DEF AutoRelease
<1>8. CASE ReleaseDue
  <2>1. Daemon \in Threads /\ args[Daemon].slot \in Slots /\ pc[Daemon] \notin Inside
    BY <1>0, <1>8, Zenon DEF ReleaseDue, Threads, TypeOK, Args, Inside
  <2>2. QED BY <1>8, <2>1, ReleaseStep, Zenon DEF ReleaseDue
<1>9. CASE Clear BY <1>9, ClearStep, Zenon
<1>10. CASE LoadProtocol BY <1>10, LoadStep, Zenon
<1>11. CASE Unplug BY <1>11, UnplugStep, Zenon
<1>12. CASE UNCHANGED vars
  BY <1>12, <1>0, ClockStep, Zenon DEF vars, TypeOK, histories
<1>13. QED
  BY <1>1, <1>2, <1>3, <1>4, <1>5, <1>6, <1>7, <1>8, <1>9, <1>10, <1>11, <1>12, Zenon
  DEF Next, ClientCall

(* The inductive invariant of ControllerService holds throughout. *)
THEOREM Invariance == Spec => []IInv
  BY InitIInv, NextIInv, PTL DEF Spec

(* Type correctness of every field and of every thread's position. *)
THEOREM TypeCorrect == Spec => []TypeOK
<1>1. IInv => TypeOK BY Zenon DEF IInv
<1>2. QED BY <1>1, Invariance, PTL

(* In every execution with any number of script threads, the record kept in
   buttonExpired, stickExpired, hatDirections and stickDirections is what the
   console is being shown, until a clear() overlaps a call or a write fails. *)
THEOREM RecordTheorem == Spec => []ConsoleMatchesRecord
<1>1. IInv => ConsoleMatchesRecord
  BY Zenon DEF IInv, LiveInv, ConsoleMatchesRecord
<1>2. QED BY <1>1, Invariance, PTL

(* Unless a clear() overlapped a call, no call meets a null or closed protocol;
   and none releases a null hat direction either, unless a call for the hat has
   failed before. *)
THEOREM ProtocolTheorem == Spec => []CallsFindTheirProtocol
<1>1. IInv => CallsFindTheirProtocol BY Zenon DEF IInv
<1>2. QED BY <1>1, Invariance, PTL

(* clear() run on its own brings record and console back to rest. *)
THEOREM ClearTheorem == Spec => ClearAloneRestoresRest
<1>1. IInv /\ [Next]_vars
        => [clearing = "sticks" /\ clearing' = "idle" /\ ~torn => AtRest']_vars
  <2> SUFFICES ASSUME IInv, [Next]_vars, clearing = "sticks", clearing' = "idle",
                      ~torn
               PROVE  AtRest'
    BY Zenon
  <2>1. ClearFill
    <3>1. clearing # clearing' BY Zenon
    <3>2. Clear \/ LoadProtocol
      BY <3>1 DEF Next, vars, Tick, ClientCall, HoldButton, HoldStick, Release,
         CheckAndHoldStick, checkAndHold, release, InCall, ReleaseOldHat, Send,
         ProtocolCall, Finish, AutoRelease, CheckSlot, NextRound, ReleaseDue,
         Unplug
    <3>3. QED BY <3>1, <3>2, Zenon DEF Clear, LoadProtocol, ClearSendDefault,
          ClearClosePort, ClearUnset
  <2>2. /\ monitor = Nobody
        /\ console = Neutral
        /\ \A s \in Slots : expired[s] = 0
        /\ direction[Hat] = Off
    BY Zenon DEF IInv, QuietClearInv
  <2>3. expired = NotHeld
    BY <2>2, Zenon DEF IInv, TypeOK, NotHeld
  <2>4. direction' = Neutral
    BY <2>1, <2>2, Zenon DEF ClearFill, IInv, NoButtonDirection, Neutral, Slots
  <2>5. QED BY <2>1, <2>2, <2>3, <2>4, Zenon DEF ClearFill, AtRest
<1>2. QED BY <1>1, Invariance, PTL DEF Spec, ClearAloneRestoresRest

(* A held button, hat direction or stick direction is only ever prolonged. *)
THEOREM ProlongTheorem == Spec => HoldsAreOnlyProlonged
<1> DEFINE Shrinks(s) == 0 < expired'[s] /\ expired'[s] < expired[s]
           Redirected(s) == /\ s \notin Buttons
                            /\ \E c \in Clients : /\ monitor' = c
                                                  /\ args'[c].slot = s
                                                  /\ args'[c].val # direction[s]
<1>1. IInv /\ [Next]_vars => [\A s \in Slots : Shrinks(s) => Redirected(s)]_vars
  <2> SUFFICES ASSUME IInv, [Next]_vars, NEW r \in Slots, Shrinks(r)
               PROVE  Redirected(r)
    BY Zenon
  <2>0. /\ expired \in [Slots -> Nat] /\ expired'[r] \in Nat
        /\ expired' # expired
        /\ expired[r] # 0 /\ expired'[r] # 0 /\ expired'[r] # expired[r]
    <3>1. expired \in [Slots -> Nat] /\ expired' \in [Slots -> Nat]
      BY NextIInv, ClockAssumption DEF IInv, TypeOK, Times, Forever
    <3>2. expired[r] \in Nat /\ expired'[r] \in Nat BY <3>1, Zenon
    <3>3. QED BY <3>1, <3>2
  <2>1. ASSUME NEW c \in Clients, NEW s \in Slots, NEW v, NEW e,
               checkAndHold(c, s, v, e)
        PROVE  Redirected(r)
    <3>1. c \in Threads BY Zenon DEF Threads
    <3>2. r = s BY <2>0, <2>1, Zenon DEF checkAndHold
    <3>3. ~SameDirection(s, v) /\ \E f : Enter(c, s, v, f)
      <4>1. CASE expired' = [expired EXCEPT ![s] = Prolonged(s, e)]
        <5>1. expired'[s] = Prolonged(s, e) BY <2>0, <4>1, Zenon
        <5>2. QED BY <2>0, <3>2, <5>1 DEF Prolonged
      <4>2. QED BY <2>0, <2>1, <3>2, <4>1, Zenon DEF checkAndHold
    <3>4. monitor' = c /\ args'[c].slot = s /\ args'[c].val = v
      BY <3>1, <3>3 DEF Enter, IInv, TypeOK
    <3>5. QED BY <3>2, <3>3, <3>4, Zenon DEF SameDirection
  <2>2. ASSUME NEW t, NEW s \in Slots, release(t, s) PROVE FALSE
    BY <2>0, <2>2, Zenon DEF release
  <2>3. CASE ClearFill
    BY <2>0, <2>3, Zenon DEF ClearFill
  <2>4. CASE Tick \/ LoadProtocol \/ Unplug \/ AutoRelease \/ UNCHANGED vars
    BY <2>0, <2>4, Zenon
    DEF Tick, LoadProtocol, Unplug, AutoRelease, CheckSlot, NextRound, vars
  <2>5. CASE \E t \in Threads : InCall(t)
    BY <2>0, <2>5, Zenon DEF InCall, ReleaseOldHat, Send, ProtocolCall, Finish
  <2>6. CASE ReleaseDue
    <3>1. args[Daemon].slot \in Slots BY Zenon DEF IInv, TypeOK, Args, Threads
    <3>2. QED BY <2>2, <2>6, <3>1, Zenon DEF ReleaseDue
  <2>7. CASE \E c \in Clients : CheckAndHoldStick(c)
    <3>1. PICK c \in Clients : CheckAndHoldStick(c) BY <2>7, Zenon
    <3>2. args[c].slot \in Slots BY Zenon DEF IInv, TypeOK, Args, Threads
    <3>3. QED BY <2>1, <3>1, <3>2, Zenon DEF CheckAndHoldStick
  <2>8. CASE \E c \in Clients : ClientCall(c)
    <3>1. PICK c \in Clients : ClientCall(c) BY <2>8, Zenon
    <3>2. ASSUME NEW s \in Slots, NEW v \in Actions(s), HoldButton(c, s, v)
          PROVE  Redirected(r)
      BY <2>1, <3>2, Zenon DEF HoldButton
    <3>3. ASSUME NEW s \in Slots, NEW v \in Actions(s), HoldStick(c, s, v)
          PROVE  FALSE
      BY <2>0, <3>3, Zenon DEF HoldStick
    <3>4. ASSUME NEW s \in Slots, Release(c, s) PROVE FALSE
      BY <2>2, <3>4, Zenon DEF Release
    <3>5. QED BY <3>1, <3>2, <3>3, <3>4, Zenon DEF ClientCall
  <2>9. CASE ClearSendDefault \/ ClearClosePort \/ ClearUnset
    BY <2>0, <2>9, Zenon DEF ClearSendDefault, ClearClosePort, ClearUnset
  <2>10. QED
    BY <2>3, <2>4, <2>5, <2>6, <2>7, <2>8, <2>9, Zenon DEF Next, Clear
<1>2. QED BY <1>1, Invariance, PTL DEF Spec, HoldsAreOnlyProlonged
=============================================================================
