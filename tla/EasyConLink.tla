---------------------------- MODULE EasyConLink ----------------------------
(***************************************************************************)
(* EasyConProtocolV140/V147 over EasyConSerialPort, down to the bytes on   *)
(* the line.  The protocol keeps the seven bytes of a controller report,   *)
(* changes the part a call is about and sends the whole report, packed     *)
(* seven bits to a byte so that only the last byte of a packet has its top *)
(* bit set.  The adapter is not part of the repository: it is modelled as  *)
(* far as this encoding determines it.                                     *)
(*                                                                         *)
(* Bytes are unsigned; bytes[i] of the code is currentBytes[i + 1].        *)
(***************************************************************************)
EXTENDS SwitchActions, EasyConPacket

CONSTANTS Buttons, Directions,
          Backlog      \* a call waits until at most this many bytes are unread

ASSUME ActionsAssumption == Buttons \subseteq AllButtons /\ Directions \subseteq AllDirections
ASSUME BacklogAssumption == Backlog \in Nat

VARIABLES session,       \* "closed", "checking", "open" or "clearing"
          currentBytes,  \* the report the protocol object keeps
          line,          \* bytes written and not yet read by the adapter
          inbuf,         \* bytes of an unfinished packet in the adapter
          report,        \* the last report the adapter unpacked
          asked,         \* history: the controller the calls describe
          flight,        \* history: the controllers sent and not yet unpacked
          link           \* history: what the adapter shows when line is empty

linkVars == <<session, currentBytes, line, inbuf, report, asked, flight, link>>
vars == <<linkVars, loopVars>>

(* The controller a report stands for: the upper buttons in the first byte. *)
PadOf(bytes) ==
    [s \in Slots |->
        CASE s = "HAT" -> bytes[3]
          [] s = "LX" -> bytes[4] [] s = "LY" -> bytes[5]
          [] s = "RX" -> bytes[6] [] s = "RY" -> bytes[7]
          [] OTHER -> LET code == commandEasyCon[s] IN
                      IF code <= 128 THEN (bytes[2] \div code) % 2
                      ELSE (bytes[1] \div (code \div 256)) % 2]

(* EasyConProtocol.getDefault *)
getDefault == <<0, 0, 8, 128, 128, 128, 128>>

TypeOK ==
    /\ session \in {"closed", "checking", "open", "clearing"}
    /\ currentBytes \in [1 .. 7 -> Byte]
    /\ line \in Seq(Byte)
    /\ inbuf \in Seq(0 .. 127) /\ Len(inbuf) < 8
    /\ report \in [1 .. 7 -> Byte]
    /\ asked \in [Slots -> Byte]
    /\ flight \in Seq([Slots -> Byte])
    /\ link \in {"following", "cleared", "unknown"}
    /\ pc \in {"idle", "loop", "done"}

Init ==
    /\ session = "closed"
    /\ currentBytes = getDefault /\ report = getDefault
    /\ line = <<>> /\ inbuf = <<>>
    /\ asked = RestPad /\ flight = <<>>
    /\ link = "following"
    /\ Idle

-----------------------------------------------------------------------------
(* EasyConSerialPort.sendCommand: convert the report ... *)
sendCommand(bytes) ==
    /\ pc = "idle"
    /\ Len(line) <= Backlog
    /\ flight' = Append(flight, PadOf(bytes))
    /\ Start(bytes)
    /\ UNCHANGED line

(* ... turn by turn: convert has local variables only, so that nothing else
   needs to be interleaved with its loop ... *)
convert == Turn /\ UNCHANGED linkVars

(* ... and write the packet. *)
Write ==
    /\ line' = line \o packet
    /\ Return
    /\ UNCHANGED <<session, currentBytes, inbuf, report, asked, flight, link>>

Outside == pc = "idle" /\ UNCHANGED loopVars

-----------------------------------------------------------------------------
(* Setting and clearing one bit of a byte: |= and &= ~. *)
Or(byte, bit) == IF (byte \div bit) % 2 = 1 THEN byte ELSE byte + bit

AndNot(byte, bit) == IF (byte \div bit) % 2 = 1 THEN byte - bit ELSE byte

(* The open port takes calls; so does one that clear() is about to close. *)
Usable == session \in {"open", "clearing"}

(* A call that means m on the controller, and the report it sends. *)
Report(m, bytes) ==
    /\ Usable
    /\ currentBytes' = bytes
    /\ asked' = Overlay(m, asked)
    /\ sendCommand(bytes)
    /\ link' = "following"
    /\ UNCHANGED <<session, inbuf, report>>

hold(b) ==
    LET code == commandEasyCon[b] IN
    Report(Held(b),
           CASE isHat(b) -> [currentBytes EXCEPT ![3] = code]
             [] ~isHat(b) /\ code <= 128 ->
                  [currentBytes EXCEPT ![2] = Or(@, code)]
             [] OTHER -> [currentBytes EXCEPT ![1] = Or(@, code \div 256)])

release(b) ==
    LET code == commandEasyCon[b] IN
    Report(Released(b),
           CASE isHat(b) -> [currentBytes EXCEPT ![3] = 8]
             [] ~isHat(b) /\ code <= 128 ->
                  [currentBytes EXCEPT ![2] = AndNot(@, code)]
             [] OTHER -> [currentBytes EXCEPT ![1] = AndNot(@, code \div 256)])

set(d) ==
    LET x == stickCommandEasyCon(standardStick[d][1])
        y == stickCommandEasyCon(standardStick[d][2])
    IN  Report(Overlay(AxisX(d), AxisY(d)),
               IF isLeft(d) THEN [currentBytes EXCEPT ![4] = x, ![5] = y]
                            ELSE [currentBytes EXCEPT ![6] = x, ![7] = y])

(* The constructor and the two bytes of checkConnection. *)
Open ==
    /\ Outside
    /\ session = "closed"
    /\ Len(line) <= Backlog
    /\ session' = "checking"
    /\ currentBytes' = getDefault /\ asked' = RestPad
    /\ line' = line \o <<165, 132>>
    /\ link' = IF \/ link = "cleared"
                  \/ link = "following" /\ asked = RestPad
               THEN "following" ELSE "unknown"
    /\ UNCHANGED <<inbuf, report, flight>>

(* isConnected() saw an answer in time. *)
Connected ==
    /\ Outside
    /\ session = "checking"
    /\ session' = "open"
    /\ UNCHANGED <<currentBytes, line, inbuf, report, asked, flight, link>>

(* Mutant: clear() sends the bytes it has. *)
ClearSendCurrent ==
    /\ session \in {"open", "checking"}
    /\ sendCommand(currentBytes)
    /\ session' = "clearing"
    /\ link' = "cleared"
    /\ UNCHANGED <<currentBytes, inbuf, report, asked>>

(* clear() of an open protocol, or of one that did not answer: the default
   report goes out, currentBytes keeps what it was ... *)
ClearSend ==
    /\ session \in {"open", "checking"}
    /\ sendCommand(getDefault)
    /\ session' = "clearing"
    /\ link' = "cleared"
    /\ UNCHANGED <<currentBytes, inbuf, report, asked>>

(* ... and the port is closed. *)
ClearClose ==
    /\ Outside
    /\ session = "clearing"
    /\ session' = "closed"
    /\ UNCHANGED <<currentBytes, line, inbuf, report, asked, flight, link>>

(* The program ends without clear(); what was written still arrives. *)
Die ==
    /\ Outside
    /\ session # "closed"
    /\ session' = "closed"
    /\ link' = "unknown"
    /\ UNCHANGED <<currentBytes, line, inbuf, report, asked, flight>>

-----------------------------------------------------------------------------
(* The adapter (external).                                                  *)

(* A byte with its top bit set ends a packet; anything but eight bytes is no
   report (the bytes of the connection check). *)
Receive ==
    /\ Outside
    /\ line # <<>>
    /\ line' = Tail(line)
    /\ LET b == Head(line) IN
       \/ /\ b < 128
          /\ inbuf' = Append(inbuf, b)
          /\ UNCHANGED <<report, flight>>
       \/ /\ b >= 128 /\ Len(inbuf) = 7
          /\ inbuf' = <<>>
          /\ report' = Unpacked(Append(inbuf, b - 128))
          /\ flight' = Tail(flight)
       \/ /\ b >= 128 /\ Len(inbuf) # 7
          /\ inbuf' = <<>>
          /\ UNCHANGED <<report, flight>>
    /\ UNCHANGED <<session, currentBytes, asked, link>>

Next ==
    \/ \E b \in Buttons : hold(b) \/ release(b)
    \/ \E d \in Directions : set(d)
    \/ Open \/ Connected \/ ClearSend \/ ClearClose \/ Die
    \/ convert \/ Write
    \/ Receive

(* The adapter goes on reading, and a thread inside sendCommand goes on. *)
Spec == Init /\ [][Next]_vars /\ WF_vars(Receive) /\ WF_vars(convert \/ Write)

-----------------------------------------------------------------------------
Meanings == MeaningsOf(Buttons, Directions)

Promised == INSTANCE Gamepad WITH line <- flight, pad <- PadOf(report)

(* The bit operations on currentBytes, the seven-bit packing and its framing
   implement the promise of Protocol: the adapter sees the reports of the
   calls, whole, in order, each exactly as the calls described it, and a new
   session after clear() starts from a controller at rest.  What reaches the
   console settles on what the calls of the session described, or on a
   controller at rest after clear(). *)
ImplementsGamepad == Promised!Spec /\ []Promised!SettledPad
=============================================================================
