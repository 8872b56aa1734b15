----------------------------- MODULE PGConLink -----------------------------
(***************************************************************************)
(* PGConProtocol over PGConSerialPort, the serial line, and the firmware   *)
(* of firmware/Joystick.c at its other end.  The protocol keeps no state:  *)
(* a call sends one code per button or axis, and the firmware's virtual    *)
(* controller is the only record.  A stick position takes two codes, and   *)
(* the firmware can report to the console between them.                    *)
(***************************************************************************)
EXTENDS SwitchActions, Sequences

CONSTANTS Buttons, Directions,
          Backlog      \* a code waits until fewer than this many are unread

ASSUME ActionsAssumption == Buttons \subseteq AllButtons /\ Directions \subseteq AllDirections
ASSUME BacklogAssumption == Backlog \in Nat

VARIABLES session,    \* "closed", "checking", "open" or "clearing"
          half,       \* the stick position whose Y code is still to be sent
          line,       \* codes written and not yet received
          answered,   \* bytes from the firmware wait in the input stream
          vc,         \* virtual_controller
          busy,       \* the firmware is inside the loop of receiveCommand
          report,     \* the last report given to the console
          asked,      \* history: the controller the calls have described
          vertical,   \* history: the last vertical position asked of either stick
          link        \* history: what vc holds when line is empty

vars == <<session, half, line, answered, vc, busy, report, asked, vertical, link>>
padVars == <<vc, busy, report>>

None == "none"
Codes == 0 .. 49
Bytes == 0 .. 255

TypeOK ==
    /\ session \in {"closed", "checking", "open", "clearing"}
    /\ half \in Directions \cup {None}
    /\ line \in Seq(Codes)
    /\ answered \in BOOLEAN /\ busy \in BOOLEAN
    /\ vc \in [Slots -> Bytes] /\ report \in [Slots -> Bytes] /\ asked \in [Slots -> Bytes]
    /\ vertical \in Bytes
    /\ link \in {"following", "unknown"}

(* init() and initVirtualController() *)
Init ==
    /\ session = "closed" /\ half = None
    /\ line = <<>> /\ answered = FALSE
    /\ vc = RestPad /\ report = RestPad /\ asked = RestPad
    /\ vertical = 128
    /\ busy = FALSE
    /\ link = "following"

-----------------------------------------------------------------------------
(* The program.                                                            *)

Usable == session \in {"open", "clearing"}

(* PGConProtocol.send *)
send(code) ==
    /\ Len(line) < Backlog
    /\ line' = Append(line, code)

Call(code, meaning) ==
    /\ Usable
    /\ send(code)
    /\ asked' = Overlay(meaning, asked)
    /\ vertical' = IF DOMAIN meaning \subseteq {"LY", "RY"}
                   THEN meaning[CHOOSE s \in DOMAIN meaning : TRUE] ELSE vertical
    /\ UNCHANGED <<session, answered, padVars, link>>

hold(b) ==
    /\ half = None
    /\ Call(holdCommandPGCon[b], Held(b))
    /\ UNCHANGED half

(* Mutant: the hold code is sent again. *)
releaseHolds(b) ==
    /\ half = None
    /\ Call(holdCommandPGCon[b], Released(b))
    /\ UNCHANGED half

release(b) ==
    /\ half = None
    /\ Call(releaseCommandPGCon[b], Released(b))
    /\ UNCHANGED half

(* set, first code ... *)
setX(d) ==
    /\ half = None
    /\ Call(stickCommandPGCon[standardStick[d][1]], AxisX(d))
    /\ half' = d

(* ... and second code.  Calls come from ControllerService's monitor, so no
   other call comes in between; clear() does not take the monitor and may. *)
setY(d) ==
    /\ half = d
    /\ Call(stickCommandPGCon[standardStick[d][2]], AxisY(d))
    /\ half' = None

(* The constructor and the two codes of checkConnection. *)
Open ==
    /\ session = "closed"
    /\ half = None
    /\ Len(line) + 1 < Backlog
    /\ session' = "checking"
    /\ line' = line \o <<0, 49>>
    /\ answered' = FALSE
    /\ asked' = RestPad /\ vertical' = 128
    /\ link' = "following"
    /\ UNCHANGED <<half, padVars>>

(* After 100 ms: inputStream.available() == 0 is taken for a connection. *)
Connected ==
    /\ session = "checking"
    /\ ~answered
    /\ session' = "open"
    /\ UNCHANGED <<half, line, answered, padVars, asked, vertical, link>>

(* clear(): of an open protocol, or of one whose check said no ... *)
ClearSend ==
    /\ session = "open" \/ (session = "checking" /\ answered)
    /\ send(49)
    /\ session' = "clearing"
    /\ asked' = RestPad /\ vertical' = 128
    /\ UNCHANGED <<half, answered, padVars, link>>

(* ... and the port is closed: a call that is half way fails. *)
ClearClose ==
    /\ session = "clearing"
    /\ session' = "closed"
    /\ half' = None
    /\ UNCHANGED <<line, answered, padVars, asked, vertical, link>>

(* The program ends without clear(); what was written still arrives. *)
Die ==
    /\ session # "closed"
    /\ session' = "closed"
    /\ half' = None
    /\ link' = "unknown"
    /\ UNCHANGED <<line, answered, padVars, asked, vertical>>

-----------------------------------------------------------------------------
(* The firmware.                                                           *)

(* The bit each pair of button cases 1 .. 20, 29 .. 36 is about. *)
caseButton(c) ==
    CASE c = 1 -> "A" [] c = 3 -> "B" [] c = 5 -> "X" [] c = 7 -> "Y" [] c = 9 -> "L"
      [] c = 11 -> "R" [] c = 13 -> "ZL" [] c = 15 -> "ZR" [] c = 17 -> "L_STICK"
      [] c = 19 -> "R_STICK" [] c = 29 -> "PLUS" [] c = 31 -> "MINUS" [] c = 33 -> "HOME"
      [] c = 35 -> "CAPTURE"

ButtonCases == {1, 3, 5, 7, 9, 11, 13, 15, 17, 19, 29, 31, 33, 35}

(* The position cases 21, 23, 25, 27 give the hat. *)
caseHat(c) == CASE c = 21 -> 0 [] c = 23 -> 4 [] c = 25 -> 6 [] c = 27 -> 2

HatCases == {21, 23, 25, 27}

(* Cases 37 .. 48: minimum, maximum and centre of an axis; 46 .. 48 are those
   of the right stick's Y and store to LY. *)
caseAxis(c) ==
    LET axis == CASE c \in 37 .. 39 -> "LX" [] c \in 40 .. 42 -> "LY"
                  [] c \in 43 .. 45 -> "RX" [] c \in 46 .. 48 -> "LY"
    IN  At(axis, CASE c \in {37, 40, 43, 46} -> 0
                   [] c \in {38, 41, 44, 47} -> 255
                   [] c \in {39, 42, 45, 48} -> 128)

(* Mutant: 49 only centres the sticks. *)
executedWithoutReset == [c \in Codes |->
    CASE c \in ButtonCases -> At(caseButton(c), 1)
      [] c - 1 \in ButtonCases -> At(caseButton(c - 1), 0)
      [] c \in HatCases -> At("HAT", caseHat(c))
      [] c - 1 \in HatCases -> At("HAT", 8)
      [] c \in 37 .. 48 -> caseAxis(c)
      [] c = 49 -> [s \in {"LX", "LY", "RX", "RY"} |-> 128]
      [] OTHER -> NoWrite]

(* What executeCommand(c) stores in virtual_controller.  Case 0 only answers. *)
executed == [c \in Codes |->
    CASE c \in ButtonCases -> At(caseButton(c), 1)
      [] c - 1 \in ButtonCases -> At(caseButton(c - 1), 0)
      [] c \in HatCases -> At("HAT", caseHat(c))
      [] c - 1 \in HatCases -> At("HAT", 8)
      [] c \in 37 .. 48 -> caseAxis(c)
      [] c = 49 -> RestPad
      [] OTHER -> NoWrite]

(* One turn of the loop of receiveCommand.  The answer to code 0 reaches the
   program, or comes too late or never. *)
executeCommand ==
    /\ line # <<>>
    /\ vc' = Overlay(executed[Head(line)], vc)
    /\ line' = Tail(line)
    /\ busy' = TRUE
    /\ \/ Head(line) = 0 /\ session = "checking" /\ answered' = TRUE
       \/ UNCHANGED answered
    /\ UNCHANGED <<session, half, report, asked, vertical, link>>

(* Mutant: the loop waits for a next byte. *)
receiveCommandWaits ==
    /\ busy
    /\ line # <<>>
    /\ UNCHANGED vars

(* Serial_ReceiveByte() finds nothing and the loop ends. *)
receiveCommandEnds ==
    /\ busy
    /\ line = <<>>
    /\ busy' = FALSE
    /\ UNCHANGED <<session, half, line, answered, vc, report, asked, vertical, link>>

(* HID_Task, when the console asks for a report. *)
HID_Task ==
    /\ ~busy
    /\ report' = vc
    /\ UNCHANGED <<session, half, line, answered, vc, busy, asked, vertical, link>>

Next ==
    \/ \E b \in Buttons : hold(b) \/ release(b)
    \/ \E d \in Directions : setX(d) \/ setY(d)
    \/ Open \/ Connected \/ ClearSend \/ ClearClose \/ Die
    \/ executeCommand \/ receiveCommandEnds \/ HID_Task

(* The firmware's main loop goes on, and the console goes on polling. *)
Spec ==
    /\ Init /\ [][Next]_vars
    /\ WF_vars(executeCommand) /\ WF_vars(receiveCommandEnds) /\ WF_vars(HID_Task)

-----------------------------------------------------------------------------
(* The codes on the line as writes. *)
WritesOnLine == [i \in 1 .. Len(line) |-> executed[line[i]]]

(* The two sticks share the vertical axis of the left one. *)
SharedDirections == {"L_TOP", "L_CENTER", "L_BOTTOM"}

Meanings == MeaningsOf(Buttons, Directions \cup SharedDirections)

Promised == INSTANCE Gamepad WITH
    asked <- [asked EXCEPT !["LY"] = vertical, !["RY"] = 128],
    line <- WritesOnLine, pad <- vc, link <- link

(* The codes of the enums and the cases of executeCommand implement the
   promise of Protocol, across clear, a program that dies, and the reset that
   the connection check sends, for a controller on which both sticks move LY
   and nothing moves RY: a session that leaves the right stick alone gets
   exactly what it asked for. *)
ImplementsGamepad == Promised!Spec

(* Once the line is empty every slot but the vertical axes is as the calls
   described it, LY is where either stick was last sent, and RY has never
   moved, since no case of executeCommand stores to it. *)
OnlyVerticalAxesDiffer ==
    /\ line = <<>> /\ link = "following" =>
         /\ \A s \in Slots \ {"LY", "RY"} : vc[s] = asked[s]
         /\ vc["LY"] = vertical
    /\ vc["RY"] = 128

(* What the firmware holds once it has read everything is shown to the
   console, unless new codes arrive first: the loop of receiveCommand does
   not keep HID_Task from its turn (button ZR stands for all slots). *)
ConsoleCatchesUp ==
    \A v \in {0, 1} :
        vc["ZR"] = v /\ line = <<>> ~> report["ZR"] = v \/ line # <<>>
=============================================================================
