-------------------------- MODULE PGConLinkProofs --------------------------
(***************************************************************************)
(* PGConProtocol, the serial line and firmware/Joystick.c implement the    *)
(* safety part of Gamepad for every set of buttons and positions and every *)
(* length of the line, and so OnlyVerticalAxesDiffer holds.                *)
(***************************************************************************)
EXTENDS PGConLink, SequenceTheorems, TLAPS

(* What LY and RY show on the firmware's controller. *)
Shown == [asked EXCEPT !["LY"] = vertical, !["RY"] = 128]

(* The theorems about Gamepad, under the mapping of Promised. *)
Pad == INSTANCE GamepadProofs WITH
    asked <- Shown, line <- WritesOnLine, pad <- vc, link <- link

(* A protocol that is not closed is followed; nothing stores to RY. *)
LinkInv ==
    /\ TypeOK
    /\ session # "closed" => link = "following"
    /\ vc["RY"] = 128

-----------------------------------------------------------------------------
(* The enums of output/action against the cases of executeCommand.         *)

(* The buttons and the hat as sets of names. *)
LEMMA Names ==
  /\ AllButtons = {"A", "B", "X", "Y", "L", "R", "ZL", "ZR", "L_STICK", "R_STICK", "D_TOP",
                   "D_BOTTOM", "D_LEFT", "D_RIGHT", "PLUS", "MINUS", "HOME", "CAPTURE"}
  /\ BitButtons = {"A", "B", "X", "Y", "L", "R", "ZL", "ZR", "L_STICK", "R_STICK",
                   "PLUS", "MINUS", "HOME", "CAPTURE"}
  BY DEF AllButtons, BitButtons, isHat, commandEasyCon

(* Every pair of button cases is about a button of the controller. *)
LEMMA CaseButtons == \A c \in ButtonCases : caseButton(c) \in BitButtons /\ c \in Codes /\ c + 1 \in Codes
  BY Names DEF ButtonCases, caseButton, Codes

(* The hold code of a button is the case that sets it. *)
LEMMA HoldCodes ==
  ASSUME NEW b \in AllButtons
  PROVE  /\ holdCommandPGCon[b] \in Codes /\ releaseCommandPGCon[b] = holdCommandPGCon[b] + 1
         /\ isHat(b) => /\ holdCommandPGCon[b] \in HatCases
                        /\ caseHat(holdCommandPGCon[b]) = HatPosition[b]
         /\ ~isHat(b) => /\ holdCommandPGCon[b] \in ButtonCases
                         /\ caseButton(holdCommandPGCon[b]) = b
  BY Names DEF holdCommandPGCon, releaseCommandPGCon, isHat, HatCases, ButtonCases, caseHat,
               caseButton, HatPosition, Codes

(* What hold and release send is what they mean. *)
LEMMA ButtonWrites ==
  ASSUME NEW b \in AllButtons
  PROVE  /\ holdCommandPGCon[b] \in Codes /\ releaseCommandPGCon[b] \in Codes
         /\ executed[holdCommandPGCon[b]] = Held(b)
         /\ executed[releaseCommandPGCon[b]] = Released(b)
  <1> DEFINE c == holdCommandPGCon[b]
  <1>1. CASE isHat(b)
    <2>1. c \in HatCases /\ caseHat(c) = HatPosition[b] /\ releaseCommandPGCon[b] = c + 1
      BY <1>1, HoldCodes, Zenon
    <2> HIDE DEF c
    <2>2. /\ c \in Codes /\ c + 1 \in Codes /\ (c + 1) - 1 = c
          /\ c \notin ButtonCases /\ c - 1 \notin ButtonCases
          /\ c + 1 \notin ButtonCases /\ c + 1 \notin HatCases
      BY <2>1 DEF HatCases, ButtonCases, Codes
    <2>3. executed[c] = At("HAT", caseHat(c))
      BY <2>1, <2>2 DEF executed, Codes, ButtonCases, HatCases
    <2>4. executed[c + 1] = At("HAT", 8)
      BY <2>1, <2>2 DEF executed, Codes, ButtonCases, HatCases
    <2> QED BY <1>1, <2>1, <2>2, <2>3, <2>4, Zenon DEF Held, Released, c
  <1>2. CASE ~isHat(b)
    <2>1. c \in ButtonCases /\ caseButton(c) = b /\ releaseCommandPGCon[b] = c + 1
      BY <1>2, HoldCodes, Zenon
    <2> HIDE DEF c
    <2>2. c \in Codes /\ c + 1 \in Codes /\ (c + 1) - 1 = c /\ c + 1 \notin ButtonCases
      BY <2>1 DEF ButtonCases, Codes
    <2>3. executed[c] = At(caseButton(c), 1)
      BY <2>1, <2>2 DEF executed, Codes, ButtonCases, HatCases
    <2>4. executed[c + 1] = At(caseButton(c), 0)
      BY <2>1, <2>2 DEF executed, Codes, ButtonCases, HatCases
    <2> QED BY <1>2, <2>1, <2>2, <2>3, <2>4, Zenon DEF Held, Released, c
  <1> QED BY <1>1, <1>2, Zenon

(* The positions of the sticks as a set of names. *)
LEMMA Positions ==
  AllDirections = {"L_TOP", "L_TOP_RIGHT", "L_RIGHT", "L_BOTTOM_RIGHT", "L_BOTTOM",
                   "L_BOTTOM_LEFT", "L_LEFT", "L_TOP_LEFT", "L_CENTER",
                   "R_TOP", "R_TOP_RIGHT", "R_RIGHT", "R_BOTTOM_RIGHT", "R_BOTTOM",
                   "R_BOTTOM_LEFT", "R_LEFT", "R_TOP_LEFT", "R_CENTER"}
  BY Zenon DEF AllDirections, standardStick

(* The codes a stick position is sent with: the X codes are those of its own
   stick, the Y codes those of either. *)
LEMMA StickCodes ==
  ASSUME NEW d \in AllDirections
  PROVE  LET x == stickCommandPGCon[standardStick[d][1]]
             y == stickCommandPGCon[standardStick[d][2]]
         IN  /\ x \in (IF isLeft(d) THEN 37 .. 39 ELSE 43 .. 45)
             /\ y \in 40 .. 42 \/ y \in 46 .. 48
             /\ AxisX(d) = At(IF isLeft(d) THEN "LX" ELSE "RX",
                              CASE x \in {37, 43} -> 0 [] x \in {38, 44} -> 255 [] OTHER -> 128)
             /\ Vertical(d) = CASE y \in {40, 46} -> 0 [] y \in {41, 47} -> 255 [] OTHER -> 128
  BY Positions DEF standardStick, stickCommandPGCon, isLeft, AxisX, Vertical

(* What set sends is what it means, but for the stick whose Y axis moves. *)
LEMMA StickWrites ==
  ASSUME NEW d \in AllDirections
  PROVE  /\ stickCommandPGCon[standardStick[d][1]] \in Codes
         /\ stickCommandPGCon[standardStick[d][2]] \in Codes
         /\ executed[stickCommandPGCon[standardStick[d][1]]] = AxisX(d)
         /\ executed[stickCommandPGCon[standardStick[d][2]]] = At("LY", Vertical(d))
  <1> DEFINE x == stickCommandPGCon[standardStick[d][1]]
             y == stickCommandPGCon[standardStick[d][2]]
  <1>0. /\ x \in (IF isLeft(d) THEN 37 .. 39 ELSE 43 .. 45)
        /\ y \in 40 .. 42 \/ y \in 46 .. 48
        /\ AxisX(d) = At(IF isLeft(d) THEN "LX" ELSE "RX",
                         CASE x \in {37, 43} -> 0 [] x \in {38, 44} -> 255 [] OTHER -> 128)
        /\ Vertical(d) = CASE y \in {40, 46} -> 0 [] y \in {41, 47} -> 255 [] OTHER -> 128
    BY StickCodes, Zenon
  <1> HIDE DEF x, y
  <1>1. ASSUME NEW c \in 37 .. 48 PROVE c \in Codes /\ executed[c] = caseAxis(c)
    BY <1>1 DEF executed, Codes, ButtonCases, HatCases
  <1>2. x \in 37 .. 48 /\ y \in 37 .. 48
    BY <1>0
  <1>3. caseAxis(x) = AxisX(d)
    BY <1>0 DEF caseAxis
  <1>4. caseAxis(y) = At("LY", Vertical(d))
    BY <1>0 DEF caseAxis
  <1> QED BY <1>1, <1>2, <1>3, <1>4, Zenon DEF x, y

-----------------------------------------------------------------------------
(* Writes and the controller.                                              *)

(* The slots of the controller, and a controller at rest. *)
LEMMA SlotFacts ==
  /\ BitButtons \subseteq Slots /\ {"HAT", "LX", "LY", "RX", "RY"} \subseteq Slots
  /\ BitButtons \cap {"HAT", "LX", "LY", "RX", "RY"} = {}
  /\ RestPad \in [Slots -> Bytes] /\ DOMAIN RestPad = Slots
  /\ RestPad["LY"] = 128 /\ RestPad["RY"] = 128
  BY Names DEF Slots, RestPad, Bytes

(* Gamepad's writes over the slots and bytes of this controller. *)
LEMMA WriteSet ==
  /\ Pad!PadSlots = Slots
  /\ Pad!WritesOf(Bytes) = UNION {[D -> Bytes] : D \in SUBSET Slots}
  BY SlotFacts, Zenon DEF Pad!PadSlots, Pad!WritesOf

(* A write of one slot is a write. *)
LEMMA AtWrites ==
  ASSUME NEW s \in Slots, NEW v \in Bytes
  PROVE  /\ At(s, v) \in Pad!WritesOf(Bytes)
         /\ s # "RY" => "RY" \notin DOMAIN At(s, v)
  <1>1. At(s, v) \in [{s} -> Bytes] /\ DOMAIN At(s, v) = {s}
    BY Zenon DEF At
  <1>2. {s} \in SUBSET Slots
    BY Zenon
  <1> QED BY <1>1, <1>2, WriteSet, Zenon

(* What a position means on its axes. *)
LEMMA AxisValues ==
  ASSUME NEW d \in AllDirections
  PROVE  /\ \E s \in {"LX", "RX"}, v \in Bytes : AxisX(d) = At(s, v)
         /\ \E s \in {"LY", "RY"} : AxisY(d) = At(s, Vertical(d))
         /\ Vertical(d) \in {0, 128, 255}
  <1>1. Vertical(d) \in {0, 128, 255}
    BY DEF Vertical
  <1>2. \E s \in {"LY", "RY"} : AxisY(d) = At(s, Vertical(d))
    BY Zenon DEF AxisY
  <1>3. \E s \in {"LX", "RX"}, v \in Bytes : AxisX(d) = At(s, v)
    <2>1. 0 \in Bytes /\ 128 \in Bytes /\ 255 \in Bytes
      BY DEF Bytes
    <2> QED BY <2>1 DEF AxisX
  <1> QED BY <1>1, <1>2, <1>3, Zenon

(* What a button means. *)
LEMMA ButtonValues ==
  ASSUME NEW b \in AllButtons
  PROVE  /\ \E s \in BitButtons \cup {"HAT"}, v \in Bytes : Held(b) = At(s, v)
         /\ \E s \in BitButtons \cup {"HAT"}, v \in Bytes : Released(b) = At(s, v)
  <1>1. isHat(b) => HatPosition[b] \in Bytes
    BY DEF isHat, HatPosition, Bytes
  <1>2. ~isHat(b) => b \in BitButtons
    BY Zenon DEF BitButtons
  <1>3. 0 \in Bytes /\ 1 \in Bytes /\ 8 \in Bytes
    BY DEF Bytes
  <1> QED BY <1>1, <1>2, <1>3, Zenon DEF Held, Released

(* Two writes sent as one are a write. *)
LEMMA BothWrites ==
  ASSUME NEW v \in Pad!WritesOf(Bytes), NEW w \in Pad!WritesOf(Bytes)
  PROVE  Overlay(v, w) \in Pad!WritesOf(Bytes)
  <1>1. PICK D \in SUBSET Slots : v \in [D -> Bytes]
    BY WriteSet, Zenon
  <1>2. PICK E \in SUBSET Slots : w \in [E -> Bytes]
    BY WriteSet, Zenon
  <1>3. DOMAIN v = D /\ DOMAIN w = E /\ D \cup E \in SUBSET Slots
    BY <1>1, <1>2, Zenon
  <1>4. Overlay(v, w) \in [D \cup E -> Bytes]
    BY <1>1, <1>2, <1>3, Zenon DEF Overlay
  <1> QED BY <1>3, <1>4, WriteSet, Zenon

(* The meanings of the calls are writes, so Gamepad's theorems apply. *)
LEMMA LinkControllers == Pad!Controllers(Bytes)
  <1> DEFINE W == Pad!WritesOf(Bytes)
             ds == Directions \cup SharedDirections
  <1>1. ASSUME NEW b \in AllButtons PROVE Held(b) \in W /\ Released(b) \in W
    <2>1. PICK s \in BitButtons \cup {"HAT"}, v \in Bytes : Held(b) = At(s, v)
      BY ButtonValues, Zenon
    <2>2. PICK t \in BitButtons \cup {"HAT"}, u \in Bytes : Released(b) = At(t, u)
      BY ButtonValues, Zenon
    <2>3. s \in Slots /\ t \in Slots
      BY Zenon DEF Slots
    <2> QED BY <2>1, <2>2, <2>3, AtWrites, Zenon
  <1>2. ASSUME NEW d \in AllDirections PROVE AxisX(d) \in W
    <2>1. PICK s \in {"LX", "RX"}, v \in Bytes : AxisX(d) = At(s, v)
      BY AxisValues, Zenon
    <2>2. s \in Slots
      BY Zenon DEF Slots
    <2> QED BY <2>1, <2>2, AtWrites, Zenon
  <1>3. ASSUME NEW d \in AllDirections PROVE AxisY(d) \in W
    <2>1. Vertical(d) \in Bytes
      BY AxisValues DEF Bytes
    <2>2. PICK s \in {"LY", "RY"} : AxisY(d) = At(s, Vertical(d))
      BY AxisValues, Zenon
    <2>3. s \in Slots
      BY Zenon DEF Slots
    <2> QED BY <2>1, <2>2, <2>3, AtWrites, Zenon
  <1> HIDE DEF W
  <1>4. ASSUME NEW d \in AllDirections PROVE Overlay(AxisX(d), AxisY(d)) \in W
    BY <1>2, <1>3, BothWrites, Zenon DEF W
  <1>5. Buttons \subseteq AllButtons /\ ds \subseteq AllDirections
    BY ActionsAssumption, Positions, Zenon DEF SharedDirections
  <1> HIDE DEF ds
  <1>6. MeaningsOf(Buttons, ds) \subseteq W
    BY <1>1, <1>2, <1>3, <1>4, <1>5, Zenon DEF MeaningsOf
  <1> QED BY <1>6, SlotFacts, WriteSet, Zenon DEF Pad!Controllers, Meanings, W, ds

(* What executeCommand stores is a write, and never changes RY. *)
LEMMA ExecutedWrites ==
  ASSUME NEW c \in Codes
  PROVE  /\ executed[c] \in Pad!WritesOf(Bytes)
         /\ "RY" \in DOMAIN executed[c] => executed[c]["RY"] = 128
  <1>1. CASE c \in ButtonCases
    <2>1. executed[c] = At(caseButton(c), 1)
      BY <1>1 DEF executed, Codes, ButtonCases, HatCases
    <2>2. caseButton(c) \in Slots /\ caseButton(c) # "RY" /\ 1 \in Bytes
      BY <1>1, CaseButtons, SlotFacts DEF Bytes
    <2> QED BY <2>1, <2>2, AtWrites, Zenon
  <1>2. CASE c - 1 \in ButtonCases
    <2>1. executed[c] = At(caseButton(c - 1), 0)
      BY <1>2 DEF executed, Codes, ButtonCases, HatCases
    <2>2. caseButton(c - 1) \in Slots /\ caseButton(c - 1) # "RY" /\ 0 \in Bytes
      BY <1>2, CaseButtons, SlotFacts DEF Bytes
    <2> QED BY <2>1, <2>2, AtWrites, Zenon
  <1>3. CASE c \in HatCases
    <2>1. executed[c] = At("HAT", caseHat(c)) /\ caseHat(c) \in Bytes
      BY <1>3 DEF executed, Codes, ButtonCases, HatCases, caseHat, Bytes
    <2>2. "HAT" \in Slots
      BY Zenon DEF Slots
    <2> QED BY <2>1, <2>2, AtWrites, Zenon
  <1>4. CASE c - 1 \in HatCases
    <2>1. executed[c] = At("HAT", 8) /\ 8 \in Bytes
      BY <1>4 DEF executed, Codes, ButtonCases, HatCases, Bytes
    <2>2. "HAT" \in Slots
      BY Zenon DEF Slots
    <2> QED BY <2>1, <2>2, AtWrites, Zenon
  <1>5. CASE c \in 37 .. 48
    <2>1. executed[c] = caseAxis(c)
      BY <1>5 DEF executed, Codes, ButtonCases, HatCases
    <2>2. \E s \in {"LX", "LY", "RX"}, v \in {0, 128, 255} : caseAxis(c) = At(s, v)
      BY <1>5 DEF caseAxis
    <2>3. PICK s \in {"LX", "LY", "RX"}, v \in {0, 128, 255} : caseAxis(c) = At(s, v)
      BY <2>2, Zenon
    <2>4. s \in Slots /\ s # "RY" /\ v \in Bytes
      BY DEF Slots, Bytes
    <2> QED BY <2>1, <2>3, <2>4, AtWrites
  <1>6. CASE c = 49
    <2>1. executed[c] = RestPad
      BY <1>6 DEF executed, Codes, ButtonCases, HatCases
    <2> QED BY <2>1, SlotFacts, WriteSet
  <1>7. CASE c = 0
    <2>1. executed[c] = NoWrite
      BY <1>7 DEF executed, Codes, ButtonCases, HatCases
    <2>2. NoWrite \in [{} -> Bytes] /\ DOMAIN NoWrite = {}
      BY Zenon DEF NoWrite
    <2> QED BY <2>1, <2>2, WriteSet, Zenon
  <1>8. \/ c \in ButtonCases \/ c - 1 \in ButtonCases \/ c \in HatCases
        \/ c - 1 \in HatCases \/ c \in 37 .. 48 \/ c = 49 \/ c = 0
    BY DEF Codes, ButtonCases, HatCases
  <1> QED BY <1>1, <1>2, <1>3, <1>4, <1>5, <1>6, <1>7, <1>8, Zenon

(* A write applied to the controller. *)
LEMMA ApplyWrite ==
  ASSUME NEW w \in Pad!WritesOf(Bytes), NEW p \in [Slots -> Bytes]
  PROVE  /\ Overlay(w, p) \in [Slots -> Bytes]
         /\ \A s \in Slots : Overlay(w, p)[s] = IF s \in DOMAIN w THEN w[s] ELSE p[s]
  <1>1. PICK D \in SUBSET Slots : w \in [D -> Bytes]
    BY WriteSet, Zenon
  <1>2. DOMAIN w = D /\ DOMAIN p = Slots /\ DOMAIN w \cup DOMAIN p = Slots
    BY <1>1, Zenon
  <1> QED BY <1>1, <1>2, Zenon DEF Overlay

(* A controller with the vertical axes of the firmware. *)
AsShown(p, v) == [p EXCEPT !["LY"] = v, !["RY"] = 128]

(* It is a controller. *)
LEMMA ShownType ==
  ASSUME NEW p \in [Slots -> Bytes], NEW u \in Bytes
  PROVE  /\ AsShown(p, u) \in [Slots -> Bytes]
         /\ AsShown(p, u)["LY"] = u /\ AsShown(p, u)["RY"] = 128
         /\ \A s \in Slots \ {"LY", "RY"} : AsShown(p, u)[s] = p[s]
  <1>1. 128 \in Bytes
    BY DEF Bytes
  <1>2. "LY" \in Slots /\ "RY" \in Slots
    BY Zenon DEF Slots
  <1> QED BY <1>1, <1>2, Zenon DEF AsShown

(* A call about another slot changes what is asked and what is shown alike. *)
LEMMA ShownOther ==
  ASSUME NEW p \in [Slots -> Bytes], NEW u \in Bytes,
         NEW s \in Slots \ {"LY", "RY"}, NEW v \in Bytes
  PROVE  AsShown(Overlay(At(s, v), p), u) = Overlay(At(s, v), AsShown(p, u))
  <1>1. DOMAIN At(s, v) = {s} /\ At(s, v)[s] = v /\ {s} \cup Slots = Slots
    BY Zenon DEF At
  <1>2. Overlay(At(s, v), p) = [t \in Slots |-> IF t = s THEN v ELSE p[t]]
    BY <1>1, Zenon DEF Overlay
  <1>3. AsShown(p, u) \in [Slots -> Bytes]
    BY ShownType, Zenon
  <1>4. Overlay(At(s, v), AsShown(p, u)) = [t \in Slots |-> IF t = s THEN v ELSE AsShown(p, u)[t]]
    BY <1>1, <1>3, Zenon DEF Overlay
  <1> QED BY <1>2, <1>4 DEF AsShown

(* A call about either vertical axis moves the one that is shown. *)
LEMMA ShownVertical ==
  ASSUME NEW p \in [Slots -> Bytes], NEW u \in Bytes,
         NEW s \in {"LY", "RY"}, NEW v \in Bytes
  PROVE  AsShown(Overlay(At(s, v), p), v) = Overlay(At("LY", v), AsShown(p, u))
  <1>0. s \in Slots /\ "LY" \in Slots
    BY Zenon DEF Slots
  <1>1. /\ DOMAIN At(s, v) = {s} /\ At(s, v)[s] = v /\ {s} \cup Slots = Slots
        /\ DOMAIN At("LY", v) = {"LY"} /\ At("LY", v)["LY"] = v /\ {"LY"} \cup Slots = Slots
    BY <1>0, Zenon DEF At
  <1>2. Overlay(At(s, v), p) = [t \in Slots |-> IF t = s THEN v ELSE p[t]]
    BY <1>1, Zenon DEF Overlay
  <1>3. AsShown(p, u) \in [Slots -> Bytes]
    BY ShownType, Zenon
  <1>4. Overlay(At("LY", v), AsShown(p, u)) = [t \in Slots |-> IF t = "LY" THEN v ELSE AsShown(p, u)[t]]
    BY <1>1, <1>3, Zenon DEF Overlay
  <1> QED BY <1>2, <1>4 DEF AsShown

-----------------------------------------------------------------------------
(* The line as writes.                                                     *)

AsWrites(l) == [i \in 1 .. Len(l) |-> executed[l[i]]]

(* The codes on the line are a sequence of writes. *)
LEMMA LineType ==
  ASSUME NEW l \in Seq(Codes)
  PROVE  /\ AsWrites(l) \in Seq(Pad!WritesOf(Bytes)) /\ Len(AsWrites(l)) = Len(l)
         /\ \A i \in 1 .. Len(l) : AsWrites(l)[i] = executed[l[i]]
  <1>1. \A i \in 1 .. Len(l) : executed[l[i]] \in Pad!WritesOf(Bytes)
    BY ExecutedWrites
  <1> QED BY <1>1 DEF AsWrites

(* Two elements appended one by one. *)
LEMMA TwoAppends ==
  ASSUME NEW S, NEW l \in Seq(S), NEW a \in S, NEW b \in S
  PROVE  Append(Append(l, a), b) = l \o <<a, b>>
  OBVIOUS

(* Sending a code appends its write. *)
LEMMA LineAppend ==
  ASSUME NEW l \in Seq(Codes), NEW c \in Codes
  PROVE  AsWrites(Append(l, c)) = Append(AsWrites(l), executed[c])
  <1> DEFINE a == AsWrites(l)
             n == AsWrites(Append(l, c))
             W == Pad!WritesOf(Bytes)
  <1>1. /\ Append(l, c) \in Seq(Codes) /\ Len(Append(l, c)) = Len(l) + 1 /\ Len(l) \in Nat
        /\ Append(l, c)[Len(l) + 1] = c /\ \A i \in 1 .. Len(l) : Append(l, c)[i] = l[i]
    OBVIOUS
  <1>2. /\ a \in Seq(W) /\ n \in Seq(W) /\ Len(a) = Len(l) /\ Len(n) = Len(l) + 1
        /\ \A i \in 1 .. Len(l) : a[i] = executed[l[i]]
        /\ \A i \in 1 .. Len(l) + 1 : n[i] = executed[Append(l, c)[i]]
    BY <1>1, LineType, Zenon
  <1>3. executed[c] \in W
    BY ExecutedWrites
  <1> HIDE DEF a, n, W
  <1>4. \A i \in 1 .. Len(l) + 1 : n[i] = Append(a, executed[c])[i]
    BY <1>1, <1>2, <1>3
  <1>5. Append(a, executed[c]) \in Seq(W) /\ Len(Append(a, executed[c])) = Len(l) + 1
    BY <1>2, <1>3
  <1>6. n = Append(a, executed[c])
    BY <1>2, <1>4, <1>5, SeqEqual, Zenon
  <1> QED BY <1>6, Zenon DEF a, n

(* Receiving a code takes its write off the line. *)
LEMMA LineTail ==
  ASSUME NEW l \in Seq(Codes), l # <<>>
  PROVE  /\ AsWrites(l) # <<>> /\ Head(AsWrites(l)) = executed[Head(l)]
         /\ AsWrites(Tail(l)) = Tail(AsWrites(l))
  <1> DEFINE a == AsWrites(l)
             n == AsWrites(Tail(l))
             W == Pad!WritesOf(Bytes)
  <1>1. /\ Tail(l) \in Seq(Codes) /\ Len(Tail(l)) = Len(l) - 1 /\ Len(l) \in Nat \ {0}
        /\ l[1] = Head(l) /\ \A i \in 1 .. Len(l) - 1 : Tail(l)[i] = l[i + 1]
    OBVIOUS
  <1>2. /\ a \in Seq(W) /\ n \in Seq(W) /\ Len(a) = Len(l) /\ Len(n) = Len(l) - 1
        /\ \A i \in 1 .. Len(l) : a[i] = executed[l[i]]
        /\ \A i \in 1 .. Len(l) - 1 : n[i] = executed[Tail(l)[i]]
    BY <1>1, LineType, Zenon
  <1> HIDE DEF a, n, W
  <1>3. a # <<>> /\ Head(a) = a[1] /\ a[1] = executed[l[1]]
    BY <1>1, <1>2
  <1>4. Tail(a) \in Seq(W) /\ Len(Tail(a)) = Len(l) - 1 /\ \A i \in 1 .. Len(l) - 1 : Tail(a)[i] = a[i + 1]
    BY <1>1, <1>2, <1>3
  <1>5. \A i \in 1 .. Len(l) - 1 : n[i] = Tail(a)[i]
    BY <1>1, <1>2, <1>4
  <1>6. n = Tail(a)
    BY <1>2, <1>4, <1>5, SeqEqual, Zenon
  <1> QED BY <1>1, <1>3, <1>6, Zenon DEF a, n

-----------------------------------------------------------------------------
(* Every step of the link is a step of the promise.                        *)

(* The state of the link has its type. *)
LEMMA LinkTypes ==
  ASSUME LinkInv
  PROVE  /\ line \in Seq(Codes) /\ vertical \in Bytes
         /\ vc \in [Slots -> Bytes] /\ report \in [Slots -> Bytes] /\ asked \in [Slots -> Bytes]
  BY Zenon DEF LinkInv, TypeOK

(* A call that sends the code of its meaning is Ask (hold, release, set). *)
LEMMA CallAsks ==
  ASSUME LinkInv, NEW code \in Codes, NEW meaning, Call(code, meaning),
         executed[code] \in Meanings, Shown' = Overlay(executed[code], Shown)
  PROVE  Promised!Next
  <1>1. link = "following" /\ link' = "following" /\ vc' = vc
    BY Zenon DEF LinkInv, Call, Usable, padVars
  <1>2. WritesOnLine' = Append(WritesOnLine, executed[code])
    <2>1. line' = Append(line, code) /\ line \in Seq(Codes)
      BY LinkTypes, Zenon DEF Call, send
    <2> QED BY <2>1, LineAppend, Zenon DEF WritesOnLine, AsWrites
  <1>3. Promised!Ask(executed[code])
    BY <1>1, <1>2, Zenon DEF Promised!Ask, Shown, Overlay, Promised!Overlay
  <1> QED BY <1>3, Zenon DEF Promised!Next

(* A call about a button or a horizontal axis. *)
LEMMA OtherCall ==
  ASSUME LinkInv, NEW code \in Codes, NEW s \in Slots \ {"LY", "RY"}, NEW v \in Bytes,
         executed[code] = At(s, v), At(s, v) \in Meanings, Call(code, At(s, v))
  PROVE  /\ Promised!Next
         /\ line' \in Seq(Codes) /\ asked' \in [Slots -> Bytes] /\ vertical' \in Bytes
  <1>1. DOMAIN At(s, v) = {s}
    BY Zenon DEF At
  <1>2. vertical' = vertical /\ asked' = Overlay(At(s, v), asked) /\ line' = Append(line, code)
    BY <1>1, Zenon DEF Call, send
  <1>3. asked' \in [Slots -> Bytes]
    <2>1. At(s, v) \in Pad!WritesOf(Bytes)
      BY AtWrites, Zenon
    <2> QED BY <1>2, <2>1, LinkTypes, ApplyWrite, Zenon
  <1>4. Shown' = Overlay(At(s, v), Shown)
    <2>1. Shown = AsShown(asked, vertical) /\ Shown' = AsShown(Overlay(At(s, v), asked), vertical)
      BY <1>2, Zenon DEF Shown, AsShown
    <2>2. asked \in [Slots -> Bytes] /\ vertical \in Bytes
      BY LinkTypes, Zenon
    <2> QED BY <2>1, <2>2, ShownOther, Zenon
  <1>5. Promised!Next
    BY <1>4, CallAsks, Zenon
  <1> QED BY <1>2, <1>3, <1>5, LinkTypes

(* A call about a vertical axis. *)
LEMMA VerticalCall ==
  ASSUME LinkInv, NEW code \in Codes, NEW s \in {"LY", "RY"}, NEW v \in Bytes,
         executed[code] = At("LY", v), At("LY", v) \in Meanings, Call(code, At(s, v))
  PROVE  /\ Promised!Next
         /\ line' \in Seq(Codes) /\ asked' \in [Slots -> Bytes] /\ vertical' \in Bytes
  <1>1. DOMAIN At(s, v) = {s} /\ At(s, v)[s] = v /\ s \in Slots
    BY Zenon DEF At, Slots
  <1>2. vertical' = v /\ asked' = Overlay(At(s, v), asked) /\ line' = Append(line, code)
    BY <1>1, Zenon DEF Call, send
  <1>3. asked' \in [Slots -> Bytes]
    <2>1. At(s, v) \in Pad!WritesOf(Bytes)
      BY <1>1, AtWrites, Zenon
    <2> QED BY <1>2, <2>1, LinkTypes, ApplyWrite, Zenon
  <1>4. Shown' = Overlay(At("LY", v), Shown)
    <2>1. Shown = AsShown(asked, vertical) /\ Shown' = AsShown(Overlay(At(s, v), asked), v)
      BY <1>2, Zenon DEF Shown, AsShown
    <2>2. asked \in [Slots -> Bytes] /\ vertical \in Bytes
      BY LinkTypes, Zenon
    <2> QED BY <2>1, <2>2, ShownVertical, Zenon
  <1>5. Promised!Next
    BY <1>4, CallAsks, Zenon
  <1> QED BY <1>2, <1>3, <1>5, LinkTypes

(* The rest of LinkInv after a call. *)
LEMMA CallKeeps ==
  ASSUME LinkInv, NEW code, NEW meaning, Call(code, meaning), half' \in Directions \cup {None},
         line' \in Seq(Codes), asked' \in [Slots -> Bytes], vertical' \in Bytes
  PROVE  LinkInv'
  <1>1. answered' \in BOOLEAN /\ busy' \in BOOLEAN
    BY Zenon DEF LinkInv, TypeOK, Call, padVars
  <1>2. vc' = vc /\ report' = report /\ session' = session /\ link' = link
    BY Zenon DEF Call, padVars
  <1>3. vc' \in [Slots -> Bytes] /\ report' \in [Slots -> Bytes]
    BY <1>2, LinkTypes, Zenon
  <1> QED BY <1>1, <1>2, <1>3, Zenon DEF LinkInv, TypeOK

(* hold and release ask for the button they are called with. *)
LEMMA ButtonStep ==
  ASSUME LinkInv, NEW b \in Buttons, hold(b) \/ release(b)
  PROVE  LinkInv' /\ Promised!Next
  <1>1. b \in AllButtons
    BY ActionsAssumption, Zenon
  <1>2. Held(b) \in Meanings /\ Released(b) \in Meanings
    BY Zenon DEF Meanings, MeaningsOf
  <1>3. ASSUME NEW c \in Codes, NEW m, executed[c] = m, m \in Meanings, Call(c, m), UNCHANGED half,
               NEW s \in BitButtons \cup {"HAT"}, NEW v \in Bytes, m = At(s, v)
        PROVE  LinkInv' /\ Promised!Next
    <2>1. s \in Slots \ {"LY", "RY"}
      BY SlotFacts, Zenon
    <2>2. Promised!Next /\ line' \in Seq(Codes) /\ asked' \in [Slots -> Bytes] /\ vertical' \in Bytes
      BY <1>3, <2>1, OtherCall, Zenon
    <2>3. half' \in Directions \cup {None}
      BY <1>3, Zenon DEF LinkInv, TypeOK
    <2> QED BY <1>3, <2>2, <2>3, CallKeeps, Zenon
  <1>4. CASE hold(b)
    <2>1. PICK s \in BitButtons \cup {"HAT"}, v \in Bytes : Held(b) = At(s, v)
      BY <1>1, ButtonValues, Zenon
    <2> QED BY <1>1, <1>2, <1>3, <1>4, <2>1, ButtonWrites, Zenon DEF hold
  <1>5. CASE release(b)
    <2>1. PICK s \in BitButtons \cup {"HAT"}, v \in Bytes : Released(b) = At(s, v)
      BY <1>1, ButtonValues, Zenon
    <2> QED BY <1>1, <1>2, <1>3, <1>5, <2>1, ButtonWrites, Zenon DEF release
  <1> QED BY <1>4, <1>5, Zenon

(* set asks for the X axis of its stick, then for the one Y axis there is. *)
LEMMA StickStep ==
  ASSUME LinkInv, NEW d \in Directions, setX(d) \/ setY(d)
  PROVE  LinkInv' /\ Promised!Next
  <1>1. d \in AllDirections
    BY ActionsAssumption, Zenon
  <1>2. CASE setX(d)
    <2>1. PICK s \in {"LX", "RX"}, v \in Bytes : AxisX(d) = At(s, v)
      BY <1>1, AxisValues, Zenon
    <2>2. AxisX(d) \in Meanings
      BY Zenon DEF Meanings, MeaningsOf
    <2>3. s \in Slots \ {"LY", "RY"}
      BY Zenon DEF Slots
    <2> DEFINE c == stickCommandPGCon[standardStick[d][1]]
    <2>4. c \in Codes /\ executed[c] = At(s, v) /\ Call(c, At(s, v)) /\ half' = d
      BY <1>1, <1>2, <2>1, StickWrites, Zenon DEF setX
    <2> HIDE DEF c
    <2>5. Promised!Next /\ line' \in Seq(Codes) /\ asked' \in [Slots -> Bytes] /\ vertical' \in Bytes
      BY <2>1, <2>2, <2>3, <2>4, OtherCall, Zenon
    <2> QED BY <2>4, <2>5, CallKeeps, Zenon
  <1>3. CASE setY(d)
    <2>1. PICK s \in {"LY", "RY"} : AxisY(d) = At(s, Vertical(d))
      BY <1>1, AxisValues, Zenon
    <2>2. Vertical(d) \in Bytes
      BY <1>1, AxisValues DEF Bytes
    <2>3. At("LY", Vertical(d)) \in Meanings
      <3>1. \E e \in SharedDirections : AxisY(e) = At("LY", Vertical(d))
        <4>1. /\ AxisY("L_TOP") = At("LY", 0) /\ AxisY("L_CENTER") = At("LY", 128)
              /\ AxisY("L_BOTTOM") = At("LY", 255)
          BY Zenon DEF AxisY, Vertical, isLeft
        <4>2. Vertical(d) = 0 \/ Vertical(d) = 128 \/ Vertical(d) = 255
          BY <1>1, AxisValues
        <4> QED BY <4>1, <4>2, Zenon DEF SharedDirections
      <3> QED BY <3>1, Zenon DEF Meanings, MeaningsOf
    <2> DEFINE c == stickCommandPGCon[standardStick[d][2]]
    <2>4. c \in Codes /\ executed[c] = At("LY", Vertical(d)) /\ Call(c, At(s, Vertical(d))) /\ half' = None
      BY <1>1, <1>3, <2>1, StickWrites, Zenon DEF setY
    <2> HIDE DEF c
    <2>5. Promised!Next /\ line' \in Seq(Codes) /\ asked' \in [Slots -> Bytes] /\ vertical' \in Bytes
      BY <2>2, <2>3, <2>4, VerticalCall, Zenon
    <2> QED BY <2>4, <2>5, CallKeeps, Zenon
  <1> QED BY <1>2, <1>3, Zenon

(* The connection check asks a question and resets: Clear after a question. *)
LEMMA OpenStep == ASSUME LinkInv, Open PROVE LinkInv' /\ Promised!Next
  <1>1. 0 \in Codes /\ 49 \in Codes /\ executed[0] = NoWrite /\ executed[49] = RestPad
    BY DEF executed, Codes, ButtonCases, HatCases
  <1>2. line \in Seq(Codes) /\ line' = line \o <<0, 49>> /\ line' = Append(Append(line, 0), 49)
        /\ Append(line, 0) \in Seq(Codes) /\ line' \in Seq(Codes)
    BY <1>1, LinkTypes DEF Open
  <1>3. WritesOnLine' = WritesOnLine \o <<NoWrite, RestPad>>
    <2>1. AsWrites(Append(line, 0)) = Append(AsWrites(line), NoWrite)
      BY <1>1, <1>2, LineAppend, Zenon
    <2>2. AsWrites(Append(Append(line, 0), 49)) = Append(AsWrites(Append(line, 0)), RestPad)
      BY <1>1, <1>2, LineAppend, Zenon
    <2>3. WritesOnLine' = Append(Append(WritesOnLine, NoWrite), RestPad)
      BY <1>2, <2>1, <2>2, Zenon DEF WritesOnLine, AsWrites
    <2>4. /\ WritesOnLine \in Seq(Pad!WritesOf(Bytes))
          /\ NoWrite \in Pad!WritesOf(Bytes) /\ RestPad \in Pad!WritesOf(Bytes)
      BY <1>1, <1>2, LineType, ExecutedWrites DEF WritesOnLine, AsWrites
    <2> QED BY <2>3, <2>4, TwoAppends, Zenon
  <1>4. Shown' = RestPad
    <2>1. Shown' = AsShown(RestPad, 128)
      BY Zenon DEF Open, Shown, AsShown
    <2> QED BY <2>1, SlotFacts, Zenon DEF AsShown
  <1>5. Promised!Clear
    BY <1>3, <1>4, Zenon DEF Open, Promised!Clear, Shown, NoWrite, Promised!NoWrite, padVars
  <1>6. LinkInv'
    <2>1. asked' \in [Slots -> Bytes] /\ vertical' \in Bytes
      BY SlotFacts DEF Open, Bytes
    <2>2. answered' \in BOOLEAN /\ busy' \in BOOLEAN
      BY Zenon DEF Open, LinkInv, TypeOK, padVars
    <2>3. /\ vc' = vc /\ report' = report /\ half' = half /\ session' = "checking"
          /\ link' = "following"
      BY Zenon DEF Open, padVars
    <2> QED BY <1>2, <2>1, <2>2, <2>3, LinkTypes, Zenon DEF LinkInv, TypeOK
  <1> QED BY <1>5, <1>6, Zenon DEF Promised!Next

(* clear() of the protocol. *)
LEMMA ClearStep == ASSUME LinkInv, ClearSend PROVE LinkInv' /\ Promised!Next
  <1>1. 49 \in Codes /\ executed[49] = RestPad
    BY DEF executed, Codes, ButtonCases, HatCases
  <1>2. line \in Seq(Codes) /\ line' = Append(line, 49) /\ line' \in Seq(Codes)
    BY <1>1, LinkTypes DEF ClearSend, send
  <1>3. WritesOnLine' = Append(WritesOnLine, RestPad)
    BY <1>1, <1>2, LineAppend DEF WritesOnLine, AsWrites
  <1>4. Shown' = RestPad
    <2>1. Shown' = AsShown(RestPad, 128)
      BY Zenon DEF ClearSend, Shown, AsShown
    <2> QED BY <2>1, SlotFacts, Zenon DEF AsShown
  <1>5. Promised!Clear
    BY <1>3, <1>4, Zenon DEF ClearSend, LinkInv, Promised!Clear, Shown, padVars
  <1>6. LinkInv'
    <2>1. asked' \in [Slots -> Bytes] /\ vertical' \in Bytes
      BY SlotFacts DEF ClearSend, Bytes
    <2>2. answered' \in BOOLEAN /\ busy' \in BOOLEAN
      BY Zenon DEF ClearSend, LinkInv, TypeOK, padVars
    <2>3. /\ vc' = vc /\ report' = report /\ half' = half /\ session' = "clearing"
          /\ link' = link /\ session # "closed"
      BY Zenon DEF ClearSend, padVars
    <2> QED BY <1>2, <2>1, <2>2, <2>3, LinkTypes, Zenon DEF LinkInv, TypeOK
  <1> QED BY <1>5, <1>6, Zenon DEF Promised!Next

(* One turn of receiveCommand delivers the first write of the line. *)
LEMMA ExecuteStep == ASSUME LinkInv, executeCommand PROVE LinkInv' /\ Promised!Next
  <1>1. /\ line \in Seq(Codes) /\ line # <<>> /\ line' = Tail(line) /\ Head(line) \in Codes
        /\ line' \in Seq(Codes)
    BY LinkTypes DEF executeCommand
  <1>2. /\ WritesOnLine # <<>> /\ Head(WritesOnLine) = executed[Head(line)]
        /\ WritesOnLine' = Tail(WritesOnLine)
    <2>1. /\ AsWrites(line) # <<>> /\ Head(AsWrites(line)) = executed[Head(line)]
          /\ AsWrites(Tail(line)) = Tail(AsWrites(line))
      BY <1>1, LineTail, Zenon
    <2>2. WritesOnLine = AsWrites(line) /\ WritesOnLine' = AsWrites(Tail(line))
      BY <1>1, Zenon DEF WritesOnLine, AsWrites
    <2> QED BY <2>1, <2>2, Zenon
  <1>3. Shown' = Shown
    BY Zenon DEF executeCommand, Shown
  <1>4. vc' = Overlay(executed[Head(line)], vc) /\ link' = link
    BY Zenon DEF executeCommand
  <1>5. Promised!Deliver
    BY <1>2, <1>3, <1>4, Zenon DEF Promised!Deliver, Shown, Overlay, Promised!Overlay
  <1>6. vc' \in [Slots -> Bytes] /\ vc'["RY"] = 128
    <2>1. /\ executed[Head(line)] \in Pad!WritesOf(Bytes)
          /\ "RY" \in DOMAIN executed[Head(line)] => executed[Head(line)]["RY"] = 128
      BY <1>1, ExecutedWrites
    <2>2. vc \in [Slots -> Bytes] /\ vc["RY"] = 128 /\ "RY" \in Slots
      BY LinkTypes, Zenon DEF LinkInv, Slots
    <2> QED BY <1>4, <2>1, <2>2, ApplyWrite
  <1>7. LinkInv'
    <2>1. busy' \in BOOLEAN
      BY Zenon DEF executeCommand
    <2>2. answered' \in BOOLEAN
      BY Zenon DEF executeCommand, LinkInv, TypeOK
    <2>3. UNCHANGED <<session, half, report, asked, vertical, link>>
      BY Zenon DEF executeCommand
    <2> QED BY <1>1, <1>6, <2>1, <2>2, <2>3, LinkTypes, Zenon DEF LinkInv, TypeOK
  <1> QED BY <1>5, <1>7, Zenon DEF Promised!Next

(* The other steps change nothing the promise is about, but for a program that
   dies, which promises nothing more. *)
LEMMA OtherStep ==
  ASSUME LinkInv,
         Connected \/ ClearClose \/ Die \/ receiveCommandEnds \/ HID_Task \/ UNCHANGED vars
  PROVE  LinkInv' /\ [Promised!Next]_(Promised!padVars)
  <1>1. UNCHANGED <<line, vc, asked, vertical>>
    BY Zenon DEF Connected, ClearClose, Die, receiveCommandEnds, HID_Task, vars, padVars
  <1>a. \/ link' = link /\ session' = session /\ half' = half
        \/ link' = link /\ session' = "closed" /\ half' = None
        \/ link' = link /\ session' = "open" /\ session = "checking" /\ half' = half
        \/ link' = "unknown" /\ session' = "closed" /\ half' = None
    <2>1. CASE Connected
      BY <2>1, Zenon DEF Connected
    <2>2. CASE ClearClose
      BY <2>2, Zenon DEF ClearClose
    <2>3. CASE Die
      BY <2>3, Zenon DEF Die
    <2>4. CASE receiveCommandEnds
      BY <2>4, Zenon DEF receiveCommandEnds
    <2>5. CASE HID_Task
      BY <2>5, Zenon DEF HID_Task
    <2>6. CASE UNCHANGED vars
      BY <2>6, Zenon DEF vars
    <2> QED BY <2>1, <2>2, <2>3, <2>4, <2>5, <2>6, Zenon
  <1>2. WritesOnLine' = WritesOnLine /\ Shown' = Shown
    BY <1>1, Zenon DEF WritesOnLine, Shown
  <1>3. [Promised!Next]_(Promised!padVars)
    BY <1>1, <1>a, <1>2, Zenon DEF Promised!Next, Promised!Die, Promised!padVars, Shown
  <1>4. answered' \in BOOLEAN /\ busy' \in BOOLEAN
    BY Zenon DEF Connected, ClearClose, Die, receiveCommandEnds, HID_Task, vars, padVars, LinkInv, TypeOK
  <1>5. report' \in [Slots -> Bytes]
    BY LinkTypes, Zenon DEF Connected, ClearClose, Die, receiveCommandEnds, HID_Task, vars, padVars
  <1>6. LinkInv'
    <2>1. /\ session' \in {"closed", "checking", "open", "clearing"}
          /\ half' \in Directions \cup {None} /\ link' \in {"following", "unknown"}
          /\ session' # "closed" => link' = "following"
      BY <1>a, Zenon DEF LinkInv, TypeOK
    <2>2. /\ line' \in Seq(Codes) /\ vertical' \in Bytes /\ vc'["RY"] = 128
          /\ vc' \in [Slots -> Bytes] /\ asked' \in [Slots -> Bytes]
      BY <1>1, LinkTypes, Zenon DEF LinkInv
    <2> QED BY <2>1, <2>2, <1>4, <1>5, Zenon DEF LinkInv, TypeOK
  <1> QED BY <1>3, <1>6, Zenon

(* The link starts as the promise does. *)
LEMMA LinkInitial == Init => LinkInv /\ Promised!Init
  <1> SUFFICES ASSUME Init PROVE LinkInv /\ Promised!Init
    BY Zenon
  <1>1. LinkInv
    <2>1. answered \in BOOLEAN /\ busy \in BOOLEAN
      BY Zenon DEF Init
    <2>2. vc \in [Slots -> Bytes] /\ report \in [Slots -> Bytes] /\ asked \in [Slots -> Bytes]
      BY SlotFacts, Zenon DEF Init
    <2>3. /\ session = "closed" /\ half = None /\ line \in Seq(Codes) /\ vertical \in Bytes
          /\ link = "following" /\ vc["RY"] = 128
      BY SlotFacts DEF Init, Bytes
    <2> QED BY <2>1, <2>2, <2>3, Zenon DEF LinkInv, TypeOK
  <1>2. Shown = RestPad
    <2>1. Shown = AsShown(RestPad, 128)
      BY Zenon DEF Init, Shown, AsShown
    <2> QED BY <2>1, SlotFacts, Zenon DEF AsShown
  <1>3. WritesOnLine = <<>>
    BY DEF Init, WritesOnLine
  <1> QED BY <1>1, <1>2, <1>3, Zenon DEF Init, Promised!Init, Shown

(* Every step keeps LinkInv and is a step, or a stutter, of the promise. *)
LEMMA LinkStep == LinkInv /\ [Next]_vars => LinkInv' /\ [Promised!Next]_(Promised!padVars)
  BY ButtonStep, StickStep, OpenStep, ClearStep, ExecuteStep, OtherStep, Zenon DEF Next

-----------------------------------------------------------------------------
(* PGConProtocol, the line and the firmware of Joystick.c implement the safety
   part of the promise of Protocol, across clear(), a dead program and the
   reset of the connection check, for every set of buttons and positions. *)
THEOREM PGConRefinement == Spec => Promised!Safe
  BY LinkInitial, LinkStep, PTL DEF Spec, Promised!Safe

(* Once the line is empty every slot but the vertical axes is as the calls
   described it, LY is where either stick was last sent and RY has never moved
   (the cases of executeCommand). *)
THEOREM VerticalTheorem == Spec => []OnlyVerticalAxesDiffer
  <1>1. Promised!Safe => []Promised!SettledPad
    <2>1. Pad!Safe => []Pad!SettledPad
      BY LinkControllers, Pad!SettledTheorem, Zenon
    <2>2. Promised!Init <=> Pad!Init
      BY Zenon DEF Promised!Init, Pad!Init, Shown
    <2>3. [Promised!Next]_(Promised!padVars) <=> [Pad!Next]_(Pad!padVars)
      BY Zenon DEF Promised!Next, Promised!Ask, Promised!Clear, Promised!Open, Promised!Die,
             Promised!Deliver, Promised!Overlay, Promised!NoWrite, Promised!padVars,
             Pad!Next, Pad!Ask, Pad!Clear, Pad!Open, Pad!Die, Pad!Deliver, Pad!Overlay,
             Pad!NoWrite, Pad!padVars, Shown
    <2>4. Promised!SettledPad <=> Pad!SettledPad
      BY Zenon DEF Promised!SettledPad, Pad!SettledPad, Shown
    <2> QED BY <2>1, <2>2, <2>3, <2>4, PTL DEF Promised!Safe, Pad!Safe
  <1>2. LinkInv /\ Promised!SettledPad => OnlyVerticalAxesDiffer
    <2> SUFFICES ASSUME LinkInv, Promised!SettledPad PROVE OnlyVerticalAxesDiffer
      BY Zenon
    <2>1. ASSUME line = <<>>, link = "following"
          PROVE  /\ \A s \in Slots \ {"LY", "RY"} : vc[s] = asked[s]
                 /\ vc["LY"] = vertical
      <3>1. WritesOnLine = <<>>
        BY <2>1 DEF WritesOnLine
      <3>2. vc = AsShown(asked, vertical)
        BY <2>1, <3>1, Zenon DEF Promised!SettledPad, AsShown
      <3>3. asked \in [Slots -> Bytes] /\ vertical \in Bytes
        BY LinkTypes, Zenon
      <3> QED BY <3>2, <3>3, ShownType
    <2> QED BY <2>1, Zenon DEF OnlyVerticalAxesDiffer, LinkInv
  <1> QED BY <1>1, <1>2, LinkInitial, LinkStep, PGConRefinement, PTL DEF Spec
=============================================================================
