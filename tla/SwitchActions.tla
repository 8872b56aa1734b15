-------------------------- MODULE SwitchActions --------------------------
(***************************************************************************)
(* The buttons and stick positions a script can ask for, with the codes    *)
(* the serial protocols give them (the enums of output/action), and what   *)
(* each of them means on a controller.                                     *)
(***************************************************************************)
EXTENDS Naturals, Writes

(* NintendoSwitchStandardButton: holdCommandPGCon; releaseCommandPGCon is the
   next code in every row. *)
holdCommandPGCon ==
    [A |-> 1, B |-> 3, X |-> 5, Y |-> 7, L |-> 9, R |-> 11, ZL |-> 13,
     ZR |-> 15, L_STICK |-> 17, R_STICK |-> 19, D_TOP |-> 21, D_BOTTOM |-> 23,
     D_LEFT |-> 25, D_RIGHT |-> 27, PLUS |-> 29, MINUS |-> 31, HOME |-> 33,
     CAPTURE |-> 35]

releaseCommandPGCon == [b \in DOMAIN holdCommandPGCon |-> holdCommandPGCon[b] + 1]

(* NintendoSwitchStandardButton.commandEasyCon *)
commandEasyCon ==
    [A |-> 4, B |-> 2, X |-> 8, Y |-> 1, L |-> 16, R |-> 32, ZL |-> 64,
     ZR |-> 128, L_STICK |-> 1024, R_STICK |-> 2048, D_TOP |-> 0,
     D_BOTTOM |-> 4, D_LEFT |-> 6, D_RIGHT |-> 2, PLUS |-> 512, MINUS |-> 256,
     HOME |-> 4096, CAPTURE |-> 8192]

isHat(b) == b \in {"D_TOP", "D_BOTTOM", "D_LEFT", "D_RIGHT"}

AllButtons == DOMAIN commandEasyCon
BitButtons == {b \in AllButtons : ~isHat(b)}

(* NintendoSwitchBaseStick: commandPGCon; commandEasyCon as an unsigned byte. *)
stickCommandPGCon ==
    [LX_MIN |-> 37, LX_MAX |-> 38, LX_CENTER |-> 39,
     LY_MIN |-> 40, LY_MAX |-> 41, LY_CENTER |-> 42,
     RX_MIN |-> 43, RX_MAX |-> 44, RX_CENTER |-> 45,
     RY_MIN |-> 46, RY_MAX |-> 47, RY_CENTER |-> 48]

stickCommandEasyCon(a) ==
    CASE a \in {"LX_MIN", "LY_MIN", "RX_MIN", "RY_MIN"} -> 0
      [] a \in {"LX_MAX", "LY_MAX", "RX_MAX", "RY_MAX"} -> 255
      [] OTHER -> 128

(* NintendoSwitchStandardStick: the X and the Y action of each position.  The
   upper positions of the right stick are built with LY_MIN. *)
standardStick ==
    [L_TOP          |-> <<"LX_CENTER", "LY_MIN">>,
     L_TOP_RIGHT    |-> <<"LX_MAX",    "LY_MIN">>,
     L_RIGHT        |-> <<"LX_MAX",    "LY_CENTER">>,
     L_BOTTOM_RIGHT |-> <<"LX_MAX",    "LY_MAX">>,
     L_BOTTOM       |-> <<"LX_CENTER", "LY_MAX">>,
     L_BOTTOM_LEFT  |-> <<"LX_MIN",    "LY_MAX">>,
     L_LEFT         |-> <<"LX_MIN",    "LY_CENTER">>,
     L_TOP_LEFT     |-> <<"LX_MIN",    "LY_MIN">>,
     L_CENTER       |-> <<"LX_CENTER", "LY_CENTER">>,
     R_TOP          |-> <<"RX_CENTER", "LY_MIN">>,
     R_TOP_RIGHT    |-> <<"RX_MAX",    "LY_MIN">>,
     R_RIGHT        |-> <<"RX_MAX",    "RY_CENTER">>,
     R_BOTTOM_RIGHT |-> <<"RX_MAX",    "RY_MAX">>,
     R_BOTTOM       |-> <<"RX_CENTER", "RY_MAX">>,
     R_BOTTOM_LEFT  |-> <<"RX_MIN",    "RY_MAX">>,
     R_LEFT         |-> <<"RX_MIN",    "RY_CENTER">>,
     R_TOP_LEFT     |-> <<"RX_MIN",    "LY_MIN">>,
     R_CENTER       |-> <<"RX_CENTER", "RY_CENTER">>]

AllDirections == DOMAIN standardStick

(* NintendoSwitchStandardStick.stick *)
isLeft(d) ==
    d \in {"L_TOP", "L_TOP_RIGHT", "L_RIGHT", "L_BOTTOM_RIGHT", "L_BOTTOM",
           "L_BOTTOM_LEFT", "L_LEFT", "L_TOP_LEFT", "L_CENTER"}

-----------------------------------------------------------------------------
(* What the names mean on the controller: the reference the protocols are
   compared with.  A pad gives each button 0 or 1, the hat a position (8 is
   the centre) and each axis a byte, 0 being left or up. *)

Slots == BitButtons \cup {"HAT", "LX", "LY", "RX", "RY"}

RestPad ==
    [s \in Slots |-> CASE s \in BitButtons -> 0 [] s = "HAT" -> 8 [] OTHER -> 128]

HatPosition == [D_TOP |-> 0, D_RIGHT |-> 2, D_BOTTOM |-> 4, D_LEFT |-> 6]

Held(b) == IF isHat(b) THEN At("HAT", HatPosition[b]) ELSE At(b, 1)
Released(b) == IF isHat(b) THEN At("HAT", 8) ELSE At(b, 0)

AxisX(d) ==
    At(IF isLeft(d) THEN "LX" ELSE "RX",
       CASE d \in {"L_LEFT", "L_TOP_LEFT", "L_BOTTOM_LEFT",
                   "R_LEFT", "R_TOP_LEFT", "R_BOTTOM_LEFT"} -> 0
         [] d \in {"L_RIGHT", "L_TOP_RIGHT", "L_BOTTOM_RIGHT",
                   "R_RIGHT", "R_TOP_RIGHT", "R_BOTTOM_RIGHT"} -> 255
         [] OTHER -> 128)

(* The vertical position a stick is sent to. *)
Vertical(d) ==
    CASE d \in {"L_TOP", "L_TOP_LEFT", "L_TOP_RIGHT",
                "R_TOP", "R_TOP_LEFT", "R_TOP_RIGHT"} -> 0
      [] d \in {"L_BOTTOM", "L_BOTTOM_LEFT", "L_BOTTOM_RIGHT",
                "R_BOTTOM", "R_BOTTOM_LEFT", "R_BOTTOM_RIGHT"} -> 255
      [] OTHER -> 128

AxisY(d) == At(IF isLeft(d) THEN "LY" ELSE "RY", Vertical(d))

(* What a call about one of these buttons and positions can mean. *)
MeaningsOf(buttons, directions) ==
    {Held(b) : b \in buttons} \cup {Released(b) : b \in buttons}
    \cup {AxisX(d) : d \in directions} \cup {AxisY(d) : d \in directions}
    \cup {Overlay(AxisX(d), AxisY(d)) : d \in directions}
=============================================================================
