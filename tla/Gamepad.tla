------------------------------ MODULE Gamepad ------------------------------
(***************************************************************************)
(* What output/api/Protocol promises, whichever firmware is at the other   *)
(* end: the calls describe a controller, `asked', and the console sees a   *)
(* controller, `pad', that follows it through a line that keeps order.     *)
(* What travels is a write: new values for some of the slots.  A protocol  *)
(* may send only the slots a call is about, or the whole controller.       *)
(***************************************************************************)
EXTENDS Sequences, Naturals, Writes

CONSTANTS RestPad,     \* the controller nobody touches
          Meanings     \* the writes a call can be about

VARIABLES asked,   \* what the calls of this session have described
          line,    \* the writes on their way
          pad,     \* what the device reports to the console
          link     \* what the pad shows once the line is empty: "following"
                   \* asked, "cleared", or "unknown" after the program died

padVars == <<asked, line, pad, link>>

Init ==
    /\ asked = RestPad /\ pad = RestPad
    /\ line = <<>>
    /\ link = "following"

(* hold, release and set.  While the pad follows, the write may be partial. *)
Ask(m) ==
    /\ link' = "following"
    /\ UNCHANGED pad
    /\ asked' = Overlay(m, asked)
    /\ \E w \in {m, asked'} :
          /\ w = m => link = "following" \/ m = asked'
          /\ line' = Append(line, w)

(* clear: the pad comes to rest; the protocol may or may not remember it.  A
   connection check may do the same, after a question that writes nothing. *)
Clear ==
    /\ line' \in {Append(line, RestPad), line \o <<NoWrite, RestPad>>}
    /\ \/ asked' = RestPad /\ link' = "following"
       \/ link' = "cleared" /\ UNCHANGED asked
    /\ UNCHANGED pad

(* A protocol object is made: it starts from a controller at rest, which is
   what the pad shows unless something was asked after the last clear. *)
Open ==
    /\ asked' = RestPad
    /\ link' = IF link = "cleared" \/ (link = "following" /\ asked = RestPad)
               THEN "following" ELSE "unknown"
    /\ UNCHANGED <<line, pad>>

(* The program dies without clear(). *)
Die ==
    /\ link' = "unknown"
    /\ UNCHANGED <<asked, line, pad>>

Deliver ==
    /\ line # <<>>
    /\ pad' = Overlay(Head(line), pad)
    /\ line' = Tail(line)
    /\ UNCHANGED <<asked, link>>

Next == (\E m \in Meanings : Ask(m)) \/ Clear \/ Open \/ Die \/ Deliver

Safe == Init /\ [][Next]_padVars

Spec == Safe /\ WF_padVars(Deliver)

-----------------------------------------------------------------------------
(* Once nothing is on its way, the console sees exactly what the calls
   described, or a controller at rest after clear(). *)
SettledPad ==
    line = <<>> =>
        /\ link = "following" => pad = asked
        /\ link = "cleared" => pad = RestPad
=============================================================================
