--------------------------- MODULE EasyConPacket ---------------------------
(***************************************************************************)
(* The loop of EasyConSerialPort.convert, one action per turn: bytes are   *)
(* shifted into n from the right and taken out seven bits at a time.  n is *)
(* a long in the code and stays far below its limit here (NStaysSmall).    *)
(* EasyConLink runs this loop for every report it sends.                   *)
(***************************************************************************)
EXTENDS Packing, Sequences

VARIABLES command,   \* the seven bytes
          k,         \* bytes taken so far by the outer loop
          n, bits,   \* the accumulator and how many of its bits are unsent
          packet,    \* the packet as far as it is filled: i = Len(packet)
          pc         \* "loop" or "done", "idle" outside of convert

loopVars == <<command, k, n, bits, packet, pc>>

(* Outside of convert its local variables do not exist. *)
Idle ==
    /\ command = [j \in 1 .. 7 |-> 0]
    /\ k = 0 /\ n = 0 /\ bits = 0
    /\ packet = <<>>
    /\ pc = "idle"

(* convert is called and declares its variables. *)
Start(bytes) ==
    /\ pc = "idle"
    /\ command' = bytes
    /\ k' = 0 /\ n' = 0 /\ bits' = 0
    /\ packet' = <<>>
    /\ pc' = "loop"

(* for (byte b : command): n = (n << 8) | (b & 0xFF); bits += 8 *)
Shift ==
    /\ pc = "loop" /\ bits < 7 /\ k < 7
    /\ k' = k + 1
    /\ n' = n * 256 + command[k + 1]
    /\ bits' = bits + 8
    /\ UNCHANGED <<command, packet, pc>>

(* while (bits >= 7): packet[i++] = (byte) (n >>> bits); n &= (1L << bits) - 1 *)
Emit ==
    /\ pc = "loop" /\ bits >= 7
    /\ bits' = bits - 7
    /\ packet' = Append(packet, (n \div Pow[bits - 7]) % 256)
    /\ n' = n % Pow[bits - 7]
    /\ UNCHANGED <<command, k, pc>>

(* Mutant: the packet goes out without its mark. *)
MarkNothing ==
    /\ pc = "loop" /\ bits < 7 /\ k = 7
    /\ pc' = "done"
    /\ UNCHANGED <<command, k, n, bits, packet>>

(* packet[7] = (byte) (packet[7] | 0x80) *)
Mark ==
    /\ pc = "loop" /\ bits < 7 /\ k = 7
    /\ packet' = [packet EXCEPT ![8] = IF @ >= 128 THEN @ ELSE @ + 128]
    /\ pc' = "done"
    /\ UNCHANGED <<command, k, n, bits>>

Turn == Shift \/ Emit \/ Mark

(* convert returns its packet. *)
Return ==
    /\ pc = "done"
    /\ command' = [j \in 1 .. 7 |-> 0]
    /\ k' = 0 /\ n' = 0 /\ bits' = 0
    /\ packet' = <<>>
    /\ pc' = "idle"

-----------------------------------------------------------------------------
(* convert returns the eight seven-bit groups of its argument, and only the
   last byte has its top bit set: the adapter gets the same seven bytes back
   and cannot mistake where the packet ends. *)
PacketIsExact ==
    pc = "done" =>
        /\ packet = Packed(command)
        /\ Unpacked([packet EXCEPT ![8] = @ - 128]) = command
        /\ \A j \in 1 .. 8 : packet[j] >= 128 <=> j = 8

(* packet[i++] never leaves the array of eight bytes, the byte cast never
   drops a bit, and the accumulator holds at most 14 bits. *)
NStaysSmall ==
    /\ Len(packet) <= 8
    /\ n < 16384
    /\ bits >= 7 => n \div Pow[bits - 7] < 128

(* The counters: bits is what k bytes give and the packet has not taken. *)
CountInv ==
    /\ command \in [1 .. 7 -> Byte]
    /\ pc \in {"loop", "done"}
    /\ packet \in Seq(Byte)
    /\ k \in 0 .. 7 /\ Len(packet) \in 0 .. 8 /\ bits \in 0 .. 14
    /\ bits = 8 * k - 7 * Len(packet)
    /\ k > 0 => Len(packet) >= k - 1

(* What is sent are the first groups. *)
SentInv == \A j \in 1 .. Len(packet) : packet[j] = Group(command, j)

(* The bits that byte j leaves over for the next group. *)
Left(bytes, j) == IF j = 0 THEN 0 ELSE bytes[j] % Pow[j]

(* What is not sent is the low end of the bytes taken. *)
UnsentInv ==
    n = IF Len(packet) < k THEN Left(command, k - 1) * 256 + command[k]
        ELSE IF Len(packet) = k THEN Left(command, k) ELSE 0

(* The loop invariant of convert, and what it leaves behind. *)
LoopInv ==
    /\ CountInv /\ UnsentInv
    /\ pc = "loop" => SentInv
    /\ pc = "done" => packet = Packed(command)
=============================================================================
