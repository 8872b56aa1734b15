------------------------- MODULE EasyConLinkProofs -------------------------
(***************************************************************************)
(* EasyConSerialPort.convert is exact for every seven bytes, and the       *)
(* EasyCon protocols with the adapter they talk to implement the safety    *)
(* part of Gamepad, for every set of buttons and positions and every       *)
(* length of the line.                                                     *)
(***************************************************************************)
EXTENDS EasyConLink, SequenceTheorems, TLAPS

-----------------------------------------------------------------------------
(* The loop of convert.                                                    *)

(* The powers of two that convert shifts by. *)
LEMMA PowValues ==
    /\ Pow[0] = 1 /\ Pow[1] = 2 /\ Pow[2] = 4 /\ Pow[3] = 8 /\ Pow[4] = 16
    /\ Pow[5] = 32 /\ Pow[6] = 64 /\ Pow[7] = 128 /\ Pow[8] = 256
BY DEF Pow

(* The byte cast keeps seven bits as they are. *)
LEMMA SmallByte == \A x \in 0 .. 127 : x % 256 = x
OBVIOUS

(* The accumulator after a byte was shifted in, a being the bits left of the
   byte before: its upper seven bits are the next group, and masking it leaves
   the low bits of the new byte. *)
LEMMA ShiftOut ==
    ASSUME NEW a \in Nat, NEW b \in Byte
    PROVE
        /\ a < 1 => /\ (a * 256 + b) \div 2 = a * 128 + b \div 2
                   /\ (a * 256 + b) % 2 = b % 2
                   /\ (a * 256 + b) \div 2 \in 0 .. 127
        /\ a < 2 => /\ (a * 256 + b) \div 4 = a * 64 + b \div 4
                   /\ (a * 256 + b) % 4 = b % 4
                   /\ (a * 256 + b) \div 4 \in 0 .. 127
        /\ a < 4 => /\ (a * 256 + b) \div 8 = a * 32 + b \div 8
                   /\ (a * 256 + b) % 8 = b % 8
                   /\ (a * 256 + b) \div 8 \in 0 .. 127
        /\ a < 8 => /\ (a * 256 + b) \div 16 = a * 16 + b \div 16
                   /\ (a * 256 + b) % 16 = b % 16
                   /\ (a * 256 + b) \div 16 \in 0 .. 127
        /\ a < 16 => /\ (a * 256 + b) \div 32 = a * 8 + b \div 32
                   /\ (a * 256 + b) % 32 = b % 32
                   /\ (a * 256 + b) \div 32 \in 0 .. 127
        /\ a < 32 => /\ (a * 256 + b) \div 64 = a * 4 + b \div 64
                   /\ (a * 256 + b) % 64 = b % 64
                   /\ (a * 256 + b) \div 64 \in 0 .. 127
        /\ a < 64 => /\ (a * 256 + b) \div 128 = a * 2 + b \div 128
                   /\ (a * 256 + b) % 128 = b % 128
                   /\ (a * 256 + b) \div 128 \in 0 .. 127
BY DEF Byte

(* The loop invariant holds before the first turn. *)
LEMMA StartLoop == ASSUME NEW bytes \in [1 .. 7 -> Byte], Start(bytes) PROVE LoopInv'
<1>1. packet' \in Seq(Byte) /\ Len(packet') = 0 /\ packet' = <<>>
  BY DEF Start
<1>2. command' \in [1 .. 7 -> Byte] /\ k' = 0 /\ n' = 0 /\ bits' = 0 /\ pc' = "loop"
  BY Zenon DEF Start
<1>3. CountInv'
  BY <1>1, <1>2 DEF CountInv
<1>4. SentInv' /\ UnsentInv'
  BY <1>1, <1>2 DEF SentInv, UnsentInv, Left
<1> QED
  BY <1>2, <1>3, <1>4, Zenon DEF LoopInv

(* How many groups are out while k bytes are in. *)
LEMMA Counting ==
    ASSUME NEW kk \in 0 .. 7, NEW i \in 0 .. 8, NEW bb \in 0 .. 14,
           bb = 8 * kk - 7 * i, kk > 0 => i >= kk - 1
    PROVE  /\ bb < 7 => (i = kk /\ bb = kk) \/ (kk = 7 /\ i = 8 /\ bb = 0)
           /\ bb >= 7 => /\ kk \in 1 .. 7
                         /\ (i = kk - 1 /\ bb = kk + 7) \/ (kk = 7 /\ i = 7 /\ bb = 7)
OBVIOUS

(* The same of the variables. *)
LEMMA Counters ==
    ASSUME CountInv
    PROVE  /\ bits < 7 => \/ Len(packet) = k /\ bits = k
                          \/ k = 7 /\ Len(packet) = 8 /\ bits = 0
           /\ bits >= 7 => /\ k \in 1 .. 7
                           /\ \/ Len(packet) = k - 1 /\ bits = k + 7
                              \/ k = 7 /\ Len(packet) = 7 /\ bits = 7
<1> DEFINE i == Len(packet)
<1>1. k \in 0 .. 7 /\ i \in 0 .. 8 /\ bits \in 0 .. 14
  BY Zenon DEF CountInv
<1>2. bits = 8 * k - 7 * i /\ (k > 0 => i >= k - 1)
  BY Zenon DEF CountInv
<1> HIDE DEF i
<1>3. /\ bits < 7 => (i = k /\ bits = k) \/ (k = 7 /\ i = 8 /\ bits = 0)
      /\ bits >= 7 => /\ k \in 1 .. 7
                      /\ (i = k - 1 /\ bits = k + 7) \/ (k = 7 /\ i = 7 /\ bits = 7)
  BY <1>1, <1>2, Counting
<1> QED
  BY <1>3, Zenon DEF i

(* The bits left over from a byte are fewer than that byte's place. *)
LEMMA LeftRange ==
    ASSUME CountInv, NEW j \in 0 .. 7
    PROVE  Left(command, j) \in Nat /\ Left(command, j) < Pow[j] /\ Left(command, j) < 128
<1>1. CASE j = 0
  BY <1>1, PowValues DEF Left
<1>2. CASE j # 0
  <2>1. command[j] \in 0 .. 255
    <3>1. command \in [1 .. 7 -> Byte]
      BY Zenon DEF CountInv
    <3> QED
      BY <1>2, <3>1 DEF Byte
  <2>2. CASE j = 1
    BY <2>1, <2>2, PowValues DEF Left
  <2>3. CASE j = 2
    BY <2>1, <2>3, PowValues DEF Left
  <2>4. CASE j = 3
    BY <2>1, <2>4, PowValues DEF Left
  <2>5. CASE j = 4
    BY <2>1, <2>5, PowValues DEF Left
  <2>6. CASE j = 5
    BY <2>1, <2>6, PowValues DEF Left
  <2>7. CASE j = 6
    BY <2>1, <2>7, PowValues DEF Left
  <2>8. CASE j = 7
    BY <2>1, <2>8, PowValues DEF Left
  <2> QED
    BY <1>2, <2>2, <2>3, <2>4, <2>5, <2>6, <2>7, <2>8
<1> QED
  BY <1>1, <1>2, Zenon

(* A turn of the outer loop: all groups of the bytes before are out. *)
LEMMA ShiftLoop == ASSUME LoopInv, Shift PROVE LoopInv'
<1> USE DEF Shift
<1>1. CountInv /\ SentInv /\ UnsentInv
  BY Zenon DEF LoopInv
<1>2. Len(packet) = k /\ bits = k /\ k \in 0 .. 6
  BY <1>1, Counters DEF CountInv
<1>3. k' \in 1 .. 7 /\ bits' \in 0 .. 14 /\ bits' = 8 * k' - 7 * k /\ k = k' - 1
  BY <1>2
<1>4. CountInv'
  BY <1>1, <1>2, <1>3 DEF CountInv
<1>5. SentInv'
  BY <1>1, Zenon DEF SentInv
<1>6. UnsentInv'
  <2>1. n = Left(command, k)
    BY <1>1, <1>2 DEF UnsentInv
  <2>2. n' = Left(command, k' - 1) * 256 + command[k']
    BY <1>3, <2>1, Zenon
  <2>3. Len(packet') < k' /\ command' = command
    BY <1>2, <1>3
  <2> QED
    BY <2>2, <2>3, ZenonT(60) DEF UnsentInv
<1> QED
  BY <1>4, <1>5, <1>6, Zenon DEF LoopInv

(* The step of the inner loop that takes the first group after a byte. *)
LEMMA EmitFirst ==
    ASSUME CountInv, UnsentInv, Len(packet) = k - 1, bits = k + 7, k \in 1 .. 7
    PROVE  /\ n \div Pow[k] = Group(command, k)
           /\ n \div Pow[k] \in 0 .. 127
           /\ n % Pow[k] = Left(command, k)
<1> DEFINE a == Left(command, k - 1)
           b == command[k]
<1>1. n = a * 256 + b
  BY DEF UnsentInv
<1>2. b \in Byte
  BY Zenon DEF CountInv
<1>3. a \in Nat /\ a < Pow[k - 1]
  <2>1. k - 1 \in 0 .. 7
    OBVIOUS
  <2> QED
    BY <2>1, LeftRange, Zenon
<1>4. Left(command, k) = b % Pow[k]
  BY DEF Left
<1>5. Group(command, k) = a * Pow[8 - k] + b \div Pow[k]
  <2>1. CASE k = 1
    BY <2>1, PowValues DEF Group, Left
  <2>2. CASE k # 1
    BY <2>2 DEF Group, Left
  <2> QED
    BY <2>1, <2>2, Zenon
<1> HIDE DEF a, b
<1>6. /\ (a * 256 + b) \div Pow[k] = a * Pow[8 - k] + b \div Pow[k]
      /\ (a * 256 + b) % Pow[k] = b % Pow[k]
      /\ (a * 256 + b) \div Pow[k] \in 0 .. 127
  <2>1. CASE k = 1
    <3>1. a = 0 /\ Pow[k] = 2 /\ Pow[8 - k] = 128
      BY <1>3, <2>1, PowValues
    <3> QED
      BY <1>2, <3>1 DEF Byte
  <2>2. CASE k = 2
    BY <1>2, <1>3, <2>2, ShiftOut, PowValues
  <2>3. CASE k = 3
    BY <1>2, <1>3, <2>3, ShiftOut, PowValues
  <2>4. CASE k = 4
    BY <1>2, <1>3, <2>4, ShiftOut, PowValues
  <2>5. CASE k = 5
    BY <1>2, <1>3, <2>5, ShiftOut, PowValues
  <2>6. CASE k = 6
    BY <1>2, <1>3, <2>6, ShiftOut, PowValues
  <2>7. CASE k = 7
    BY <1>2, <1>3, <2>7, ShiftOut, PowValues
  <2>8. k = 1 \/ k = 2 \/ k = 3 \/ k = 4 \/ k = 5 \/ k = 6 \/ k = 7
    OBVIOUS
  <2> QED
    BY <2>8, <2>1, <2>2, <2>3, <2>4, <2>5, <2>6, <2>7, Zenon
<1> QED
  BY <1>1, <1>4, <1>5, <1>6, Zenon

(* The step that takes the eighth group, all of what byte seven left over. *)
LEMMA EmitLast ==
    ASSUME CountInv, UnsentInv, Len(packet) = 7, bits = 7, k = 7
    PROVE  /\ n \div Pow[0] = Group(command, 8)
           /\ n \div Pow[0] \in 0 .. 127
           /\ n % Pow[0] = 0
<1>1. n = Left(command, 7)
  BY DEF UnsentInv
<1>2. command[7] \in 0 .. 255
  BY DEF CountInv, Byte
<1>3. n = command[7] % 128
  BY <1>1, PowValues DEF Left
<1>4. Group(command, 8) = command[7] % 128
  BY <1>2, PowValues DEF Group
<1> QED
  BY <1>2, <1>3, <1>4, PowValues

(* A turn of the inner loop sends the next group. *)
LEMMA EmitLoop == ASSUME LoopInv, Emit PROVE LoopInv'
<1> DEFINE i == Len(packet)
           g == n \div Pow[bits - 7]
<1>1. CountInv /\ SentInv /\ UnsentInv /\ pc = "loop" /\ bits >= 7
  BY Zenon DEF LoopInv, Emit
<1>2. /\ k \in 1 .. 7
      /\ \/ i = k - 1 /\ bits = k + 7
         \/ k = 7 /\ i = 7 /\ bits = 7
  BY <1>1, Counters, Zenon
<1>3. g = Group(command, i + 1) /\ g \in 0 .. 127
  <2>1. CASE i = k - 1 /\ bits = k + 7
    <3>1. i + 1 = k /\ bits - 7 = k
      BY <1>2, <2>1
    <3> QED
      BY <1>1, <1>2, <2>1, <3>1, EmitFirst, Zenon
  <2>2. CASE k = 7 /\ i = 7 /\ bits = 7
    BY <1>1, <2>2, EmitLast
  <2> QED
    BY <1>2, <2>1, <2>2, Zenon
<1>4. n % Pow[bits - 7] = IF i = k - 1 THEN Left(command, k) ELSE 0
  <2>1. CASE i = k - 1 /\ bits = k + 7
    <3>1. bits - 7 = k
      BY <1>2, <2>1
    <3> QED
      BY <1>1, <1>2, <2>1, <3>1, EmitFirst, Zenon
  <2>2. CASE k = 7 /\ i = 7 /\ bits = 7
    BY <1>1, <2>2, EmitLast
  <2> QED
    BY <1>2, <2>1, <2>2, Zenon
<1> HIDE DEF g
<1>5. packet' = Append(packet, g)
  <2>1. g % 256 = g
    BY <1>3, SmallByte, Zenon
  <2>2. packet' = Append(packet, g % 256)
    BY Zenon DEF Emit, g
  <2> QED
    BY <2>1, <2>2, Zenon
<1>6. packet \in Seq(Byte) /\ g \in Byte
  BY <1>1, <1>3 DEF CountInv, Byte
<1>7. /\ packet' \in Seq(Byte)
      /\ Len(packet') = i + 1
      /\ \A j \in 1 .. i + 1 : packet'[j] = IF j = i + 1 THEN g ELSE packet[j]
  BY <1>5, <1>6
<1>8. command' = command /\ k' = k /\ pc' = pc /\ bits' = bits - 7
      /\ n' = n % Pow[bits - 7]
  BY Zenon DEF Emit
<1>9. i \in 0 .. 8 /\ bits \in 0 .. 14 /\ bits = 8 * k - 7 * i
      /\ command \in [1 .. 7 -> Byte] /\ pc \in {"loop", "done"}
  BY <1>1, Zenon DEF CountInv
<1> HIDE DEF i
<1>10. /\ i + 1 \in 0 .. 8 /\ bits - 7 \in 0 .. 14
       /\ bits - 7 = 8 * k - 7 * (i + 1) /\ i + 1 >= k - 1
       /\ i + 1 >= k /\ (i = k - 1 <=> i + 1 = k)
  BY <1>2, <1>9
<1>11. CountInv'
  BY <1>2, <1>7, <1>8, <1>9, <1>10 DEF CountInv
<1>12. SentInv'
  <2>1. \A j \in 1 .. i : packet[j] = Group(command, j)
    BY <1>1, Zenon DEF SentInv, i
  <2> SUFFICES ASSUME NEW j \in 1 .. i + 1
               PROVE  packet'[j] = Group(command, j)
    BY <1>7, <1>8, Zenon DEF SentInv
  <2>2. j = i + 1 \/ j \in 1 .. i
    BY <1>9
  <2> QED
    BY <1>3, <1>7, <2>1, <2>2, Zenon
<1>13. UnsentInv'
  BY <1>2, <1>4, <1>7, <1>8, <1>9, <1>10 DEF UnsentInv
<1> QED
  BY <1>1, <1>8, <1>11, <1>12, <1>13, Zenon DEF LoopInv

(* Every group has seven bits. *)
LEMMA GroupRange ==
    ASSUME NEW c \in [1 .. 7 -> Byte], NEW j \in 1 .. 8
    PROVE  Group(c, j) \in 0 .. 127
<1> DEFINE a == IF j = 1 THEN 0 ELSE c[j - 1]
           b == IF j = 8 THEN 0 ELSE c[j]
<1>1. a \in 0 .. 255 /\ b \in 0 .. 255
  <2>1. j # 1 => c[j - 1] \in 0 .. 255
    BY DEF Byte
  <2>2. j # 8 => c[j] \in 0 .. 255
    BY DEF Byte
  <2> QED
    BY <2>1, <2>2
<1>2. CASE j = 1
  <2>1. Group(c, j) = b \div 2
    BY <1>1, <1>2, PowValues DEF Group
  <2> HIDE DEF a, b
  <2> QED
    BY <1>1, <2>1
<1>3. CASE j = 2
  <2>1. Group(c, j) = (a % 2) * 64 + b \div 4
    BY <1>1, <1>3, PowValues DEF Group
  <2> HIDE DEF a, b
  <2> QED
    BY <1>1, <2>1
<1>4. CASE j = 3
  <2>1. Group(c, j) = (a % 4) * 32 + b \div 8
    BY <1>1, <1>4, PowValues DEF Group
  <2> HIDE DEF a, b
  <2> QED
    BY <1>1, <2>1
<1>5. CASE j = 4
  <2>1. Group(c, j) = (a % 8) * 16 + b \div 16
    BY <1>1, <1>5, PowValues DEF Group
  <2> HIDE DEF a, b
  <2> QED
    BY <1>1, <2>1
<1>6. CASE j = 5
  <2>1. Group(c, j) = (a % 16) * 8 + b \div 32
    BY <1>1, <1>6, PowValues DEF Group
  <2> HIDE DEF a, b
  <2> QED
    BY <1>1, <2>1
<1>7. CASE j = 6
  <2>1. Group(c, j) = (a % 32) * 4 + b \div 64
    BY <1>1, <1>7, PowValues DEF Group
  <2> HIDE DEF a, b
  <2> QED
    BY <1>1, <2>1
<1>8. CASE j = 7
  <2>1. Group(c, j) = (a % 64) * 2 + b \div 128
    BY <1>1, <1>8, PowValues DEF Group
  <2> HIDE DEF a, b
  <2> QED
    BY <1>1, <2>1
<1>9. CASE j = 8
  <2>1. Group(c, j) = (a % 128) * 1
    BY <1>1, <1>9, PowValues DEF Group
  <2> HIDE DEF a, b
  <2> QED
    BY <1>1, <2>1
<1> QED
  BY <1>2, <1>3, <1>4, <1>5, <1>6, <1>7, <1>8, <1>9

(* The last step marks the eighth group. *)
LEMMA MarkLoop == ASSUME LoopInv, Mark PROVE LoopInv'
<1>1. CountInv /\ SentInv /\ pc = "loop" /\ bits < 7 /\ k = 7
  BY Zenon DEF LoopInv, Mark
<1>2. Len(packet) = 8
  BY <1>1, Counters
<1>3. packet \in Seq(Byte) /\ command \in [1 .. 7 -> Byte]
  BY <1>1, Zenon DEF CountInv
<1>4. packet \in [1 .. 8 -> Byte] /\ \A j \in 1 .. 8 : packet[j] = Group(command, j)
  <2>1. packet \in [1 .. Len(packet) -> Byte]
    BY <1>3
  <2>2. \A j \in 1 .. Len(packet) : packet[j] = Group(command, j)
    BY <1>1, Zenon DEF SentInv
  <2> QED
    BY <1>2, <2>1, <2>2, Zenon
<1>5. Group(command, 8) \in 0 .. 127
  BY <1>3, GroupRange
<1>6. packet' = [packet EXCEPT ![8] = Group(command, 8) + 128]
  <2>1. packet' = [packet EXCEPT ![8] = IF @ >= 128 THEN @ ELSE @ + 128]
    BY Zenon DEF Mark
  <2>2. packet[8] = Group(command, 8) /\ ~(packet[8] >= 128)
    BY <1>4, <1>5
  <2> QED
    BY <2>1, <2>2, Zenon
<1>7. packet' = Packed(command)
  BY <1>4, <1>6, Zenon DEF Packed
<1>8. packet' \in Seq(Byte) /\ Len(packet') = 8
  <2>1. Group(command, 8) + 128 \in Byte
    BY <1>5 DEF Byte
  <2>2. 8 \in 1 .. Len(packet)
    BY <1>2
  <2> DEFINE g == Group(command, 8) + 128
  <2> HIDE DEF g
  <2>3. [packet EXCEPT ![8] = g] \in Seq(Byte) /\ Len([packet EXCEPT ![8] = g]) = Len(packet)
    <3>1. g \in Byte
      BY <2>1, Zenon DEF g
    <3> QED
      BY <1>3, <2>2, <3>1, ExceptSeq
  <2> QED
    BY <1>2, <1>6, <2>3, Zenon DEF g
<1>9. command' = command /\ k' = k /\ n' = n /\ bits' = bits /\ pc' = "done"
  BY Zenon DEF Mark
<1>10. CountInv'
  BY <1>1, <1>2, <1>8, <1>9, Zenon DEF CountInv
<1>11. UnsentInv'
  BY <1>2, <1>8, <1>9, ZenonT(60) DEF LoopInv, UnsentInv, Left
<1> QED
  BY <1>7, <1>9, <1>10, <1>11, Zenon DEF LoopInv

(* A turn of convert, its return, and every step outside of it. *)
LEMMA ConvertStep ==
    ASSUME Idle \/ LoopInv, Turn \/ Return \/ UNCHANGED loopVars
    PROVE  (Idle \/ LoopInv)'
<1>1. CASE Turn
  <2>1. LoopInv
    BY <1>1, Zenon DEF Turn, Shift, Emit, Mark, Idle
  <2> QED
    BY <1>1, <2>1, ShiftLoop, EmitLoop, MarkLoop, Zenon DEF Turn
<1>2. CASE Return
  BY <1>2, Zenon DEF Return, Idle
<1>3. CASE UNCHANGED loopVars
  <2>1. CASE Idle
    BY <1>3, <2>1, Zenon DEF loopVars, Idle
  <2>2. CASE LoopInv
    BY <1>3, <2>2, Zenon DEF loopVars, LoopInv, CountInv, SentInv, UnsentInv
  <2> QED
    BY <2>1, <2>2, Zenon
<1> QED
  BY <1>1, <1>2, <1>3, Zenon

(* What the adapter puts together from two neighbouring groups is the byte
   they were made from. *)
LEMMA RoundTrip ==
    ASSUME NEW c \in [1 .. 7 -> Byte], NEW j \in 1 .. 7
    PROVE  (Group(c, j) % Pow[8 - j]) * Pow[j] + Group(c, j + 1) \div Pow[7 - j] = c[j]
<1> DEFINE a == IF j = 1 THEN 0 ELSE c[j - 1]
           b == c[j]
           d == IF j = 7 THEN 0 ELSE c[j + 1]
<1>1. a \in 0 .. 255 /\ b \in 0 .. 255 /\ d \in 0 .. 255
  <2>1. j # 1 => c[j - 1] \in 0 .. 255
    BY DEF Byte
  <2>2. c[j] \in 0 .. 255
    BY Zenon DEF Byte
  <2>3. j # 7 => c[j + 1] \in 0 .. 255
    BY DEF Byte
  <2>4. 0 \in 0 .. 255
    OBVIOUS
  <2> QED
    BY <2>1, <2>2, <2>3, <2>4, Zenon
<1>2. CASE j = 1
  <2>1. Group(c, j) = b \div 2
    BY <1>1, <1>2, PowValues DEF Group
  <2>2. Group(c, j + 1) = (b % 2) * 64 + d \div 4
    BY <1>1, <1>2, PowValues DEF Group
  <2>3. Pow[8 - j] = 128 /\ Pow[j] = 2 /\ Pow[7 - j] = 64
    BY <1>2, PowValues
  <2> HIDE DEF a, b, d
  <2>4. Group(c, j) % 128 = b \div 2
    BY <1>1, <2>1
  <2>5. Group(c, j + 1) \div 64 = b % 2
    BY <1>1, <2>2
  <2>6. (b \div 2) * 2 + (b % 2) = b
    BY <1>1
  <2> QED
    BY <2>3, <2>4, <2>5, <2>6, Zenon DEF b
<1>3. CASE j = 2
  <2>1. Group(c, j) = (a % 2) * 64 + b \div 4
    BY <1>1, <1>3, PowValues DEF Group
  <2>2. Group(c, j + 1) = (b % 4) * 32 + d \div 8
    BY <1>1, <1>3, PowValues DEF Group
  <2>3. Pow[8 - j] = 64 /\ Pow[j] = 4 /\ Pow[7 - j] = 32
    BY <1>3, PowValues
  <2> HIDE DEF a, b, d
  <2>4. Group(c, j) % 64 = b \div 4
    BY <1>1, <2>1
  <2>5. Group(c, j + 1) \div 32 = b % 4
    BY <1>1, <2>2
  <2>6. (b \div 4) * 4 + (b % 4) = b
    BY <1>1
  <2> QED
    BY <2>3, <2>4, <2>5, <2>6, Zenon DEF b
<1>4. CASE j = 3
  <2>1. Group(c, j) = (a % 4) * 32 + b \div 8
    BY <1>1, <1>4, PowValues DEF Group
  <2>2. Group(c, j + 1) = (b % 8) * 16 + d \div 16
    BY <1>1, <1>4, PowValues DEF Group
  <2>3. Pow[8 - j] = 32 /\ Pow[j] = 8 /\ Pow[7 - j] = 16
    BY <1>4, PowValues
  <2> HIDE DEF a, b, d
  <2>4. Group(c, j) % 32 = b \div 8
    BY <1>1, <2>1
  <2>5. Group(c, j + 1) \div 16 = b % 8
    BY <1>1, <2>2
  <2>6. (b \div 8) * 8 + (b % 8) = b
    BY <1>1
  <2> QED
    BY <2>3, <2>4, <2>5, <2>6, Zenon DEF b
<1>5. CASE j = 4
  <2>1. Group(c, j) = (a % 8) * 16 + b \div 16
    BY <1>1, <1>5, PowValues DEF Group
  <2>2. Group(c, j + 1) = (b % 16) * 8 + d \div 32
    BY <1>1, <1>5, PowValues DEF Group
  <2>3. Pow[8 - j] = 16 /\ Pow[j] = 16 /\ Pow[7 - j] = 8
    BY <1>5, PowValues
  <2> HIDE DEF a, b, d
  <2>4. Group(c, j) % 16 = b \div 16
    BY <1>1, <2>1
  <2>5. Group(c, j + 1) \div 8 = b % 16
    BY <1>1, <2>2
  <2>6. (b \div 16) * 16 + (b % 16) = b
    BY <1>1
  <2> QED
    BY <2>3, <2>4, <2>5, <2>6, Zenon DEF b
<1>6. CASE j = 5
  <2>1. Group(c, j) = (a % 16) * 8 + b \div 32
    BY <1>1, <1>6, PowValues DEF Group
  <2>2. Group(c, j + 1) = (b % 32) * 4 + d \div 64
    BY <1>1, <1>6, PowValues DEF Group
  <2>3. Pow[8 - j] = 8 /\ Pow[j] = 32 /\ Pow[7 - j] = 4
    BY <1>6, PowValues
  <2> HIDE DEF a, b, d
  <2>4. Group(c, j) % 8 = b \div 32
    BY <1>1, <2>1
  <2>5. Group(c, j + 1) \div 4 = b % 32
    BY <1>1, <2>2
  <2>6. (b \div 32) * 32 + (b % 32) = b
    BY <1>1
  <2> QED
    BY <2>3, <2>4, <2>5, <2>6, Zenon DEF b
<1>7. CASE j = 6
  <2>1. Group(c, j) = (a % 32) * 4 + b \div 64
    BY <1>1, <1>7, PowValues DEF Group
  <2>2. Group(c, j + 1) = (b % 64) * 2 + d \div 128
    BY <1>1, <1>7, PowValues DEF Group
  <2>3. Pow[8 - j] = 4 /\ Pow[j] = 64 /\ Pow[7 - j] = 2
    BY <1>7, PowValues
  <2> HIDE DEF a, b, d
  <2>4. Group(c, j) % 4 = b \div 64
    BY <1>1, <2>1
  <2>5. Group(c, j + 1) \div 2 = b % 64
    BY <1>1, <2>2
  <2>6. (b \div 64) * 64 + (b % 64) = b
    BY <1>1
  <2> QED
    BY <2>3, <2>4, <2>5, <2>6, Zenon DEF b
<1>8. CASE j = 7
  <2>1. Group(c, j) = (a % 64) * 2 + b \div 128
    BY <1>1, <1>8, PowValues DEF Group
  <2>2. Group(c, j + 1) = b % 128
    BY <1>1, <1>8, PowValues DEF Group
  <2>3. Pow[8 - j] = 2 /\ Pow[j] = 128 /\ Pow[7 - j] = 1
    BY <1>8, PowValues
  <2> HIDE DEF a, b, d
  <2>4. Group(c, j) % 2 = b \div 128
    BY <1>1, <2>1
  <2>5. Group(c, j + 1) \div 1 = b % 128
    BY <1>1, <2>2
  <2>6. (b \div 128) * 128 + (b % 128) = b
    BY <1>1
  <2> QED
    BY <2>3, <2>4, <2>5, <2>6, Zenon DEF b
<1> QED
  BY <1>2, <1>3, <1>4, <1>5, <1>6, <1>7, <1>8

(* Eight groups, the last marked: each has seven bits, and the adapter gets
   the seven bytes back. *)
LEMMA PackedFacts ==
    ASSUME NEW c \in [1 .. 7 -> Byte], NEW g \in [1 .. 8 -> Int],
           \A j \in 1 .. 7 : g[j] = Packed(c)[j], g[8] = Packed(c)[8] - 128
    PROVE  /\ \A j \in 1 .. 7 : Packed(c)[j] \in 0 .. 127
           /\ Packed(c)[8] \in 128 .. 255
           /\ Unpacked(g) = c
<1>1. \A j \in 1 .. 8 : Group(c, j) \in 0 .. 127
  BY GroupRange, Zenon
<1>2. /\ \A j \in 1 .. 7 : Packed(c)[j] = Group(c, j)
      /\ Packed(c)[8] = Group(c, 8) + 128
  BY DEF Packed
<1>3. \A j \in 1 .. 8 : g[j] = Group(c, j)
  BY <1>1, <1>2
<1>4. \A j \in 1 .. 7 : Unpacked(g)[j] = c[j]
  <2> TAKE j \in 1 .. 7
  <2>1. g[j] = Group(c, j) /\ g[j + 1] = Group(c, j + 1)
    BY <1>3
  <2>2. Unpacked(g)[j] = (g[j] % Pow[8 - j]) * Pow[j] + g[j + 1] \div Pow[7 - j]
    BY Zenon DEF Unpacked
  <2> QED
    BY <2>1, <2>2, RoundTrip, Zenon
<1>5. Unpacked(g) = [j \in 1 .. 7 |-> Unpacked(g)[j]] /\ DOMAIN Unpacked(g) = 1 .. 7
  BY Zenon DEF Unpacked
<1>6. Unpacked(g) = c
  BY <1>4, <1>5, Zenon
<1>7. \A j \in 1 .. 7 : Packed(c)[j] \in 0 .. 127
  <2>1. \A j \in 1 .. 7 : j \in 1 .. 8
    OBVIOUS
  <2> QED
    BY <1>1, <1>2, <2>1
<1>8. Packed(c)[8] \in 128 .. 255
  <2>1. ASSUME NEW x \in 0 .. 127 PROVE x + 128 \in 128 .. 255
    OBVIOUS
  <2>2. 8 \in 1 .. 8
    OBVIOUS
  <2> QED
    BY <1>1, <1>2, <2>1, <2>2
<1> QED
  BY <1>6, <1>7, <1>8, Zenon

(* convert is exact and frames its result for every seven bytes. *)
LEMMA LoopIsExact == ASSUME LoopInv PROVE PacketIsExact
<1> SUFFICES ASSUME pc = "done" PROVE PacketIsExact
  BY Zenon DEF PacketIsExact
<1>1. packet = Packed(command) /\ command \in [1 .. 7 -> Byte]
  BY Zenon DEF LoopInv, CountInv
<1> DEFINE groups == [packet EXCEPT ![8] = @ - 128]
<1>2. \A j \in 1 .. 8 : Group(command, j) \in 0 .. 127
  BY <1>1, GroupRange, Zenon
<1>3. packet \in [1 .. 8 -> Int]
  BY <1>1, <1>2 DEF Packed
<1>4. /\ groups \in [1 .. 8 -> Int] /\ groups[8] = packet[8] - 128
      /\ \A j \in 1 .. 7 : groups[j] = packet[j]
  BY <1>3
<1> HIDE DEF groups
<1>5. /\ \A j \in 1 .. 7 : packet[j] \in 0 .. 127
      /\ packet[8] \in 128 .. 255 /\ Unpacked(groups) = command
  <2>1. /\ \A j \in 1 .. 7 : groups[j] = Packed(command)[j]
        /\ groups[8] = Packed(command)[8] - 128
    BY <1>1, <1>4, Zenon
  <2>2. /\ \A j \in 1 .. 7 : Packed(command)[j] \in 0 .. 127
        /\ Packed(command)[8] \in 128 .. 255 /\ Unpacked(groups) = command
    BY <1>1, <1>4, <2>1, PackedFacts, Zenon
  <2>3. packet[8] = Packed(command)[8] /\ \A j \in 1 .. 7 : packet[j] = Packed(command)[j]
    BY <1>1, Zenon
  <2>4. \A j \in 1 .. 7 : packet[j] \in 0 .. 127
    BY <2>2, <2>3, ZenonT(60)
  <2> QED
    BY <2>2, <2>3, <2>4, ZenonT(60)
<1>6. \A j \in 1 .. 8 : packet[j] >= 128 <=> j = 8
  BY <1>5, SMTT(30)
<1> QED
  BY <1>1, <1>5, <1>6, Zenon DEF PacketIsExact, groups

(* The index into packet stays inside the array, and what is left in the
   accumulator always fits the byte that is taken out of it. *)
LEMMA LoopIsSmall == ASSUME LoopInv PROVE NStaysSmall
<1>1. NStaysSmall
  <2>1. CountInv /\ UnsentInv
    BY Zenon DEF LoopInv
  <2> DEFINE i == Len(packet)
  <2>2. i \in 0 .. 8 /\ k \in 0 .. 7 /\ bits \in 0 .. 14 /\ i <= 8
    <3>1. i \in 0 .. 8 /\ k \in 0 .. 7 /\ bits \in 0 .. 14
      BY <2>1, Zenon DEF CountInv
    <3> HIDE DEF i
    <3> QED
      BY <3>1
  <2>3. CASE Len(packet) < k
    <3> DEFINE a == Left(command, k - 1)
               b == command[k]
    <3>1. k \in 1 .. 7 /\ n = a * 256 + b /\ bits = k + 7
      BY <2>1, <2>2, <2>3, Counters DEF UnsentInv, CountInv
    <3>2. b \in Byte
      BY <2>1, <3>1, Zenon DEF CountInv
    <3>3. k - 1 \in 0 .. 7
      BY <3>1
    <3>4. a \in Nat /\ a < Pow[k - 1]
      BY <2>1, <3>3, LeftRange, Zenon
    <3> HIDE DEF a, b
    <3>5. n < 16384 /\ n \div Pow[k] < 128
      <4>1. CASE k = 1
        <5>1. a < 1 /\ Pow[k] = 2
          BY <3>4, <4>1, PowValues
        <5>2. b \in 0 .. 255
          BY <3>2, Zenon DEF Byte
        <5>3. n < 16384
          BY <3>1, <3>4, <5>1, <5>2
        <5>4. n \div Pow[k] < 128
          BY <3>1, <3>4, <5>1, <5>2
        <5> QED
          BY <5>3, <5>4
      <4>2. CASE k = 2
        <5>1. a < 2 /\ Pow[k] = 4
          BY <3>4, <4>2, PowValues
        <5>2. b \in 0 .. 255
          BY <3>2, Zenon DEF Byte
        <5>3. n < 16384
          BY <3>1, <3>4, <5>1, <5>2
        <5>4. n \div Pow[k] < 128
          BY <3>1, <3>4, <5>1, <5>2
        <5> QED
          BY <5>3, <5>4
      <4>3. CASE k = 3
        <5>1. a < 4 /\ Pow[k] = 8
          BY <3>4, <4>3, PowValues
        <5>2. b \in 0 .. 255
          BY <3>2, Zenon DEF Byte
        <5>3. n < 16384
          BY <3>1, <3>4, <5>1, <5>2
        <5>4. n \div Pow[k] < 128
          BY <3>1, <3>4, <5>1, <5>2
        <5> QED
          BY <5>3, <5>4
      <4>4. CASE k = 4
        <5>1. a < 8 /\ Pow[k] = 16
          BY <3>4, <4>4, PowValues
        <5>2. b \in 0 .. 255
          BY <3>2, Zenon DEF Byte
        <5>3. n < 16384
          BY <3>1, <3>4, <5>1, <5>2
        <5>4. n \div Pow[k] < 128
          BY <3>1, <3>4, <5>1, <5>2
        <5> QED
          BY <5>3, <5>4
      <4>5. CASE k = 5
        <5>1. a < 16 /\ Pow[k] = 32
          BY <3>4, <4>5, PowValues
        <5>2. b \in 0 .. 255
          BY <3>2, Zenon DEF Byte
        <5>3. n < 16384
          BY <3>1, <3>4, <5>1, <5>2
        <5>4. n \div Pow[k] < 128
          BY <3>1, <3>4, <5>1, <5>2
        <5> QED
          BY <5>3, <5>4
      <4>6. CASE k = 6
        <5>1. a < 32 /\ Pow[k] = 64
          BY <3>4, <4>6, PowValues
        <5>2. b \in 0 .. 255
          BY <3>2, Zenon DEF Byte
        <5>3. n < 16384
          BY <3>1, <3>4, <5>1, <5>2
        <5>4. n \div Pow[k] < 128
          BY <3>1, <3>4, <5>1, <5>2
        <5> QED
          BY <5>3, <5>4
      <4>7. CASE k = 7
        <5>1. a < 64 /\ Pow[k] = 128
          BY <3>4, <4>7, PowValues
        <5>2. b \in 0 .. 255
          BY <3>2, Zenon DEF Byte
        <5>3. n < 16384
          BY <3>1, <3>4, <5>1, <5>2
        <5>4. n \div Pow[k] < 128
          BY <3>1, <3>4, <5>1, <5>2
        <5> QED
          BY <5>3, <5>4
      <4> QED
        BY <3>1, <4>1, <4>2, <4>3, <4>4, <4>5, <4>6, <4>7
    <3> QED
      BY <2>2, <3>1, <3>5 DEF NStaysSmall
  <2>4. CASE Len(packet) = k
    <3>1. n = Left(command, k)
      BY <2>1, <2>4 DEF UnsentInv
    <3>2. n \in Nat /\ n < 128
      BY <2>1, <2>2, <3>1, LeftRange, Zenon
    <3>3. bits >= 7 => bits = 7
      BY <2>1, <2>2, <2>4, Counters DEF CountInv
    <3> QED
      BY <2>2, <3>2, <3>3, PowValues DEF NStaysSmall
  <2>5. CASE Len(packet) > k
    <3>1. n = 0
      BY <2>1, <2>2, <2>5 DEF UnsentInv, CountInv
    <3>2. bits < 7
      BY <2>1, <2>2, <2>5, Counters DEF CountInv
    <3> QED
      BY <2>2, <3>1, <3>2 DEF NStaysSmall
  <2> QED
    BY <2>2, <2>3, <2>4, <2>5
<1> QED
  BY <1>1, Zenon

-----------------------------------------------------------------------------
(* A report as a controller: |= and &= ~ on the button bytes.              *)

BitValues == {1, 2, 4, 8, 16, 32, 64, 128}

Bit(x, q) == (x \div q) % 2

(* Byte y is byte x with bit c being v. *)
Changed(y, x, c, v) == \A q \in BitValues : Bit(y, q) = IF q = c THEN v ELSE Bit(x, q)

(* Adding the value of a bit that is 0 sets that bit and no other. *)
LEMMA AddBit ==
    ASSUME NEW x \in Byte, NEW c \in BitValues, Bit(x, c) = 0
    PROVE  /\ x + c \in Byte
           /\ \A q \in BitValues : Bit(x + c, q) = IF q = c THEN 1 ELSE Bit(x, q)
<1>0. x \in 0 .. 255
  BY Zenon DEF Byte
<1>1. CASE c = 1
  <2>1. (x \div 1) % 2 = 0
    BY <1>1, Zenon DEF Bit
  <2>2. /\ x + 1 \in 0 .. 255
        /\ ((x + 1) \div 1) % 2 = 1 /\ ((x + 1) \div 2) % 2 = (x \div 2) % 2
        /\ ((x + 1) \div 4) % 2 = (x \div 4) % 2 /\ ((x + 1) \div 8) % 2 = (x \div 8) % 2
    BY <1>0, <2>1
  <2>3. /\ ((x + 1) \div 16) % 2 = (x \div 16) % 2 /\ ((x + 1) \div 32) % 2 = (x \div 32) % 2
        /\ ((x + 1) \div 64) % 2 = (x \div 64) % 2 /\ ((x + 1) \div 128) % 2 = (x \div 128) % 2
    BY <1>0, <2>1
  <2> QED
    BY <1>1, <2>2, <2>3, Zenon DEF BitValues, Bit, Byte
<1>2. CASE c = 2
  <2>1. (x \div 2) % 2 = 0
    BY <1>2, Zenon DEF Bit
  <2>2. /\ x + 2 \in 0 .. 255
        /\ ((x + 2) \div 1) % 2 = (x \div 1) % 2 /\ ((x + 2) \div 2) % 2 = 1
        /\ ((x + 2) \div 4) % 2 = (x \div 4) % 2 /\ ((x + 2) \div 8) % 2 = (x \div 8) % 2
    BY <1>0, <2>1
  <2>3. /\ ((x + 2) \div 16) % 2 = (x \div 16) % 2 /\ ((x + 2) \div 32) % 2 = (x \div 32) % 2
        /\ ((x + 2) \div 64) % 2 = (x \div 64) % 2 /\ ((x + 2) \div 128) % 2 = (x \div 128) % 2
    BY <1>0, <2>1
  <2> QED
    BY <1>2, <2>2, <2>3, Zenon DEF BitValues, Bit, Byte
<1>3. CASE c = 4
  <2>1. (x \div 4) % 2 = 0
    BY <1>3, Zenon DEF Bit
  <2>2. /\ x + 4 \in 0 .. 255
        /\ ((x + 4) \div 1) % 2 = (x \div 1) % 2 /\ ((x + 4) \div 2) % 2 = (x \div 2) % 2
        /\ ((x + 4) \div 4) % 2 = 1 /\ ((x + 4) \div 8) % 2 = (x \div 8) % 2
    BY <1>0, <2>1
  <2>3. /\ ((x + 4) \div 16) % 2 = (x \div 16) % 2 /\ ((x + 4) \div 32) % 2 = (x \div 32) % 2
        /\ ((x + 4) \div 64) % 2 = (x \div 64) % 2 /\ ((x + 4) \div 128) % 2 = (x \div 128) % 2
    BY <1>0, <2>1
  <2> QED
    BY <1>3, <2>2, <2>3, Zenon DEF BitValues, Bit, Byte
<1>4. CASE c = 8
  <2>1. (x \div 8) % 2 = 0
    BY <1>4, Zenon DEF Bit
  <2>2. /\ x + 8 \in 0 .. 255
        /\ ((x + 8) \div 1) % 2 = (x \div 1) % 2 /\ ((x + 8) \div 2) % 2 = (x \div 2) % 2
        /\ ((x + 8) \div 4) % 2 = (x \div 4) % 2 /\ ((x + 8) \div 8) % 2 = 1
    BY <1>0, <2>1
  <2>3. /\ ((x + 8) \div 16) % 2 = (x \div 16) % 2 /\ ((x + 8) \div 32) % 2 = (x \div 32) % 2
        /\ ((x + 8) \div 64) % 2 = (x \div 64) % 2 /\ ((x + 8) \div 128) % 2 = (x \div 128) % 2
    BY <1>0, <2>1
  <2> QED
    BY <1>4, <2>2, <2>3, Zenon DEF BitValues, Bit, Byte
<1>5. CASE c = 16
  <2>1. (x \div 16) % 2 = 0
    BY <1>5, Zenon DEF Bit
  <2>2. /\ x + 16 \in 0 .. 255
        /\ ((x + 16) \div 1) % 2 = (x \div 1) % 2 /\ ((x + 16) \div 2) % 2 = (x \div 2) % 2
        /\ ((x + 16) \div 4) % 2 = (x \div 4) % 2 /\ ((x + 16) \div 8) % 2 = (x \div 8) % 2
    BY <1>0, <2>1
  <2>3. /\ ((x + 16) \div 16) % 2 = 1 /\ ((x + 16) \div 32) % 2 = (x \div 32) % 2
        /\ ((x + 16) \div 64) % 2 = (x \div 64) % 2 /\ ((x + 16) \div 128) % 2 = (x \div 128) % 2
    BY <1>0, <2>1
  <2> QED
    BY <1>5, <2>2, <2>3, Zenon DEF BitValues, Bit, Byte
<1>6. CASE c = 32
  <2>1. (x \div 32) % 2 = 0
    BY <1>6, Zenon DEF Bit
  <2>2. /\ x + 32 \in 0 .. 255
        /\ ((x + 32) \div 1) % 2 = (x \div 1) % 2 /\ ((x + 32) \div 2) % 2 = (x \div 2) % 2
        /\ ((x + 32) \div 4) % 2 = (x \div 4) % 2 /\ ((x + 32) \div 8) % 2 = (x \div 8) % 2
    BY <1>0, <2>1
  <2>3. /\ ((x + 32) \div 16) % 2 = (x \div 16) % 2 /\ ((x + 32) \div 32) % 2 = 1
        /\ ((x + 32) \div 64) % 2 = (x \div 64) % 2 /\ ((x + 32) \div 128) % 2 = (x \div 128) % 2
    BY <1>0, <2>1
  <2> QED
    BY <1>6, <2>2, <2>3, Zenon DEF BitValues, Bit, Byte
<1>7. CASE c = 64
  <2>1. (x \div 64) % 2 = 0
    BY <1>7, Zenon DEF Bit
  <2>2. /\ x + 64 \in 0 .. 255
        /\ ((x + 64) \div 1) % 2 = (x \div 1) % 2 /\ ((x + 64) \div 2) % 2 = (x \div 2) % 2
        /\ ((x + 64) \div 4) % 2 = (x \div 4) % 2 /\ ((x + 64) \div 8) % 2 = (x \div 8) % 2
    BY <1>0, <2>1
  <2>3. /\ ((x + 64) \div 16) % 2 = (x \div 16) % 2 /\ ((x + 64) \div 32) % 2 = (x \div 32) % 2
        /\ ((x + 64) \div 64) % 2 = 1 /\ ((x + 64) \div 128) % 2 = (x \div 128) % 2
    BY <1>0, <2>1
  <2> QED
    BY <1>7, <2>2, <2>3 DEF BitValues, Bit, Byte
<1>8. CASE c = 128
  <2>1. (x \div 128) % 2 = 0
    BY <1>8, Zenon DEF Bit
  <2>2. /\ x + 128 \in 0 .. 255
        /\ ((x + 128) \div 1) % 2 = (x \div 1) % 2 /\ ((x + 128) \div 2) % 2 = (x \div 2) % 2
        /\ ((x + 128) \div 4) % 2 = (x \div 4) % 2 /\ ((x + 128) \div 8) % 2 = (x \div 8) % 2
    BY <1>0, <2>1
  <2>3. /\ ((x + 128) \div 16) % 2 = (x \div 16) % 2 /\ ((x + 128) \div 32) % 2 = (x \div 32) % 2
        /\ ((x + 128) \div 64) % 2 = (x \div 64) % 2 /\ ((x + 128) \div 128) % 2 = 1
    BY <1>0, <2>1
  <2> QED
    BY <1>8, <2>2, <2>3 DEF BitValues, Bit, Byte
<1> QED
  BY <1>1, <1>2, <1>3, <1>4, <1>5, <1>6, <1>7, <1>8, Zenon DEF BitValues

(* Subtracting the value of a bit that is 1 clears it. *)
LEMMA SubtractBit ==
    ASSUME NEW x \in Byte, NEW c \in BitValues, Bit(x, c) = 1
    PROVE  x - c \in Byte /\ Bit(x - c, c) = 0
<1>0. x \in 0 .. 255
  BY Zenon DEF Byte
<1>1. CASE c = 1
  <2>1. (x \div 1) % 2 = 1
    BY <1>1, Zenon DEF Bit
  <2>2. x - 1 \in 0 .. 255 /\ ((x - 1) \div 1) % 2 = 0
    BY <1>0, <2>1
  <2> QED
    BY <1>1, <2>2, Zenon DEF Bit, Byte
<1>2. CASE c = 2
  <2>1. (x \div 2) % 2 = 1
    BY <1>2, Zenon DEF Bit
  <2>2. x - 2 \in 0 .. 255 /\ ((x - 2) \div 2) % 2 = 0
    BY <1>0, <2>1
  <2> QED
    BY <1>2, <2>2, Zenon DEF Bit, Byte
<1>3. CASE c = 4
  <2>1. (x \div 4) % 2 = 1
    BY <1>3, Zenon DEF Bit
  <2>2. x - 4 \in 0 .. 255 /\ ((x - 4) \div 4) % 2 = 0
    BY <1>0, <2>1
  <2> QED
    BY <1>3, <2>2, Zenon DEF Bit, Byte
<1>4. CASE c = 8
  <2>1. (x \div 8) % 2 = 1
    BY <1>4, Zenon DEF Bit
  <2>2. x - 8 \in 0 .. 255 /\ ((x - 8) \div 8) % 2 = 0
    BY <1>0, <2>1
  <2> QED
    BY <1>4, <2>2, Zenon DEF Bit, Byte
<1>5. CASE c = 16
  <2>1. (x \div 16) % 2 = 1
    BY <1>5, Zenon DEF Bit
  <2>2. x - 16 \in 0 .. 255 /\ ((x - 16) \div 16) % 2 = 0
    BY <1>0, <2>1
  <2> QED
    BY <1>5, <2>2, Zenon DEF Bit, Byte
<1>6. CASE c = 32
  <2>1. (x \div 32) % 2 = 1
    BY <1>6, Zenon DEF Bit
  <2>2. x - 32 \in 0 .. 255 /\ ((x - 32) \div 32) % 2 = 0
    BY <1>0, <2>1
  <2> QED
    BY <1>6, <2>2, Zenon DEF Bit, Byte
<1>7. CASE c = 64
  <2>1. (x \div 64) % 2 = 1
    BY <1>7, Zenon DEF Bit
  <2>2. x - 64 \in 0 .. 255 /\ ((x - 64) \div 64) % 2 = 0
    BY <1>0, <2>1
  <2> QED
    BY <1>7, <2>2, Zenon DEF Bit, Byte
<1>8. CASE c = 128
  <2>1. (x \div 128) % 2 = 1
    BY <1>8, Zenon DEF Bit
  <2>2. x - 128 \in 0 .. 255 /\ ((x - 128) \div 128) % 2 = 0
    BY <1>0, <2>1
  <2> QED
    BY <1>8, <2>2, Zenon DEF Bit, Byte
<1> QED
  BY <1>1, <1>2, <1>3, <1>4, <1>5, <1>6, <1>7, <1>8, Zenon DEF BitValues

(* |= sets one bit, &= ~ clears one bit. *)
LEMMA OneBit ==
    ASSUME NEW x \in Byte, NEW c \in BitValues
    PROVE  /\ Or(x, c) \in Byte /\ AndNot(x, c) \in Byte
           /\ Changed(Or(x, c), x, c, 1) /\ Changed(AndNot(x, c), x, c, 0)
<1>1. Bit(x, c) = 1 \/ Bit(x, c) = 0
  <2>1. x \div c \in Int
    BY DEF BitValues, Byte
  <2> QED
    BY <2>1 DEF Bit
<1>2. CASE Bit(x, c) = 1
  <2>1. Or(x, c) = x /\ AndNot(x, c) = x - c
    BY <1>2, Zenon DEF Or, AndNot, Bit
  <2>2. x - c \in Byte /\ Bit(x - c, c) = 0
    BY <1>2, SubtractBit, Zenon
  <2>3. (x - c) + c = x
    BY DEF Byte, BitValues
  <2>4. \A q \in BitValues : Bit((x - c) + c, q) = IF q = c THEN 1 ELSE Bit(x - c, q)
    BY <2>2, AddBit, Zenon
  <2> QED
    BY <1>2, <2>1, <2>2, <2>3, <2>4, Zenon DEF Changed
<1>3. CASE Bit(x, c) = 0
  <2>1. Or(x, c) = x + c /\ AndNot(x, c) = x
    BY <1>3 DEF Or, AndNot, Bit
  <2> QED
    BY <1>3, <2>1, AddBit DEF Changed
<1> QED
  BY <1>1, <1>2, <1>3, Zenon

(* The names of the buttons and the slots. *)
LEMMA Names ==
    /\ AllButtons = {"A", "B", "X", "Y", "L", "R", "ZL", "ZR", "L_STICK", "R_STICK", "D_TOP",
                     "D_BOTTOM", "D_LEFT", "D_RIGHT", "PLUS", "MINUS", "HOME", "CAPTURE"}
    /\ BitButtons = {"A", "B", "X", "Y", "L", "R", "ZL", "ZR", "L_STICK", "R_STICK",
                     "PLUS", "MINUS", "HOME", "CAPTURE"}
BY DEF AllButtons, BitButtons, isHat, commandEasyCon

(* The buttons of the second byte and of the first. *)
LowButtons == {"A", "B", "X", "Y", "L", "R", "ZL", "ZR"}
HighButtons == {"L_STICK", "R_STICK", "PLUS", "MINUS", "HOME", "CAPTURE"}

(* A button is one of the two kinds or a position of the hat, whose code is
   the position. *)
LEMMA ButtonBytes ==
    /\ BitButtons = LowButtons \cup HighButtons
    /\ \A b \in BitButtons : ~isHat(b) /\ b \notin {"HAT", "LX", "LY", "RX", "RY"}
    /\ \A b \in AllButtons : isHat(b) \/ b \in BitButtons
    /\ \A b \in AllButtons : isHat(b) => commandEasyCon[b] = HatPosition[b] /\ HatPosition[b] \in Byte
BY Names DEF LowButtons, HighButtons, isHat, commandEasyCon, HatPosition, Byte

(* Each of these buttons has a bit of its own: the codes of
   NintendoSwitchStandardButton. *)
LEMMA LowCodes ==
    /\ \A b \in LowButtons : commandEasyCon[b] \in BitValues /\ commandEasyCon[b] <= 128
    /\ \A b, c \in LowButtons : commandEasyCon[b] = commandEasyCon[c] => b = c
BY DEF LowButtons, commandEasyCon, BitValues

(* The same of the upper byte. *)
LEMMA HighCodes ==
    /\ \A b \in HighButtons : commandEasyCon[b] \div 256 \in BitValues /\ ~(commandEasyCon[b] <= 128)
    /\ \A b, c \in HighButtons :
          commandEasyCon[b] \div 256 = commandEasyCon[c] \div 256 => b = c
BY DEF HighButtons, commandEasyCon, BitValues

(* Which part of a report each slot of the controller is. *)
LEMMA PadSlotsOf ==
    ASSUME NEW bytes
    PROVE  /\ DOMAIN PadOf(bytes) = Slots
           /\ PadOf(bytes) = [s \in Slots |-> PadOf(bytes)[s]]
           /\ PadOf(bytes)["HAT"] = bytes[3]
           /\ PadOf(bytes)["LX"] = bytes[4] /\ PadOf(bytes)["LY"] = bytes[5]
           /\ PadOf(bytes)["RX"] = bytes[6] /\ PadOf(bytes)["RY"] = bytes[7]
           /\ \A b \in LowButtons : PadOf(bytes)[b] = Bit(bytes[2], commandEasyCon[b])
           /\ \A b \in HighButtons : PadOf(bytes)[b] = Bit(bytes[1], commandEasyCon[b] \div 256)
<1>1. DOMAIN PadOf(bytes) = Slots /\ PadOf(bytes) = [s \in Slots |-> PadOf(bytes)[s]]
  BY DEF PadOf
<1>2. /\ PadOf(bytes)["HAT"] = bytes[3]
      /\ PadOf(bytes)["LX"] = bytes[4] /\ PadOf(bytes)["LY"] = bytes[5]
      /\ PadOf(bytes)["RX"] = bytes[6] /\ PadOf(bytes)["RY"] = bytes[7]
  BY Zenon DEF PadOf, Slots
<1>3. ASSUME NEW b \in LowButtons PROVE PadOf(bytes)[b] = Bit(bytes[2], commandEasyCon[b])
  <2>1. b \in Slots /\ b \notin {"HAT", "LX", "LY", "RX", "RY"} /\ commandEasyCon[b] <= 128
    BY ButtonBytes, LowCodes, Zenon DEF Slots
  <2> QED
    BY <2>1, Zenon DEF PadOf, Bit
<1>4. ASSUME NEW b \in HighButtons
      PROVE  PadOf(bytes)[b] = Bit(bytes[1], commandEasyCon[b] \div 256)
  <2>1. b \in Slots /\ b \notin {"HAT", "LX", "LY", "RX", "RY"} /\ ~(commandEasyCon[b] <= 128)
    BY ButtonBytes, HighCodes, Zenon DEF Slots
  <2> QED
    BY <2>1, Zenon DEF PadOf, Bit
<1> QED
  BY <1>1, <1>2, <1>3, <1>4, Zenon

(* Two controllers are the same when all their parts are. *)
LEMMA SamePad ==
    ASSUME NEW p, NEW q, p = [s \in Slots |-> p[s]], q = [s \in Slots |-> q[s]],
           \A s \in {"HAT", "LX", "LY", "RX", "RY"} : p[s] = q[s],
           \A b \in LowButtons : p[b] = q[b], \A b \in HighButtons : p[b] = q[b]
    PROVE  p = q
<1>1. Slots = LowButtons \cup HighButtons \cup {"HAT", "LX", "LY", "RX", "RY"}
  BY ButtonBytes, Zenon DEF Slots
<1>2. \A s \in Slots : p[s] = q[s]
  BY <1>1, Zenon
<1> QED
  BY <1>2, Zenon

(* The default report is a controller at rest (getDefault). *)
LEMMA DefaultPad == getDefault \in [1 .. 7 -> Byte] /\ PadOf(getDefault) = RestPad
<1>1. /\ getDefault[1] = 0 /\ getDefault[2] = 0 /\ getDefault[3] = 8 /\ getDefault[4] = 128
      /\ getDefault[5] = 128 /\ getDefault[6] = 128 /\ getDefault[7] = 128
      /\ getDefault \in [1 .. 7 -> Byte]
  BY DEF getDefault, Byte
<1>2. \A q \in BitValues : Bit(0, q) = 0
  BY DEF Bit, BitValues
<1>3. /\ RestPad = [s \in Slots |-> RestPad[s]]
      /\ RestPad["HAT"] = 8 /\ \A s \in {"LX", "LY", "RX", "RY"} : RestPad[s] = 128
      /\ \A b \in BitButtons : RestPad[b] = 0
  BY ButtonBytes DEF RestPad, Slots
<1>4. /\ \A b \in LowButtons : PadOf(getDefault)[b] = RestPad[b]
      /\ \A b \in HighButtons : PadOf(getDefault)[b] = RestPad[b]
  <2>1. ASSUME NEW b \in LowButtons PROVE PadOf(getDefault)[b] = RestPad[b]
    <3>1. PadOf(getDefault)[b] = Bit(0, commandEasyCon[b]) /\ commandEasyCon[b] \in BitValues
      BY <1>1, PadSlotsOf, LowCodes
    <3>2. b \in BitButtons
      BY ButtonBytes, Zenon
    <3> QED
      BY <1>2, <1>3, <3>1, <3>2
  <2>2. ASSUME NEW b \in HighButtons PROVE PadOf(getDefault)[b] = RestPad[b]
    <3>1. /\ PadOf(getDefault)[b] = Bit(0, commandEasyCon[b] \div 256)
          /\ commandEasyCon[b] \div 256 \in BitValues
      BY <1>1, PadSlotsOf, HighCodes
    <3>2. b \in BitButtons
      BY ButtonBytes, Zenon
    <3> QED
      BY <1>2, <1>3, <3>1, <3>2
  <2> QED
    BY <2>1, <2>2, Zenon
<1>5. \A s \in {"HAT", "LX", "LY", "RX", "RY"} : PadOf(getDefault)[s] = RestPad[s]
  BY <1>1, <1>3, PadSlotsOf
<1>6. PadOf(getDefault) = [s \in Slots |-> PadOf(getDefault)[s]]
  BY PadSlotsOf, Zenon
<1> QED
  BY <1>1, <1>3, <1>4, <1>5, <1>6, SamePad

(* The write of one slot of a controller. *)
LEMMA OverlayAt ==
    ASSUME NEW s \in Slots, NEW v, NEW p, DOMAIN p = Slots
    PROVE  Overlay(At(s, v), p) = [t \in Slots |-> IF t = s THEN v ELSE p[t]]
<1>1. DOMAIN At(s, v) = {s} /\ At(s, v)[s] = v /\ {s} \cup Slots = Slots
  BY Zenon DEF At
<1> QED
  BY <1>1, Zenon DEF Overlay

(* A report that differs in one slot. *)
LEMMA OneSlot ==
    ASSUME NEW bytes, NEW new, NEW a \in Slots, NEW v,
           PadOf(new)[a] = v, \A t \in Slots \ {a} : PadOf(new)[t] = PadOf(bytes)[t]
    PROVE  PadOf(new) = Overlay(At(a, v), PadOf(bytes))
<1> DEFINE p == PadOf(new)
           q == Overlay(At(a, v), PadOf(bytes))
<1>1. p = [s \in Slots |-> p[s]] /\ DOMAIN PadOf(bytes) = Slots
  BY DEF PadOf
<1>2. q = [t \in Slots |-> IF t = a THEN v ELSE PadOf(bytes)[t]]
  BY <1>1, OverlayAt
<1>3. \A t \in Slots : p[t] = IF t = a THEN v ELSE PadOf(bytes)[t]
  BY Zenon
<1> HIDE DEF p, q
<1> QED
  BY <1>1, <1>2, <1>3, Zenon DEF p, q

(* The parts of a controller. *)
LEMMA Parts ==
    /\ Slots = LowButtons \cup HighButtons \cup {"HAT", "LX", "LY", "RX", "RY"}
    /\ LowButtons \cap HighButtons = {}
    /\ LowButtons \cap {"HAT", "LX", "LY", "RX", "RY"} = {}
    /\ HighButtons \cap {"HAT", "LX", "LY", "RX", "RY"} = {}
BY ButtonBytes, Zenon DEF Slots, LowButtons, HighButtons

(* A slot of a report is the byte, or the bit of a byte, it always was. *)
LEMMA SameParts ==
    ASSUME NEW bytes, NEW new
    PROVE  /\ new[3] = bytes[3] => PadOf(new)["HAT"] = PadOf(bytes)["HAT"]
           /\ new[2] = bytes[2] => \A b \in LowButtons : PadOf(new)[b] = PadOf(bytes)[b]
           /\ new[1] = bytes[1] => \A b \in HighButtons : PadOf(new)[b] = PadOf(bytes)[b]
           /\ new[4] = bytes[4] => PadOf(new)["LX"] = PadOf(bytes)["LX"]
           /\ new[5] = bytes[5] => PadOf(new)["LY"] = PadOf(bytes)["LY"]
           /\ new[6] = bytes[6] => PadOf(new)["RX"] = PadOf(bytes)["RX"]
           /\ new[7] = bytes[7] => PadOf(new)["RY"] = PadOf(bytes)["RY"]
BY PadSlotsOf

(* What changing one byte of a report does to the controller: byte 3 is the
   hat ... *)
LEMMA HatByte ==
    ASSUME NEW bytes \in [1 .. 7 -> Byte], NEW v
    PROVE  PadOf([bytes EXCEPT ![3] = v]) = Overlay(At("HAT", v), PadOf(bytes))
<1> DEFINE new == [bytes EXCEPT ![3] = v]
<1>1. /\ new[3] = v /\ new[1] = bytes[1] /\ new[2] = bytes[2] /\ new[4] = bytes[4]
      /\ new[5] = bytes[5] /\ new[6] = bytes[6] /\ new[7] = bytes[7]
  OBVIOUS
<1> HIDE DEF new
<1>2. \A t \in Slots \ {"HAT"} : PadOf(new)[t] = PadOf(bytes)[t]
  <2>1. /\ PadOf(new)["LX"] = PadOf(bytes)["LX"] /\ PadOf(new)["LY"] = PadOf(bytes)["LY"]
        /\ PadOf(new)["RX"] = PadOf(bytes)["RX"] /\ PadOf(new)["RY"] = PadOf(bytes)["RY"]
        /\ \A b \in LowButtons : PadOf(new)[b] = PadOf(bytes)[b]
        /\ \A b \in HighButtons : PadOf(new)[b] = PadOf(bytes)[b]
    BY <1>1, SameParts
  <2> QED
    BY <2>1, Parts, Zenon
<1>3. PadOf(new)["HAT"] = v /\ "HAT" \in Slots
  BY <1>1, PadSlotsOf, Parts, Zenon
<1>4. PadOf(new) = Overlay(At("HAT", v), PadOf(bytes))
  BY <1>2, <1>3, OneSlot
<1> QED
  BY <1>4, Zenon DEF new

(* ... a bit of byte 2 is a button ... *)
LEMMA LowByte ==
    ASSUME NEW bytes \in [1 .. 7 -> Byte], NEW y, NEW v, NEW a \in LowButtons,
           Changed(y, bytes[2], commandEasyCon[a], v)
    PROVE  PadOf([bytes EXCEPT ![2] = y]) = Overlay(At(a, v), PadOf(bytes))
<1> DEFINE new == [bytes EXCEPT ![2] = y]
<1>1. /\ new[2] = y /\ new[1] = bytes[1] /\ new[3] = bytes[3] /\ new[4] = bytes[4]
      /\ new[5] = bytes[5] /\ new[6] = bytes[6] /\ new[7] = bytes[7]
  OBVIOUS
<1> HIDE DEF new
<1>2. ASSUME NEW b \in LowButtons
      PROVE  PadOf(new)[b] = IF b = a THEN v ELSE PadOf(bytes)[b]
  <2>1. PadOf(new)[b] = Bit(y, commandEasyCon[b])
    BY <1>1, PadSlotsOf
  <2>2. PadOf(bytes)[b] = Bit(bytes[2], commandEasyCon[b])
    BY PadSlotsOf
  <2>3. commandEasyCon[b] \in BitValues /\ (commandEasyCon[b] = commandEasyCon[a] <=> b = a)
    BY LowCodes, Zenon
  <2> QED
    BY <2>1, <2>2, <2>3, Zenon DEF Changed
<1>3. \A t \in Slots \ LowButtons : PadOf(new)[t] = PadOf(bytes)[t]
  <2>1. /\ PadOf(new)["LX"] = PadOf(bytes)["LX"] /\ PadOf(new)["LY"] = PadOf(bytes)["LY"]
        /\ PadOf(new)["RX"] = PadOf(bytes)["RX"] /\ PadOf(new)["RY"] = PadOf(bytes)["RY"]
        /\ PadOf(new)["HAT"] = PadOf(bytes)["HAT"]
        /\ \A b \in HighButtons : PadOf(new)[b] = PadOf(bytes)[b]
    BY <1>1, SameParts
  <2> QED
    BY <2>1, Parts, Zenon
<1>4. a \in Slots
  BY Parts, Zenon
<1>5. PadOf(new)[a] = v /\ \A t \in Slots \ {a} : PadOf(new)[t] = PadOf(bytes)[t]
  BY <1>2, <1>3, Zenon
<1>6. PadOf(new) = Overlay(At(a, v), PadOf(bytes))
  BY <1>4, <1>5, OneSlot
<1> QED
  BY <1>6, Zenon DEF new

(* ... and so is a bit of byte 1. *)
LEMMA HighByte ==
    ASSUME NEW bytes \in [1 .. 7 -> Byte], NEW y, NEW v, NEW a \in HighButtons,
           Changed(y, bytes[1], commandEasyCon[a] \div 256, v)
    PROVE  PadOf([bytes EXCEPT ![1] = y]) = Overlay(At(a, v), PadOf(bytes))
<1> DEFINE new == [bytes EXCEPT ![1] = y]
<1>1. /\ new[1] = y /\ new[2] = bytes[2] /\ new[3] = bytes[3] /\ new[4] = bytes[4]
      /\ new[5] = bytes[5] /\ new[6] = bytes[6] /\ new[7] = bytes[7]
  OBVIOUS
<1> HIDE DEF new
<1>2. ASSUME NEW b \in HighButtons
      PROVE  PadOf(new)[b] = IF b = a THEN v ELSE PadOf(bytes)[b]
  <2>1. PadOf(new)[b] = Bit(y, commandEasyCon[b] \div 256)
    BY <1>1, PadSlotsOf
  <2>2. PadOf(bytes)[b] = Bit(bytes[1], commandEasyCon[b] \div 256)
    BY PadSlotsOf
  <2>3. /\ commandEasyCon[b] \div 256 \in BitValues
        /\ commandEasyCon[b] \div 256 = commandEasyCon[a] \div 256 <=> b = a
    BY HighCodes
  <2> QED
    BY <2>1, <2>2, <2>3 DEF Changed
<1>3. \A t \in Slots \ HighButtons : PadOf(new)[t] = PadOf(bytes)[t]
  <2>1. /\ PadOf(new)["LX"] = PadOf(bytes)["LX"] /\ PadOf(new)["LY"] = PadOf(bytes)["LY"]
        /\ PadOf(new)["RX"] = PadOf(bytes)["RX"] /\ PadOf(new)["RY"] = PadOf(bytes)["RY"]
        /\ PadOf(new)["HAT"] = PadOf(bytes)["HAT"]
        /\ \A b \in LowButtons : PadOf(new)[b] = PadOf(bytes)[b]
    BY <1>1, SameParts
  <2> QED
    BY <2>1, Parts, Zenon
<1>4. a \in Slots
  BY Parts, Zenon
<1>5. PadOf(new)[a] = v /\ \A t \in Slots \ {a} : PadOf(new)[t] = PadOf(bytes)[t]
  BY <1>2, <1>3, Zenon
<1>6. PadOf(new) = Overlay(At(a, v), PadOf(bytes))
  BY <1>4, <1>5, OneSlot
<1> QED
  BY <1>6, Zenon DEF new

(* The report of a call about a button: what hold and release make of the
   bytes is what they mean. *)
LEMMA ButtonReport ==
    ASSUME NEW bytes \in [1 .. 7 -> Byte], NEW b \in AllButtons
    PROVE  LET code == commandEasyCon[b]
               held == CASE isHat(b) -> [bytes EXCEPT ![3] = code]
                         [] ~isHat(b) /\ code <= 128 -> [bytes EXCEPT ![2] = Or(@, code)]
                         [] OTHER -> [bytes EXCEPT ![1] = Or(@, code \div 256)]
               freed == CASE isHat(b) -> [bytes EXCEPT ![3] = 8]
                          [] ~isHat(b) /\ code <= 128 -> [bytes EXCEPT ![2] = AndNot(@, code)]
                          [] OTHER -> [bytes EXCEPT ![1] = AndNot(@, code \div 256)]
           IN  /\ held \in [1 .. 7 -> Byte] /\ PadOf(held) = Overlay(Held(b), PadOf(bytes))
               /\ freed \in [1 .. 7 -> Byte] /\ PadOf(freed) = Overlay(Released(b), PadOf(bytes))
<1> DEFINE code == commandEasyCon[b]
           held == CASE isHat(b) -> [bytes EXCEPT ![3] = code]
                     [] ~isHat(b) /\ code <= 128 -> [bytes EXCEPT ![2] = Or(@, code)]
                     [] OTHER -> [bytes EXCEPT ![1] = Or(@, code \div 256)]
           freed == CASE isHat(b) -> [bytes EXCEPT ![3] = 8]
                      [] ~isHat(b) /\ code <= 128 -> [bytes EXCEPT ![2] = AndNot(@, code)]
                      [] OTHER -> [bytes EXCEPT ![1] = AndNot(@, code \div 256)]
<1>1. ASSUME NEW j \in 1 .. 7, NEW y \in Byte PROVE [bytes EXCEPT ![j] = y] \in [1 .. 7 -> Byte]
  BY Zenon
<1>2. CASE isHat(b)
  <2>1. held = [bytes EXCEPT ![3] = code] /\ freed = [bytes EXCEPT ![3] = 8]
    BY <1>2, Zenon
  <2>2. code \in Byte /\ 8 \in Byte /\ code = HatPosition[b]
    <3>1. 8 \in Byte
      BY DEF Byte
    <3> QED
      BY <1>2, <3>1, ButtonBytes, Zenon
  <2>3. Held(b) = At("HAT", code) /\ Released(b) = At("HAT", 8)
    BY <1>2, <2>2, Zenon DEF Held, Released
  <2> HIDE DEF held, freed, code
  <2>4. PadOf(held) = Overlay(Held(b), PadOf(bytes)) /\ PadOf(freed) = Overlay(Released(b), PadOf(bytes))
    BY <2>1, <2>3, HatByte, Zenon
  <2>5. held \in [1 .. 7 -> Byte] /\ freed \in [1 .. 7 -> Byte]
    BY <1>1, <2>1, <2>2, Zenon
  <2> QED
    BY <2>4, <2>5, Zenon DEF held, freed, code
<1>3. CASE ~isHat(b) /\ code <= 128
  <2>1. held = [bytes EXCEPT ![2] = Or(bytes[2], code)]
        /\ freed = [bytes EXCEPT ![2] = AndNot(bytes[2], code)]
    BY <1>3, Zenon
  <2>2. b \in LowButtons /\ code \in BitValues /\ bytes[2] \in Byte
    BY <1>3, ButtonBytes, LowCodes, HighCodes
  <2>3. Held(b) = At(b, 1) /\ Released(b) = At(b, 0)
    BY <1>3, Zenon DEF Held, Released
  <2>4. /\ Or(bytes[2], code) \in Byte /\ AndNot(bytes[2], code) \in Byte
        /\ Changed(Or(bytes[2], code), bytes[2], code, 1)
        /\ Changed(AndNot(bytes[2], code), bytes[2], code, 0)
    BY <2>2, OneBit, Zenon
  <2> HIDE DEF held, freed
  <2>5. PadOf(held) = Overlay(Held(b), PadOf(bytes)) /\ PadOf(freed) = Overlay(Released(b), PadOf(bytes))
    <3>1. PadOf([bytes EXCEPT ![2] = Or(bytes[2], code)]) = Overlay(At(b, 1), PadOf(bytes))
      BY <2>2, <2>4, LowByte, Zenon
    <3>2. PadOf([bytes EXCEPT ![2] = AndNot(bytes[2], code)]) = Overlay(At(b, 0), PadOf(bytes))
      BY <2>2, <2>4, LowByte, Zenon
    <3> QED
      BY <2>1, <2>3, <3>1, <3>2, Zenon
  <2>6. held \in [1 .. 7 -> Byte] /\ freed \in [1 .. 7 -> Byte]
    BY <1>1, <2>1, <2>4, Zenon
  <2> QED
    BY <2>5, <2>6, Zenon DEF held, freed
<1>4. CASE ~isHat(b) /\ ~(code <= 128)
  <2> DEFINE bit == code \div 256
  <2>1. held = [bytes EXCEPT ![1] = Or(bytes[1], bit)]
        /\ freed = [bytes EXCEPT ![1] = AndNot(bytes[1], bit)]
    BY <1>4, Zenon
  <2>2. b \in HighButtons /\ bit \in BitValues /\ bytes[1] \in Byte
    BY <1>4, ButtonBytes, LowCodes, HighCodes
  <2>3. Held(b) = At(b, 1) /\ Released(b) = At(b, 0)
    BY <1>4, Zenon DEF Held, Released
  <2>4. /\ Or(bytes[1], bit) \in Byte /\ AndNot(bytes[1], bit) \in Byte
        /\ Changed(Or(bytes[1], bit), bytes[1], bit, 1)
        /\ Changed(AndNot(bytes[1], bit), bytes[1], bit, 0)
    BY <2>2, OneBit, ZenonT(60)
  <2> HIDE DEF held, freed
  <2>5. PadOf(held) = Overlay(Held(b), PadOf(bytes)) /\ PadOf(freed) = Overlay(Released(b), PadOf(bytes))
    <3>1. PadOf([bytes EXCEPT ![1] = Or(bytes[1], bit)]) = Overlay(At(b, 1), PadOf(bytes))
      BY <2>2, <2>4, HighByte, ZenonT(60)
    <3>2. PadOf([bytes EXCEPT ![1] = AndNot(bytes[1], bit)]) = Overlay(At(b, 0), PadOf(bytes))
      BY <2>2, <2>4, HighByte, Zenon
    <3> QED
      BY <2>1, <2>3, <3>1, <3>2, Zenon
  <2>6. held \in [1 .. 7 -> Byte] /\ freed \in [1 .. 7 -> Byte]
    BY <1>1, <2>1, <2>4, Zenon
  <2> QED
    BY <2>5, <2>6, Zenon DEF held, freed
<1> QED
  BY <1>2, <1>3, <1>4, Zenon

(* A report that differs in two slots. *)
LEMMA TwoSlots ==
    ASSUME NEW bytes, NEW new, NEW a \in Slots, NEW v, NEW b \in Slots \ {a}, NEW w,
           PadOf(new)[a] = v, PadOf(new)[b] = w,
           \A t \in Slots \ {a, b} : PadOf(new)[t] = PadOf(bytes)[t]
    PROVE  PadOf(new) = Overlay(Overlay(At(a, v), At(b, w)), PadOf(bytes))
<1> DEFINE p == PadOf(new)
           m == Overlay(At(a, v), At(b, w))
           q == Overlay(m, PadOf(bytes))
<1>1. p = [s \in Slots |-> p[s]] /\ DOMAIN PadOf(bytes) = Slots
  BY ZenonT(60) DEF PadOf
<1>2. DOMAIN m = {a, b} /\ m[a] = v /\ m[b] = w
  BY Zenon DEF Overlay, At
<1>3. q = [t \in Slots |-> IF t = a THEN v ELSE IF t = b THEN w ELSE PadOf(bytes)[t]]
  <2> HIDE DEF m
  <2>1. DOMAIN m \cup Slots = Slots
    BY <1>2, Zenon
  <2> QED
    BY <1>1, <1>2, <2>1, Zenon DEF Overlay
<1>4. \A t \in Slots : p[t] = IF t = a THEN v ELSE IF t = b THEN w ELSE PadOf(bytes)[t]
  BY Zenon
<1> HIDE DEF p, q, m
<1>5. p = q
  BY <1>1, <1>3, <1>4, Zenon
<1> QED
  BY <1>5, Zenon DEF p, q, m

(* The positions of the sticks as a set of names. *)
LEMMA Positions ==
    AllDirections = {"L_TOP", "L_TOP_RIGHT", "L_RIGHT", "L_BOTTOM_RIGHT", "L_BOTTOM",
                     "L_BOTTOM_LEFT", "L_LEFT", "L_TOP_LEFT", "L_CENTER",
                     "R_TOP", "R_TOP_RIGHT", "R_RIGHT", "R_BOTTOM_RIGHT", "R_BOTTOM",
                     "R_BOTTOM_LEFT", "R_LEFT", "R_TOP_LEFT", "R_CENTER"}
BY Zenon DEF AllDirections, standardStick

(* The bytes of a position are what it means: commandEasyCon of the base
   sticks does not depend on the stick, so LY_MIN serves the right one too. *)
LEMMA StickBytes ==
    ASSUME NEW d \in AllDirections
    PROVE  /\ stickCommandEasyCon(standardStick[d][1]) \in Byte
           /\ stickCommandEasyCon(standardStick[d][2]) \in Byte
           /\ AxisX(d) = At(IF isLeft(d) THEN "LX" ELSE "RX", stickCommandEasyCon(standardStick[d][1]))
           /\ AxisY(d) = At(IF isLeft(d) THEN "LY" ELSE "RY", stickCommandEasyCon(standardStick[d][2]))
BY Positions DEF standardStick, stickCommandEasyCon, isLeft, AxisX, AxisY, Vertical, Byte

(* The report of set: both axes of one stick. *)
LEMMA StickReport ==
    ASSUME NEW bytes \in [1 .. 7 -> Byte], NEW d \in AllDirections
    PROVE  LET x == stickCommandEasyCon(standardStick[d][1])
               y == stickCommandEasyCon(standardStick[d][2])
               new == IF isLeft(d) THEN [bytes EXCEPT ![4] = x, ![5] = y]
                                   ELSE [bytes EXCEPT ![6] = x, ![7] = y]
           IN  /\ new \in [1 .. 7 -> Byte]
               /\ PadOf(new) = Overlay(Overlay(AxisX(d), AxisY(d)), PadOf(bytes))
<1> DEFINE x == stickCommandEasyCon(standardStick[d][1])
           y == stickCommandEasyCon(standardStick[d][2])
           left == [bytes EXCEPT ![4] = x, ![5] = y]
           right == [bytes EXCEPT ![6] = x, ![7] = y]
<1>1. /\ x \in Byte /\ y \in Byte
      /\ AxisX(d) = At(IF isLeft(d) THEN "LX" ELSE "RX", x)
      /\ AxisY(d) = At(IF isLeft(d) THEN "LY" ELSE "RY", y)
  BY StickBytes, Zenon
<1> HIDE DEF x, y
<1>2. left \in [1 .. 7 -> Byte] /\ right \in [1 .. 7 -> Byte]
  BY <1>1, Zenon
<1>3. /\ left[1] = bytes[1] /\ left[2] = bytes[2] /\ left[3] = bytes[3] /\ left[4] = x
      /\ left[5] = y /\ left[6] = bytes[6] /\ left[7] = bytes[7]
  BY <1>1
<1>4. /\ right[1] = bytes[1] /\ right[2] = bytes[2] /\ right[3] = bytes[3] /\ right[4] = bytes[4]
      /\ right[5] = bytes[5] /\ right[6] = x /\ right[7] = y
  BY <1>1
<1> HIDE DEF left, right
<1>5. PadOf(left) = Overlay(Overlay(At("LX", x), At("LY", y)), PadOf(bytes))
  <2>1. PadOf(left)["LX"] = x /\ PadOf(left)["LY"] = y /\ "LX" \in Slots /\ "LY" \in Slots \ {"LX"}
    BY <1>3, PadSlotsOf, Parts, Zenon
  <2>2. /\ PadOf(left)["HAT"] = PadOf(bytes)["HAT"]
        /\ PadOf(left)["RX"] = PadOf(bytes)["RX"] /\ PadOf(left)["RY"] = PadOf(bytes)["RY"]
        /\ \A b \in LowButtons : PadOf(left)[b] = PadOf(bytes)[b]
        /\ \A b \in HighButtons : PadOf(left)[b] = PadOf(bytes)[b]
    BY <1>3, SameParts
  <2>3. \A t \in Slots \ {"LX", "LY"} : PadOf(left)[t] = PadOf(bytes)[t]
    BY <2>2, Parts, Zenon
  <2> QED
    BY <2>1, <2>3, TwoSlots
<1>6. PadOf(right) = Overlay(Overlay(At("RX", x), At("RY", y)), PadOf(bytes))
  <2>1. PadOf(right)["RX"] = x /\ PadOf(right)["RY"] = y /\ "RX" \in Slots /\ "RY" \in Slots \ {"RX"}
    BY <1>4, PadSlotsOf, Parts, Zenon
  <2>2. /\ PadOf(right)["HAT"] = PadOf(bytes)["HAT"]
        /\ PadOf(right)["LX"] = PadOf(bytes)["LX"] /\ PadOf(right)["LY"] = PadOf(bytes)["LY"]
        /\ \A b \in LowButtons : PadOf(right)[b] = PadOf(bytes)[b]
        /\ \A b \in HighButtons : PadOf(right)[b] = PadOf(bytes)[b]
    BY <1>4, SameParts
  <2>3. \A t \in Slots \ {"RX", "RY"} : PadOf(right)[t] = PadOf(bytes)[t]
    BY <2>2, Parts, Zenon
  <2> QED
    BY <2>1, <2>3, TwoSlots, SMTT(30)
<1>7. CASE isLeft(d)
  BY <1>1, <1>2, <1>5, <1>7, Zenon DEF left, x, y
<1>8. CASE ~isLeft(d)
  BY <1>1, <1>2, <1>6, <1>8, Zenon DEF right, x, y
<1> QED
  BY <1>7, <1>8, Zenon

-----------------------------------------------------------------------------
(* The framing: where the packets are in what the adapter has not used.    *)

(* The groups of the eight bytes from position p on. *)
Window(s, p) == [j \in 1 .. 8 |-> IF j = 8 THEN s[p + 7] - 128 ELSE s[p + (j - 1)]]

(* Only the eighth of them is marked, and they are a report. *)
IsPacket(s, p) ==
    /\ p + 7 <= Len(s)
    /\ \A j \in 0 .. 6 : s[p + j] < 128
    /\ s[p + 7] >= 128
    /\ Unpacked(Window(s, p)) \in [1 .. 7 -> Byte]

(* Packets begin at r[1], ..., r[m], one after the other; they are the reports
   f[1], ..., f[m]; what is outside of them is marked. *)
FramesAt(r, s, f, m) ==
    /\ \A i \in 1 .. m : IsPacket(s, r[i]) /\ PadOf(Unpacked(Window(s, r[i]))) = f[i]
    /\ \A i, j \in 1 .. m : i < j => r[i] + 8 <= r[j]
    /\ \A p \in 1 .. Len(s) :
          s[p] >= 128 \/ \E i \in 1 .. m : r[i] <= p /\ p < r[i] + 8

Framed(s, f, m) == \E r \in [1 .. m -> Nat \ {0}] : FramesAt(r, s, f, m)

(* The eight bytes of u from o on are those of s from p on. *)
SameBytes(u, o, s, p) == \A j \in 0 .. 7 : u[o + j] = s[p + j]

(* A window depends on its eight bytes only. *)
LEMMA SameWindow ==
    ASSUME NEW s, NEW u, NEW p \in Nat, NEW o \in Nat,
           SameBytes(u, o, s, p), IsPacket(s, p), o + 7 <= Len(u)
    PROVE  IsPacket(u, o) /\ Window(u, o) = Window(s, p)
<1>1. Window(u, o) = Window(s, p)
  <2>1. \A j \in 1 .. 7 : j - 1 \in 0 .. 7
    OBVIOUS
  <2>2. \A j \in 1 .. 7 : u[o + (j - 1)] = s[p + (j - 1)]
    BY <2>1, Zenon DEF SameBytes
  <2>3. u[o + 7] = s[p + 7]
    BY DEF SameBytes
  <2>4. \A j \in 1 .. 8 : j = 8 \/ j \in 1 .. 7
    OBVIOUS
  <2> QED
    BY <2>2, <2>3, <2>4, Zenon DEF Window
<1>2. \A j \in 0 .. 6 : j \in 0 .. 7
  OBVIOUS
<1>3. u[o + 7] = s[p + 7] /\ \A j \in 0 .. 6 : u[o + j] = s[p + j]
  BY <1>2 DEF SameBytes
<1> QED
  BY <1>1, <1>3, Zenon DEF IsPacket

(* Two sequences of bytes, one after the other. *)
LEMMA Joined ==
    ASSUME NEW s \in Seq(Byte), NEW t \in Seq(Byte)
    PROVE  /\ s \o t \in Seq(Byte) /\ Len(s \o t) = Len(s) + Len(t) /\ Len(s) \in Nat
           /\ \A p \in 1 .. Len(s) + Len(t) :
                 (s \o t)[p] = IF p <= Len(s) THEN s[p] ELSE t[p - Len(s)]
OBVIOUS

(* Joining is associative. *)
LEMMA JoinedThree ==
    ASSUME NEW s \in Seq(Byte), NEW t \in Seq(Byte), NEW u \in Seq(Byte)
    PROVE  s \o (t \o u) = (s \o t) \o u
BY ConcatAssociative, SMTT(30)

(* Unmarked bytes are bytes. *)
LEMMA SmallBytes == ASSUME NEW b \in Seq(0 .. 127) PROVE b \in Seq(Byte)
<1>1. 0 .. 127 \subseteq Byte
  BY DEF Byte
<1> QED
  BY <1>1, SeqMonotonic, Zenon

(* Where the bytes of a packet in the first part of a joined sequence are. *)
LEMMA JoinedPlace ==
    ASSUME NEW a \in Nat, NEW b \in Nat, NEW p \in Nat \ {0}, NEW j \in 0 .. 7
    PROVE  p + 7 <= a => p + j \in 1 .. (a + b) /\ p + j <= a
OBVIOUS

(* A packet is still there with bytes after it, or before it. *)
LEMMA JoinedWindow ==
    ASSUME NEW s \in Seq(Byte), NEW t \in Seq(Byte), NEW p \in Nat \ {0}
    PROVE  /\ IsPacket(s, p) => /\ IsPacket(s \o t, p)
                               /\ Window(s \o t, p) = Window(s, p)
           /\ IsPacket(t, p) => /\ IsPacket(s \o t, Len(s) + p)
                               /\ Window(s \o t, Len(s) + p) = Window(t, p)
<1> DEFINE u == s \o t
<1>1. /\ Len(u) = Len(s) + Len(t) /\ Len(s) \in Nat /\ Len(t) \in Nat
      /\ \A i \in 1 .. Len(u) : u[i] = IF i <= Len(s) THEN s[i] ELSE t[i - Len(s)]
  OBVIOUS
<1> HIDE DEF u
<1>2. ASSUME IsPacket(s, p) PROVE IsPacket(u, p) /\ Window(u, p) = Window(s, p)
  <2>1. p + 7 <= Len(s)
    BY <1>2, Zenon DEF IsPacket
  <2>2. ASSUME NEW j \in 0 .. 7 PROVE u[p + j] = s[p + j]
    <3>1. p + j \in 1 .. Len(u) /\ p + j <= Len(s)
      BY <1>1, <2>1, JoinedPlace, Zenon
    <3> QED
      BY <1>1, <3>1, Zenon
  <2>3. SameBytes(u, p, s, p) /\ p + 7 <= Len(u)
    BY <1>1, <2>1, <2>2 DEF SameBytes
  <2> QED
    BY <1>2, <2>3, SameWindow
<1>3. ASSUME IsPacket(t, p) PROVE IsPacket(u, Len(s) + p) /\ Window(u, Len(s) + p) = Window(t, p)
  <2>1. p + 7 <= Len(t)
    BY <1>3, Zenon DEF IsPacket
  <2>2. ASSUME NEW j \in 0 .. 7 PROVE u[(Len(s) + p) + j] = t[p + j]
    <3>1. /\ (Len(s) + p) + j \in 1 .. Len(u) /\ ~((Len(s) + p) + j <= Len(s))
          /\ ((Len(s) + p) + j) - Len(s) = p + j
      <4>1. /\ (Len(s) + p) + j \in 1 .. (Len(s) + Len(t)) /\ ~((Len(s) + p) + j <= Len(s))
            /\ ((Len(s) + p) + j) - Len(s) = p + j
        <5>1. Len(s) \in Nat /\ Len(t) \in Nat
          BY <1>1, Zenon
        <5> QED
          BY <5>1, <2>1
      <4> QED
        BY <1>1, <4>1, Zenon
    <3> QED
      BY <1>1, <3>1, Zenon
  <2>3. SameBytes(u, Len(s) + p, t, p) /\ (Len(s) + p) + 7 <= Len(u) /\ Len(s) + p \in Nat
    BY <1>1, <2>1, <2>2 DEF SameBytes
  <2> QED
    BY <1>3, <2>3, SameWindow
<1> QED
  BY <1>2, <1>3, Zenon DEF u

(* Bytes that are all marked can follow (the two of checkConnection). *)
LEMMA FramedGrows ==
    ASSUME NEW s \in Seq(Byte), NEW t \in Seq(Byte), NEW f, NEW m \in Nat,
           NEW r \in [1 .. m -> Nat \ {0}], FramesAt(r, s, f, m),
           \A j \in 1 .. Len(t) : t[j] >= 128
    PROVE  FramesAt(r, s \o t, f, m)
<1> DEFINE u == s \o t
<1>1. /\ u \in Seq(Byte) /\ Len(u) = Len(s) + Len(t) /\ Len(s) \in Nat /\ Len(t) \in Nat
      /\ \A p \in 1 .. Len(u) : u[p] = IF p <= Len(s) THEN s[p] ELSE t[p - Len(s)]
  OBVIOUS
<1>2. ASSUME NEW i \in 1 .. m
      PROVE  IsPacket(u, r[i]) /\ Window(u, r[i]) = Window(s, r[i])
  <2>1. IsPacket(s, r[i]) /\ r[i] \in Nat \ {0}
    BY Zenon DEF FramesAt
  <2> QED
    BY <2>1, JoinedWindow, Zenon
<1> HIDE DEF u
<1>3. ASSUME NEW p \in 1 .. Len(u)
      PROVE  u[p] >= 128 \/ \E i \in 1 .. m : r[i] <= p /\ p < r[i] + 8
  <2>1. CASE p <= Len(s)
    <3>1. u[p] = s[p] /\ p \in 1 .. Len(s)
      BY <1>1, <2>1
    <3> QED
      BY <3>1, Zenon DEF FramesAt
  <2>2. CASE ~(p <= Len(s))
    <3>1. u[p] = t[p - Len(s)] /\ p - Len(s) \in 1 .. Len(t)
      BY <1>1, <2>2
    <3> QED
      BY <3>1, Zenon
  <2> QED
    BY <2>1, <2>2, Zenon
<1>4. \A i \in 1 .. m : IsPacket(u, r[i]) /\ PadOf(Unpacked(Window(u, r[i]))) = f[i]
  BY <1>2, Zenon DEF FramesAt
<1>5. \A i, j \in 1 .. m : i < j => r[i] + 8 <= r[j]
  BY Zenon DEF FramesAt
<1>6. FramesAt(r, u, f, m)
  BY <1>3, <1>4, <1>5, Zenon DEF FramesAt
<1> QED
  BY <1>6, Zenon DEF u

(* One more packet can follow. *)
LEMMA FramedPacket ==
    ASSUME NEW s \in Seq(Byte), NEW w \in Seq(Byte), NEW f, NEW m \in Nat,
           NEW r \in [1 .. m -> Nat \ {0}], FramesAt(r, s, f, m),
           Len(w) = 8, IsPacket(w, 1), f[m + 1] = PadOf(Unpacked(Window(w, 1)))
    PROVE  Framed(s \o w, f, m + 1)
<1> DEFINE u == s \o w
           o == Len(s) + 1
           q == [i \in 1 .. m + 1 |-> IF i = m + 1 THEN o ELSE r[i]]
<1>1. /\ u \in Seq(Byte) /\ Len(u) = Len(s) + 8 /\ Len(s) \in Nat
      /\ \A p \in 1 .. Len(s) : u[p] = s[p]
  <2>1. /\ u \in Seq(Byte) /\ Len(u) = Len(s) + Len(w) /\ Len(s) \in Nat
        /\ \A p \in 1 .. Len(s) + Len(w) : u[p] = IF p <= Len(s) THEN s[p] ELSE w[p - Len(s)]
    BY Joined, Zenon
  <2> HIDE DEF u
  <2>2. \A p \in 1 .. Len(s) : p \in 1 .. Len(s) + Len(w) /\ p <= Len(s)
    BY <2>1
  <2>3. \A p \in 1 .. Len(s) : u[p] = s[p]
    BY <2>1, <2>2, Zenon
  <2> QED
    BY <2>1, <2>3, Zenon
<1>2. IsPacket(u, o) /\ Window(u, o) = Window(w, 1)
  BY JoinedWindow
<1>3. ASSUME NEW i \in 1 .. m
      PROVE  /\ IsPacket(u, r[i]) /\ Window(u, r[i]) = Window(s, r[i])
             /\ r[i] + 8 <= o /\ r[i] \in Nat
  <2>1. IsPacket(s, r[i]) /\ r[i] \in Nat \ {0}
    BY Zenon DEF FramesAt
  <2>2. r[i] + 7 <= Len(s)
    BY <2>1, Zenon DEF IsPacket
  <2>3. r[i] + 8 <= o
    BY <1>1, <2>1, <2>2
  <2> QED
    BY <2>1, <2>3, JoinedWindow, Zenon
<1>4. /\ q \in [1 .. m + 1 -> Nat \ {0}] /\ q[m + 1] = o
      /\ \A i \in 1 .. m : q[i] = r[i] /\ i \in 1 .. m + 1
  BY <1>1
<1>5. \A i \in 1 .. m + 1 : i = m + 1 \/ i \in 1 .. m
  OBVIOUS
<1> HIDE DEF u, q
<1>6. ASSUME NEW i \in 1 .. m + 1
      PROVE  IsPacket(u, q[i]) /\ PadOf(Unpacked(Window(u, q[i]))) = f[i]
  <2>1. CASE i = m + 1
    BY <1>2, <1>4, <2>1, Zenon
  <2>2. CASE i \in 1 .. m
    BY <1>3, <1>4, <2>2, Zenon DEF FramesAt
  <2> QED
    BY <1>5, <2>1, <2>2, Zenon
<1>7. ASSUME NEW i \in 1 .. m + 1, NEW j \in 1 .. m + 1, i < j PROVE q[i] + 8 <= q[j]
  <2>1. i \in 1 .. m
    BY <1>7
  <2>2. CASE j = m + 1
    BY <1>3, <1>4, <2>1, <2>2, Zenon
  <2>3. CASE j \in 1 .. m
    <3>1. r[i] + 8 <= r[j]
      BY <1>7, <2>1, <2>3, Zenon DEF FramesAt
    <3> QED
      BY <1>4, <2>1, <2>3, <3>1, Zenon
  <2> QED
    BY <1>5, <2>2, <2>3, Zenon
<1>8. ASSUME NEW p \in 1 .. Len(u)
      PROVE  u[p] >= 128 \/ \E i \in 1 .. m + 1 : q[i] <= p /\ p < q[i] + 8
  <2>1. CASE p <= Len(s)
    <3>1. u[p] = s[p] /\ p \in 1 .. Len(s)
      BY <1>1, <2>1
    <3>2. s[p] >= 128 \/ \E i \in 1 .. m : r[i] <= p /\ p < r[i] + 8
      BY <3>1, Zenon DEF FramesAt
    <3> QED
      BY <1>4, <3>1, <3>2, Zenon
  <2>2. CASE ~(p <= Len(s))
    <3>1. o <= p /\ p < o + 8
      BY <1>1, <2>2
    <3>2. m + 1 \in 1 .. m + 1
      OBVIOUS
    <3> QED
      BY <1>4, <3>1, <3>2, Zenon
  <2> QED
    BY <2>1, <2>2, Zenon
<1>9. FramesAt(q, u, f, m + 1)
  BY <1>6, <1>7, <1>8, Zenon DEF FramesAt
<1>10. Framed(u, f, m + 1)
  BY <1>4, <1>9, Zenon DEF Framed
<1> QED
  BY <1>10, Zenon DEF u

(* u is s without its first d bytes. *)
Without(u, s, d) == \A p \in 1 .. Len(u) : u[p] = s[p + d]

(* A window that has moved d bytes to the front. *)
LEMMA ShiftedBytes ==
    ASSUME NEW s, NEW u, Len(u) \in Nat, NEW d \in Nat, NEW a \in Nat \ {0}, NEW b \in Nat,
           a + d = b, a + 7 <= Len(u), Without(u, s, d)
    PROVE  SameBytes(u, a, s, b)
<1>1. ASSUME NEW j \in 0 .. 7 PROVE u[a + j] = s[b + j]
  <2>1. a + j \in 1 .. Len(u) /\ (a + j) + d = b + j
    OBVIOUS
  <2>2. u[a + j] = s[(a + j) + d]
    BY <2>1, Zenon DEF Without
  <2> QED
    BY <2>1, <2>2, Zenon
<1> QED
  BY <1>1, Zenon DEF SameBytes

(* It ends before the shorter stream does. *)
LEMMA ShiftedEnd ==
    ASSUME NEW k1 \in Nat, NEW k2 \in Nat, NEW d \in Nat, NEW a \in Nat \ {0}, NEW b \in Nat,
           k2 = k1 - d, a + d = b, b + 7 <= k1
    PROVE  a \in Nat /\ a + 7 <= k2
OBVIOUS

(* Taking the first d bytes away, and with them the first e packets. *)
LEMMA FramedDrops ==
    ASSUME NEW s \in Seq(Byte), NEW u \in Seq(Byte), NEW d \in Nat, NEW e \in Nat,
           Len(u) = Len(s) - d, Without(u, s, d),
           NEW m \in Nat, e <= m, NEW f, NEW g, \A i \in 1 .. m - e : g[i] = f[i + e],
           NEW r \in [1 .. m -> Nat \ {0}], FramesAt(r, s, f, m),
           \A i \in 1 .. m : IF i <= e THEN r[i] + 8 <= d + 1 ELSE r[i] > d
    PROVE  Framed(u, g, m - e)
<1> DEFINE rest == m - e
           q == [i \in 1 .. rest |-> r[i + e] - d]
<1>1. rest \in Nat /\ \A i \in 1 .. rest : i + e \in 1 .. m /\ ~(i + e <= e)
  OBVIOUS
<1>2. \A i \in 1 .. rest : r[i + e] \in Nat /\ r[i + e] > d /\ q[i] = r[i + e] - d /\ q[i] + d = r[i + e]
  BY <1>1
<1>3. q \in [1 .. rest -> Nat \ {0}]
  BY <1>1, <1>2
<1> HIDE DEF rest, q
<1>4. ASSUME NEW i \in 1 .. rest
      PROVE  IsPacket(u, q[i]) /\ Window(u, q[i]) = Window(s, r[i + e])
  <2>1. IsPacket(s, r[i + e]) /\ r[i + e] + 7 <= Len(s) /\ q[i] \in Nat \ {0}
    BY <1>1, <1>3, Zenon DEF FramesAt, IsPacket
  <2>2. Len(u) \in Nat /\ Len(s) \in Nat
    OBVIOUS
  <2>3. r[i + e] \in Nat /\ q[i] + d = r[i + e]
    BY <1>2, Zenon
  <2>4. q[i] \in Nat /\ q[i] + 7 <= Len(u)
    BY <2>1, <2>2, <2>3, ShiftedEnd, Zenon
  <2>5. SameBytes(u, q[i], s, r[i + e])
    BY <2>1, <2>2, <2>3, <2>4, ShiftedBytes, Zenon
  <2> QED
    BY <2>1, <2>3, <2>4, <2>5, SameWindow, SMTT(30)
<1>5. \A i \in 1 .. rest : IsPacket(u, q[i]) /\ PadOf(Unpacked(Window(u, q[i]))) = g[i]
  BY <1>1, <1>4, Zenon DEF FramesAt, rest
<1>6. ASSUME NEW i \in 1 .. rest, NEW j \in 1 .. rest, i < j PROVE q[i] + 8 <= q[j]
  <2>1. i + e < j + e
    BY <1>1, <1>6
  <2>2. r[i + e] + 8 <= r[j + e]
    BY <1>1, <2>1, Zenon DEF FramesAt
  <2>3. \A a, b, x, y \in Nat : a + d = x /\ b + d = y /\ x + 8 <= y => a + 8 <= b
    OBVIOUS
  <2>4. q[i] \in Nat /\ q[j] \in Nat
    BY <1>3, Zenon
  <2> QED
    BY <1>2, <2>2, <2>3, <2>4, Zenon
<1>7. ASSUME NEW p \in 1 .. Len(u)
      PROVE  u[p] >= 128 \/ \E i \in 1 .. rest : q[i] <= p /\ p < q[i] + 8
  <2>1. p + d \in 1 .. Len(s) /\ u[p] = s[p + d] /\ p \in Nat
    BY DEF Without
  <2>2. CASE s[p + d] >= 128
    BY <2>1, <2>2, Zenon
  <2>3. ASSUME NEW i \in 1 .. m, r[i] <= p + d, p + d < r[i] + 8
        PROVE  \E k0 \in 1 .. rest : q[k0] <= p /\ p < q[k0] + 8
    <3>1. r[i] \in Nat
      BY Zenon
    <3>2. ~(i <= e)
      BY <2>1, <2>3, <3>1
    <3>3. i - e \in 1 .. rest /\ (i - e) + e = i
      BY <3>2 DEF rest
    <3>4. q[i - e] + d = r[i] /\ q[i - e] \in Nat
      BY <1>2, <1>3, <3>3, Zenon
    <3>5. \A a, x \in Nat : a + d = x /\ x <= p + d /\ p + d < x + 8 => a <= p /\ p < a + 8
      BY <2>1
    <3>6. q[i - e] <= p /\ p < q[i - e] + 8
      BY <2>3, <3>1, <3>4, <3>5, Zenon
    <3> QED
      BY <3>3, <3>6, Zenon
  <2> QED
    BY <2>1, <2>2, <2>3, Zenon DEF FramesAt
<1>8. FramesAt(q, u, g, rest)
  BY <1>5, <1>6, <1>7, Zenon DEF FramesAt
<1> QED
  BY <1>3, <1>8, Zenon DEF Framed, rest

(* A byte is a number; an unmarked one has seven bits. *)
LEMMA ByteRange == \A x \in Byte : x \in Int /\ (x < 128 => x \in 0 .. 127)
BY DEF Byte

(* Only the reports of the packets matter. *)
LEMMA FramedSame ==
    ASSUME NEW s, NEW f, NEW g, NEW m, \A i \in 1 .. m : g[i] = f[i], Framed(s, f, m)
    PROVE  Framed(s, g, m)
<1>1. PICK r \in [1 .. m -> Nat \ {0}] : FramesAt(r, s, f, m)
  BY Zenon DEF Framed
<1>2. \A i \in 1 .. m : IsPacket(s, r[i]) /\ PadOf(Unpacked(Window(s, r[i]))) = g[i]
  BY <1>1, Zenon DEF FramesAt
<1>3. FramesAt(r, s, g, m)
  BY <1>1, <1>2, Zenon DEF FramesAt
<1> QED
  BY <1>3, Zenon DEF Framed

(* What convert returns is a packet. *)
LEMMA PackedFrame ==
    ASSUME NEW c \in [1 .. 7 -> Byte]
    PROVE  /\ Packed(c) \in Seq(Byte) /\ Len(Packed(c)) = 8
           /\ IsPacket(Packed(c), 1) /\ Unpacked(Window(Packed(c), 1)) = c
<1> DEFINE w == Packed(c)
           g == Window(w, 1)
<1>1. \A j \in 1 .. 8 : Group(c, j) \in 0 .. 127
  BY GroupRange, Zenon
<1>2. w \in [1 .. 8 -> Byte]
  <2>1. ASSUME NEW x \in 0 .. 127 PROVE x \in Byte /\ x + 128 \in Byte
    BY DEF Byte
  <2>2. \A j \in 1 .. 8 :
           (IF j = 8 THEN Group(c, j) + 128 ELSE Group(c, j)) \in Byte
    BY <1>1, <2>1, Zenon
  <2> QED
    BY <2>2, Zenon DEF Packed
<1> HIDE DEF w
<1>3. w \in Seq(Byte) /\ Len(w) = 8
  <2>1. w \in Seq(Byte)
    <3>1. 8 \in Nat /\ w \in [1 .. 8 -> Byte]
      BY <1>2, Zenon
    <3>2. \E z \in Nat : w \in [1 .. z -> Byte]
      BY <3>1, Zenon
    <3> QED
      BY <3>2, SeqDef, Zenon
  <2>2. DOMAIN w = 1 .. 8 /\ DOMAIN w = 1 .. Len(w) /\ Len(w) \in Nat
    BY <1>2, <2>1, LenProperties, Zenon
  <2> QED
    BY <2>1, <2>2
<1>4. \A j \in 1 .. 7 : 1 + (j - 1) = j
  OBVIOUS
<1>5. \A j \in 1 .. 8 : w[j] \in Int
  <2>1. Byte \subseteq Int
    BY DEF Byte
  <2> QED
    BY <1>2, <2>1, Zenon
<1>6. g \in [1 .. 8 -> Int] /\ g[8] = w[8] - 128 /\ \A j \in 1 .. 7 : g[j] = w[j]
  BY <1>4, <1>5 DEF Window
<1> HIDE DEF g
<1>7. (\A j \in 1 .. 7 : w[j] \in 0 .. 127) /\ w[8] \in 128 .. 255 /\ Unpacked(g) = c
  <2>1. /\ \A j \in 1 .. 7 : g[j] = Packed(c)[j]
        /\ g[8] = Packed(c)[8] - 128
    BY <1>6, Zenon DEF w
  <2>2. /\ \A j \in 1 .. 7 : Packed(c)[j] \in 0 .. 127
        /\ Packed(c)[8] \in 128 .. 255 /\ Unpacked(g) = c
    BY <1>6, <2>1, PackedFacts, Zenon
  <2> QED
    BY <2>2, Zenon DEF w
<1>8. \A j \in 0 .. 6 : 1 + j \in 1 .. 7
  OBVIOUS
<1>9. (\A j \in 0 .. 6 : w[1 + j] < 128) /\ w[1 + 7] >= 128
  BY <1>7, <1>8, SMTT(30)
<1>10. IsPacket(w, 1)
  BY <1>3, <1>7, <1>9 DEF IsPacket, g
<1> QED
  BY <1>3, <1>7, <1>10, Zenon DEF g, w

(* A packet that begins at the first byte is the first packet; what is
   unmarked at the first byte begins one. *)
LEMMA FirstPacket ==
    ASSUME NEW s \in Seq(Byte), Len(s) > 0, NEW f, NEW m \in Nat,
           NEW r \in [1 .. m -> Nat \ {0}], FramesAt(r, s, f, m)
    PROVE  /\ s[1] < 128 => m > 0 /\ r[1] = 1
           /\ s[1] >= 128 => \A i \in 1 .. m : r[i] > 1
<1>0. 1 \in 1 .. Len(s) /\ s[1] \in Int
  <2>1. Len(s) \in Nat
    OBVIOUS
  <2>2. 1 \in 1 .. Len(s)
    BY <2>1
  <2>3. s[1] \in Byte
    BY <2>2, ElementOfSeq, Zenon
  <2> QED
    BY <2>2, <2>3, ByteRange, Zenon
<1>1. ASSUME s[1] < 128 PROVE m > 0 /\ r[1] = 1
  <2>1. ~(s[1] >= 128)
    BY <1>0, <1>1
  <2>2. PICK i \in 1 .. m : r[i] <= 1 /\ 1 < r[i] + 8
    BY <1>0, <2>1, Zenon DEF FramesAt
  <2>3. r[i] = 1
    BY <2>2
  <2>4. ~(1 < i)
    <3>1. 1 < i => r[1] + 8 <= r[i]
      BY <2>2 DEF FramesAt
    <3>2. 1 < i => r[1] \in Nat
      BY <2>2
    <3> QED
      BY <2>3, <3>1, <3>2
  <2>5. i = 1 /\ m > 0
    BY <2>2, <2>4
  <2> QED
    BY <2>3, <2>5, Zenon
<1>2. ASSUME s[1] >= 128, NEW i \in 1 .. m PROVE r[i] > 1
  <2>1. \A j \in 0 .. 6 : s[r[i] + j] < 128
    BY Zenon DEF FramesAt, IsPacket
  <2>2. r[i] \in Nat \ {0}
    BY Zenon
  <2>3. s[r[i] + 0] < 128 /\ r[i] + 0 = r[i]
    BY <2>1, <2>2
  <2>4. r[i] # 1
    BY <1>0, <1>2, <2>3
  <2>5. \A x \in Nat \ {0} : x # 1 => x > 1
    OBVIOUS
  <2> QED
    BY <2>2, <2>4, <2>5, Zenon
<1> QED
  BY <1>1, <1>2, Zenon

(* What the adapter has kept and what is on the line, and the bytes of both. *)
LEMMA StreamFacts ==
    ASSUME NEW b \in Seq(0 .. 127), NEW l \in Seq(Byte), l # <<>>
    PROVE  /\ b \o l \in Seq(Byte) /\ Len(b) \in Nat /\ Len(l) \in Nat \ {0}
           /\ Len(b \o l) = Len(b) + Len(l)
           /\ \A p \in 1 .. Len(b) : (b \o l)[p] = b[p] /\ b[p] \in 0 .. 127
           /\ (b \o l)[Len(b) + 1] = Head(l) /\ Head(l) \in Byte
           /\ Tail(l) \in Seq(Byte) /\ Len(Tail(l)) = Len(l) - 1
           /\ \A p \in 1 .. Len(l) - 1 : Tail(l)[p] = (b \o l)[p + (Len(b) + 1)]
<1>1. b \in Seq(Byte)
  BY SmallBytes, Zenon
<1>2. Len(l) \in Nat \ {0} /\ Len(b) \in Nat
  BY EmptySeq, LenProperties, Zenon
<1>3. /\ b \o l \in Seq(Byte) /\ Len(b \o l) = Len(b) + Len(l)
      /\ \A p \in 1 .. Len(b) + Len(l) : (b \o l)[p] = IF p <= Len(b) THEN b[p] ELSE l[p - Len(b)]
  BY <1>1, Joined, Zenon
<1>4. Head(l) = l[1] /\ 1 \in 1 .. Len(l)
  BY <1>2
<1>5. Head(l) \in Byte
  BY <1>4, ElementOfSeq, Zenon
<1>6. Tail(l) \in Seq(Byte) /\ Len(Tail(l)) = Len(l) - 1 /\ \A p \in 1 .. Len(l) - 1 : Tail(l)[p] = l[p + 1]
  BY HeadTailProperties, Zenon
<1>7. ASSUME NEW p \in 1 .. Len(b) PROVE (b \o l)[p] = b[p] /\ b[p] \in 0 .. 127
  <2>1. p \in 1 .. Len(b) + Len(l) /\ p <= Len(b)
    BY <1>2
  <2>2. b[p] \in 0 .. 127
    BY ElementOfSeq, Zenon
  <2> QED
    BY <1>3, <2>1, <2>2, Zenon
<1>8. (b \o l)[Len(b) + 1] = l[1]
  <2>1. Len(b) + 1 \in 1 .. Len(b) + Len(l) /\ ~(Len(b) + 1 <= Len(b)) /\ (Len(b) + 1) - Len(b) = 1
    BY <1>2
  <2> QED
    BY <1>3, <2>1, Zenon
<1>9. ASSUME NEW p \in 1 .. Len(l) - 1 PROVE Tail(l)[p] = (b \o l)[p + (Len(b) + 1)]
  <2>1. /\ p + (Len(b) + 1) \in 1 .. Len(b) + Len(l) /\ ~(p + (Len(b) + 1) <= Len(b))
        /\ (p + (Len(b) + 1)) - Len(b) = p + 1
    BY <1>2
  <2>2. (b \o l)[p + (Len(b) + 1)] = l[p + 1]
    BY <1>3, <2>1, Zenon
  <2> QED
    BY <1>6, <2>2, Zenon
<1> QED
  BY <1>2, <1>3, <1>4, <1>5, <1>6, <1>7, <1>8, <1>9, Zenon

(* An unmarked byte only moves from the line into the adapter. *)
LEMMA StreamMoves ==
    ASSUME NEW b \in Seq(0 .. 127), NEW l \in Seq(Byte), l # <<>>, Head(l) < 128
    PROVE  /\ Append(b, Head(l)) \in Seq(0 .. 127) /\ Len(Append(b, Head(l))) = Len(b) + 1
           /\ Append(b, Head(l)) \o Tail(l) = b \o l
<1> DEFINE h == Head(l)
           c == Append(b, h)
           u == c \o Tail(l)
           s == b \o l
<1>1. h \in 0 .. 127
  <2>1. Head(l) \in Byte
    BY StreamFacts, Zenon
  <2> QED
    BY <2>1, ByteRange, Zenon
<1> HIDE DEF h
<1>2. c \in Seq(0 .. 127) /\ Len(c) = Len(b) + 1 /\ Len(b) \in Nat
      /\ c[Len(b) + 1] = h /\ \A p \in 1 .. Len(b) : c[p] = b[p]
  BY <1>1, AppendProperties
<1> HIDE DEF c
<1>3. c \in Seq(Byte)
  BY <1>2, SmallBytes, Zenon
<1>4. Tail(l) \in Seq(Byte) /\ Len(Tail(l)) = Len(l) - 1 /\ Len(l) \in Nat \ {0}
  BY StreamFacts, Zenon
<1>5. /\ u \in Seq(Byte) /\ Len(u) = Len(c) + Len(Tail(l))
      /\ \A p \in 1 .. Len(c) + Len(Tail(l)) : u[p] = IF p <= Len(c) THEN c[p] ELSE Tail(l)[p - Len(c)]
  BY <1>3, <1>4, Joined, Zenon
<1>6. /\ s \in Seq(Byte) /\ Len(s) = Len(b) + Len(l) /\ s[Len(b) + 1] = h
      /\ \A p \in 1 .. Len(b) : s[p] = b[p]
      /\ \A p \in 1 .. Len(l) - 1 : Tail(l)[p] = s[p + (Len(b) + 1)]
  BY StreamFacts DEF h
<1> HIDE DEF u, s
<1>7. Len(u) = Len(s)
  BY <1>2, <1>4, <1>5, <1>6
<1>8. ASSUME NEW p \in 1 .. Len(s) PROVE u[p] = s[p]
  <2>1. p \in 1 .. Len(c) + Len(Tail(l))
    BY <1>5, <1>7, Zenon
  <2>2. CASE p <= Len(b)
    <3>1. p \in 1 .. Len(b) /\ p <= Len(c)
      BY <1>2, <2>2
    <3> QED
      BY <1>2, <1>5, <1>6, <2>1, <3>1, Zenon
  <2>3. CASE p = Len(b) + 1
    BY <1>2, <1>5, <1>6, <2>1, <2>3
  <2>4. CASE p > Len(b) + 1
    <3>1. /\ ~(p <= Len(c)) /\ p - Len(c) \in 1 .. Len(l) - 1
          /\ (p - Len(c)) + (Len(b) + 1) = p
      BY <1>2, <1>4, <2>1, <2>4
    <3>2. u[p] = Tail(l)[p - Len(c)]
      BY <1>5, <2>1, <3>1, Zenon
    <3> QED
      BY <1>6, <3>1, <3>2, Zenon
  <2> QED
    BY <1>2, <2>2, <2>3, <2>4
<1>9. u = s
  BY <1>5, <1>6, <1>7, <1>8, SeqEqual, Zenon
<1> QED
  BY <1>2, <1>9, Zenon DEF c, h, u, s

(* A number after a sequence of numbers. *)
LEMMA OneMore ==
    ASSUME NEW b \in Seq(Int), NEW h \in Int
    PROVE  /\ Append(b, h) \in Seq(Int) /\ Len(Append(b, h)) = Len(b) + 1
           /\ Append(b, h)[Len(b) + 1] = h /\ \A p \in 1 .. Len(b) : Append(b, h)[p] = b[p]
BY AppendProperties

(* The adapter unpacks what is in the window at the front. *)
LEMMA FrontWindow ==
    ASSUME NEW b \in Seq(0 .. 127), Len(b) = 7, NEW l \in Seq(Byte), l # <<>>
    PROVE  Window(b \o l, 1) = Append(b, Head(l) - 128)
<1> DEFINE s == b \o l
           h == Head(l) - 128
<1>1. h \in Int
  <2>1. Head(l) \in Byte
    BY StreamFacts, Zenon
  <2> QED
    BY <2>1, ByteRange
<1>2. (\A p \in 1 .. 7 : s[p] = b[p]) /\ s[8] = Head(l)
  <2>1. (\A p \in 1 .. Len(b) : s[p] = b[p]) /\ s[Len(b) + 1] = Head(l)
    BY StreamFacts, ZenonT(60)
  <2> HIDE DEF s
  <2>2. Len(b) + 1 = 8
    OBVIOUS
  <2> QED
    BY <2>1, <2>2, Zenon
<1> HIDE DEF h
<1> DEFINE w == Window(s, 1)
           a == Append(b, h)
<1>3. w = [j \in 1 .. 8 |-> IF j = 8 THEN s[1 + 7] - 128 ELSE s[1 + (j - 1)]]
  BY Zenon DEF Window
<1>4. a \in Seq(Int) /\ Len(a) = 8 /\ a[8] = h /\ \A p \in 1 .. 7 : a[p] = b[p]
  <2>1. 0 .. 127 \subseteq Int
    OBVIOUS
  <2>2. b \in Seq(Int)
    BY <2>1, SeqMonotonic, Zenon
  <2>3. a \in Seq(Int) /\ Len(a) = Len(b) + 1 /\ a[Len(b) + 1] = h
        /\ \A p \in 1 .. Len(b) : a[p] = b[p]
    BY <1>1, <2>2, OneMore, Zenon
  <2> HIDE DEF a
  <2> QED
    BY <2>3
<1>5. a \in [1 .. 8 -> Int]
  BY <1>4, LenProperties, Zenon
<1> HIDE DEF s, w, a
<1>6. \A j \in 1 .. 7 : 1 + (j - 1) = j /\ j # 8
  OBVIOUS
<1>7. \A j \in 1 .. 7 : w[j] = a[j]
  BY <1>2, <1>3, <1>4, <1>6
<1>8. w[8] = a[8]
  <2>1. w[8] = s[8] - 128
    BY <1>3
  <2> QED
    BY <1>2, <1>4, <2>1, Zenon DEF h
<1>9. \A j \in 1 .. 8 : j \in 1 .. 7 \/ j = 8
  OBVIOUS
<1>10. w = a
  BY <1>3, <1>5, <1>7, <1>8, <1>9, ZenonT(60)
<1> QED
  BY <1>10, Zenon DEF w, a, s, h

(* Seven bits are less than a mark. *)
LEMMA SmallBound == \A x \in 0 .. 127 : x < 128
OBVIOUS

(* What the adapter meets: an unmarked byte is not the eighth of a packet; a
   marked one ends the first packet, or it is no part of one. *)
Meets(b, l, f, m) ==
    /\ Head(l) < 128 => Len(b) < 7
    /\ Head(l) >= 128 /\ Len(b) # 7 => Framed(Tail(l), f, m)
    /\ Head(l) >= 128 /\ Len(b) = 7 =>
          /\ m > 0 /\ PadOf(Unpacked(Append(b, Head(l) - 128))) = f[1]
          /\ Unpacked(Append(b, Head(l) - 128)) \in [1 .. 7 -> Byte]
          /\ \A g : (\A i \in 1 .. m - 1 : g[i] = f[i + 1]) => Framed(Tail(l), g, m - 1)

(* That is what it meets in a stream of packets. *)
LEMMA ReceiveFrames ==
    ASSUME NEW b \in Seq(0 .. 127), Len(b) < 8, NEW l \in Seq(Byte), l # <<>>,
           NEW f, NEW m \in Nat, Framed(b \o l, f, m)
    PROVE  Meets(b, l, f, m)
<1> DEFINE s == b \o l
           h == Head(l)
           u == Tail(l)
           d == Len(b) + 1
<1>1. /\ s \in Seq(Byte) /\ Len(b) \in Nat /\ Len(l) \in Nat \ {0} /\ Len(s) = Len(b) + Len(l)
      /\ \A p \in 1 .. Len(b) : s[p] = b[p] /\ b[p] \in 0 .. 127
      /\ s[d] = h /\ h \in Byte
  BY StreamFacts, ZenonT(60)
<1>2. u \in Seq(Byte) /\ Len(u) = Len(s) - d /\ Without(u, s, d)
  <2>1. u \in Seq(Byte) /\ Len(u) = Len(l) - 1 /\ \A p \in 1 .. Len(l) - 1 : u[p] = s[p + (Len(b) + 1)]
    BY StreamFacts, Zenon
  <2> HIDE DEF s, u
  <2>2. Len(u) = Len(s) - d
    BY <1>1, <2>1
  <2> QED
    BY <2>1, <2>2, Zenon DEF Without
<1>3. PICK r \in [1 .. m -> Nat \ {0}] : FramesAt(r, s, f, m)
  BY Zenon DEF Framed
<1>4. Len(s) > 0 /\ h \in Int
  BY <1>1, ByteRange
<1> HIDE DEF s, h, u
<1>5. (s[1] < 128 => m > 0 /\ r[1] = 1) /\ (s[1] >= 128 => \A i \in 1 .. m : r[i] > 1)
  BY <1>1, <1>3, <1>4, FirstPacket, Zenon
<1>6. ASSUME m > 0, r[1] = 1
      PROVE  /\ IsPacket(s, 1) /\ PadOf(Unpacked(Window(s, 1))) = f[1]
             /\ s[8] >= 128 /\ \A p \in 1 .. 7 : s[p] < 128
  <2>1. 1 \in 1 .. m
    BY <1>6
  <2>2. IsPacket(s, 1) /\ PadOf(Unpacked(Window(s, 1))) = f[1]
    BY <1>3, <1>6, <2>1, Zenon DEF FramesAt
  <2>3. s[1 + 7] >= 128 /\ \A j \in 0 .. 6 : s[1 + j] < 128
    BY <2>2, Zenon DEF IsPacket
  <2>4. \A p \in 1 .. 7 : p - 1 \in 0 .. 6 /\ 1 + (p - 1) = p
    OBVIOUS
  <2>5. \A p \in 1 .. 7 : s[p] < 128
    BY <2>3, <2>4, Zenon
  <2> QED
    BY <2>2, <2>3, <2>5
<1>7. s[1] < 128 \/ (Len(b) = 0 /\ s[1] = h)
  <2>1. CASE Len(b) = 0
    BY <1>1, <2>1
  <2>2. CASE Len(b) # 0
    <3>1. 1 \in 1 .. Len(b)
      BY <1>1, <2>2
    <3>2. s[1] \in 0 .. 127
      BY <1>1, <3>1, Zenon
    <3>3. s[1] < 128
      BY <3>2, SmallBound, Zenon
    <3> QED
      BY <3>3, Zenon
  <2> QED
    BY <2>1, <2>2, Zenon
<1>8. ASSUME h < 128 PROVE Len(b) < 7
  <2>1. s[1] < 128
    BY <1>7, <1>8, Zenon
  <2>2. s[8] >= 128
    BY <1>5, <1>6, <2>1, Zenon
  <2>3. Len(b) + 1 # 8
    BY <1>1, <1>4, <1>8, <2>2
  <2> QED
    BY <1>1, <2>3
<1>9. ASSUME h >= 128, Len(b) # 7 PROVE Framed(u, f, m)
  <2>1. Len(b) = 0
    <3>1. ASSUME s[1] < 128 PROVE FALSE
      <4>1. \A p \in 1 .. 7 : s[p] < 128
        BY <1>5, <1>6, <3>1, Zenon
      <4>2. Len(b) + 1 \in 1 .. 7
        <5>1. \A x \in Nat : x < 8 /\ x # 7 => x + 1 \in 1 .. 7
          OBVIOUS
        <5>2. Len(b) \in Nat
          BY <1>1, Zenon
        <5> QED
          BY <1>9, <5>1, <5>2, Zenon
      <4>3. h < 128
        BY <1>1, <4>1, <4>2, Zenon
      <4> QED
        BY <1>4, <1>9, <4>3
    <3> QED
      BY <1>7, <3>1, Zenon
  <2>2. s[1] = h /\ d = 1
    BY <1>1, <2>1
  <2>3. \A i \in 1 .. m : r[i] > d
    BY <1>5, <1>9, <2>2, Zenon
  <2>4. \A i \in 1 .. m : ~(i <= 0) /\ i + 0 = i
    OBVIOUS
  <2>5. m - 0 = m /\ 0 \in Nat /\ 0 <= m /\ d \in Nat
    BY <2>2
  <2>6. Framed(u, f, m - 0)
    BY <1>1, <1>2, <1>3, <2>3, <2>4, <2>5, FramedDrops, Zenon
  <2> QED
    BY <2>5, <2>6, Zenon
<1>10. ASSUME h >= 128, Len(b) = 7
       PROVE  /\ m > 0 /\ PadOf(Unpacked(Append(b, h - 128))) = f[1]
              /\ Unpacked(Append(b, h - 128)) \in [1 .. 7 -> Byte]
              /\ \A g : (\A i \in 1 .. m - 1 : g[i] = f[i + 1]) => Framed(u, g, m - 1)
  <2>1. s[1] < 128 /\ d = 8
    BY <1>7, <1>10
  <2>2. m > 0 /\ r[1] = 1 /\ IsPacket(s, 1) /\ PadOf(Unpacked(Window(s, 1))) = f[1]
    BY <1>5, <1>6, <2>1, Zenon
  <2>3. Window(s, 1) = Append(b, h - 128)
    BY <1>10, FrontWindow, Zenon DEF s, h
  <2>4. Unpacked(Window(s, 1)) \in [1 .. 7 -> Byte]
    BY <2>2, Zenon DEF IsPacket
  <2>5. ASSUME NEW g, \A i \in 1 .. m - 1 : g[i] = f[i + 1] PROVE Framed(u, g, m - 1)
    <3>1. ASSUME NEW i \in 1 .. m PROVE IF i <= 1 THEN r[i] + 8 <= d + 1 ELSE r[i] > d
      <4>1. CASE i = 1
        BY <2>1, <2>2, <4>1
      <4>2. CASE i # 1
        <5>1. 1 \in 1 .. m /\ 1 < i /\ ~(i <= 1)
          BY <4>2
        <5>2. r[1] + 8 <= r[i]
          BY <1>3, <5>1, Zenon DEF FramesAt
        <5>3. r[i] \in Nat
          BY Zenon
        <5> QED
          BY <2>1, <2>2, <5>1, <5>2, <5>3
      <4> QED
        BY <4>1, <4>2, Zenon
    <3>2. 1 \in Nat /\ 1 <= m /\ d \in Nat
      BY <2>1, <2>2
    <3> QED
      BY <1>1, <1>2, <1>3, <2>5, <3>1, <3>2, FramedDrops, Zenon
  <2> QED
    BY <2>2, <2>3, <2>4, <2>5, Zenon
<1> QED
  BY <1>8, <1>9, <1>10, Zenon DEF Meets, h, u

-----------------------------------------------------------------------------
(* The link.                                                               *)

(* The theorems about Gamepad, under the mapping of Promised. *)
Pad == INSTANCE GamepadProofs WITH line <- flight, pad <- PadOf(report)

(* What the adapter has not used: the unfinished packet and the line. *)
Stream == inbuf \o line

(* The reports of the stream: the last one may still be inside convert. *)
Sent == IF pc = "idle" THEN Len(flight) ELSE Len(flight) - 1

(* The report inside convert is the last one sent. *)
FlightInv == pc # "idle" => flight # <<>> /\ flight[Len(flight)] = PadOf(command)

(* The protocol remembers what the calls described, and the stream is made
   of the packets of the reports in flight. *)
LinkInv ==
    /\ TypeOK
    /\ Idle \/ LoopInv
    /\ asked = PadOf(currentBytes)
    /\ FlightInv
    /\ Framed(Stream, flight, Sent)

(* The controller of a report has a byte in every slot. *)
LEMMA PadType == ASSUME NEW bytes \in [1 .. 7 -> Byte] PROVE PadOf(bytes) \in [Slots -> Byte]
<1>1. ASSUME NEW x \in Byte, NEW c \in BitValues PROVE Bit(x, c) \in Byte
  <2>1. x \div c \in Int
    BY DEF BitValues, Byte
  <2>2. (x \div c) % 2 \in 0 .. 1
    BY <2>1
  <2>3. 0 .. 1 \subseteq Byte
    BY DEF Byte
  <2> QED
    BY <2>2, <2>3, Zenon DEF Bit
<1>2. \A b \in LowButtons : PadOf(bytes)[b] \in Byte
  BY <1>1, PadSlotsOf, LowCodes
<1>3. \A b \in HighButtons : PadOf(bytes)[b] \in Byte
  BY <1>1, PadSlotsOf, HighCodes
<1>4. \A s \in {"HAT", "LX", "LY", "RX", "RY"} : PadOf(bytes)[s] \in Byte
  BY PadSlotsOf
<1>5. \A s \in Slots : PadOf(bytes)[s] \in Byte
  BY <1>2, <1>3, <1>4, Parts, Zenon
<1> QED
  BY <1>5, PadSlotsOf, Zenon

(* The slots of the pad at rest are all slots. *)
LEMMA WriteSet ==
    /\ RestPad \in [Slots -> Byte] /\ Pad!PadSlots = Slots
    /\ Pad!WritesOf(Byte) = UNION {[D -> Byte] : D \in SUBSET Slots}
<1>1. RestPad \in [Slots -> Byte]
  BY DefaultPad, PadType, Zenon
<1>2. DOMAIN RestPad = Slots
  BY <1>1, Zenon
<1> QED
  BY <1>1, <1>2, Zenon DEF Pad!PadSlots, Pad!WritesOf

(* One slot is a write, and so are two writes sent as one. *)
LEMMA Written ==
    /\ \A s \in Slots, v \in Byte : At(s, v) \in Pad!WritesOf(Byte)
    /\ \A v, w \in Pad!WritesOf(Byte) : Overlay(v, w) \in Pad!WritesOf(Byte)
<1>1. ASSUME NEW s \in Slots, NEW v \in Byte PROVE At(s, v) \in Pad!WritesOf(Byte)
  <2>1. At(s, v) \in [{s} -> Byte] /\ {s} \in SUBSET Slots
    BY Zenon DEF At
  <2> QED
    BY <2>1, WriteSet, Zenon
<1>2. ASSUME NEW v \in Pad!WritesOf(Byte), NEW w \in Pad!WritesOf(Byte)
      PROVE  Overlay(v, w) \in Pad!WritesOf(Byte)
  <2>1. PICK D \in SUBSET Slots : v \in [D -> Byte]
    BY WriteSet, Zenon
  <2>2. PICK E \in SUBSET Slots : w \in [E -> Byte]
    BY WriteSet, Zenon
  <2>3. DOMAIN v = D /\ DOMAIN w = E /\ D \cup E \in SUBSET Slots
    BY <2>1, <2>2, Zenon
  <2>4. Overlay(v, w) \in [D \cup E -> Byte]
    BY <2>1, <2>2, <2>3, Zenon DEF Overlay
  <2> QED
    BY <2>3, <2>4, WriteSet, Zenon
<1> QED
  BY <1>1, <1>2, Zenon

(* The meanings of the calls are writes, so Gamepad's theorems apply. *)
LEMMA LinkControllers == Pad!Controllers(Byte)
<1> DEFINE W == Pad!WritesOf(Byte)
<1>1. ASSUME NEW b \in AllButtons PROVE Held(b) \in W /\ Released(b) \in W
  <2>1. 0 \in Byte /\ 1 \in Byte /\ 8 \in Byte
    BY DEF Byte
  <2>2. CASE isHat(b)
    <3>1. Held(b) = At("HAT", HatPosition[b]) /\ Released(b) = At("HAT", 8)
      BY <2>2, Zenon DEF Held, Released
    <3>2. HatPosition[b] \in Byte /\ "HAT" \in Slots
      BY <2>2, ButtonBytes, Zenon DEF Slots
    <3> QED
      BY <2>1, <3>1, <3>2, Written, Zenon
  <2>3. CASE ~isHat(b)
    <3>1. Held(b) = At(b, 1) /\ Released(b) = At(b, 0)
      BY <2>3, Zenon DEF Held, Released
    <3>2. b \in Slots
      BY <2>3, ButtonBytes, Zenon DEF Slots
    <3> QED
      BY <2>1, <3>1, <3>2, Written, Zenon
  <2> QED
    BY <2>2, <2>3, Zenon
<1>2. ASSUME NEW d \in AllDirections
      PROVE  AxisX(d) \in W /\ AxisY(d) \in W /\ Overlay(AxisX(d), AxisY(d)) \in W
  <2>1. PICK s \in {"LX", "RX"}, v \in Byte : AxisX(d) = At(s, v)
    BY StickBytes, Zenon
  <2>2. PICK t \in {"LY", "RY"}, w \in Byte : AxisY(d) = At(t, w)
    BY StickBytes, Zenon
  <2>3. s \in Slots /\ t \in Slots
    BY Zenon DEF Slots
  <2>4. AxisX(d) \in W /\ AxisY(d) \in W
    BY <2>1, <2>2, <2>3, Written, Zenon
  <2> QED
    BY <2>4, Written, Zenon
<1>3. Buttons \subseteq AllButtons /\ Directions \subseteq AllDirections
  BY ActionsAssumption, Zenon
<1> HIDE DEF W
<1>4. MeaningsOf(Buttons, Directions) \subseteq W
  BY <1>1, <1>2, <1>3, Zenon DEF MeaningsOf
<1> QED
  BY <1>4, WriteSet, Zenon DEF Pad!Controllers, Meanings, W

(* Outside of convert there is no loop. *)
LEMMA NoLoop == LinkInv /\ pc = "idle" => Idle
BY Zenon DEF LinkInv, LoopInv, CountInv

(* How many reports are in the stream. *)
LEMMA SentFacts ==
    ASSUME LinkInv
    PROVE  /\ flight \in Seq([Slots -> Byte]) /\ Len(flight) \in Nat /\ Sent \in Nat
           /\ pc = "idle" => Sent = Len(flight)
           /\ pc # "idle" => Sent + 1 = Len(flight)
<1>1. flight \in Seq([Slots -> Byte]) /\ Len(flight) \in Nat
  BY DEF LinkInv, TypeOK
<1>2. CASE pc = "idle"
  BY <1>1, <1>2, Zenon DEF Sent
<1>3. CASE pc # "idle"
  <2>1. Len(flight) \in Nat \ {0}
    BY <1>1, <1>3, EmptySeq, Zenon DEF LinkInv, FlightInv
  <2> QED
    BY <1>1, <1>3, <2>1 DEF Sent
<1> QED
  BY <1>2, <1>3, Zenon

(* sendCommand: one more report in flight, which convert has begun with. *)
LEMMA SendStep ==
    ASSUME LinkInv, NEW bytes \in [1 .. 7 -> Byte], sendCommand(bytes), UNCHANGED inbuf
    PROVE  /\ flight' = Append(flight, PadOf(bytes)) /\ flight' \in Seq([Slots -> Byte])
           /\ pc' = "loop" /\ line' = line /\ LoopInv' /\ FlightInv'
           /\ Framed(Stream, flight, Sent)'
<1>1. /\ pc = "idle" /\ pc' = "loop" /\ line' = line /\ command' = bytes
      /\ flight' = Append(flight, PadOf(bytes)) /\ Start(bytes)
  BY Zenon DEF sendCommand, Start
<1>2. LoopInv'
  BY <1>1, StartLoop, Zenon
<1>3. PadOf(bytes) \in [Slots -> Byte] /\ flight \in Seq([Slots -> Byte]) /\ Len(flight) \in Nat
      /\ Sent = Len(flight)
  BY <1>1, PadType, SentFacts, Zenon
<1>4. /\ flight' \in Seq([Slots -> Byte]) /\ Len(flight') = Len(flight) + 1 /\ flight' # <<>>
      /\ flight'[Len(flight) + 1] = PadOf(bytes) /\ \A i \in 1 .. Len(flight) : flight'[i] = flight[i]
  BY <1>1, <1>3, AppendProperties
<1>5. FlightInv'
  BY <1>1, <1>4, Zenon DEF FlightInv
<1>6. Sent' = Len(flight)
  BY <1>1, <1>3, <1>4 DEF Sent
<1>7. Stream' = Stream
  BY <1>1, Zenon DEF Stream
<1>8. Framed(Stream, flight, Len(flight))
  BY <1>3, Zenon DEF LinkInv
<1>9. Framed(Stream, flight', Len(flight))
  BY <1>4, <1>8, FramedSame, Zenon
<1> QED
  BY <1>1, <1>2, <1>4, <1>5, <1>6, <1>7, <1>9, Zenon

(* A call: hold, release or set. *)
LEMMA ReportStep ==
    ASSUME LinkInv, NEW m \in Meanings, NEW bytes \in [1 .. 7 -> Byte],
           PadOf(bytes) = Overlay(m, PadOf(currentBytes)), Report(m, bytes)
    PROVE  LinkInv' /\ Promised!Next
<1>1. /\ currentBytes' = bytes /\ asked' = Overlay(m, asked) /\ link' = "following"
      /\ sendCommand(bytes) /\ UNCHANGED <<session, inbuf, report>>
  BY Zenon DEF Report
<1>2. /\ flight' = Append(flight, PadOf(bytes)) /\ flight' \in Seq([Slots -> Byte])
      /\ pc' = "loop" /\ line' = line /\ LoopInv' /\ FlightInv'
      /\ Framed(Stream, flight, Sent)'
  BY <1>1, SendStep, Zenon
<1>3. asked' = PadOf(bytes)
  BY <1>1, Zenon DEF LinkInv
<1>4. asked' \in [Slots -> Byte]
  BY <1>3, PadType, Zenon
<1>5. TypeOK'
  BY <1>1, <1>2, <1>4, Zenon DEF LinkInv, TypeOK
<1>6. LinkInv'
  BY <1>1, <1>2, <1>3, <1>5, Zenon DEF LinkInv
<1>7. Promised!Ask(m)
  <2>1. PadOf(report)' = PadOf(report)
    BY <1>1, Zenon
  <2>2. flight' = Append(flight, asked')
    BY <1>2, <1>3, Zenon
  <2>3. asked' = Promised!Overlay(m, asked)
    BY <1>1, Zenon DEF Overlay, Promised!Overlay
  <2> QED
    BY <1>1, <2>1, <2>2, <2>3, Zenon DEF Promised!Ask
<1> QED
  BY <1>6, <1>7, Zenon DEF Promised!Next

(* hold and release are such calls ... *)
LEMMA ButtonStep ==
    ASSUME LinkInv, NEW b \in Buttons, hold(b) \/ release(b)
    PROVE  LinkInv' /\ Promised!Next
<1>1. b \in AllButtons /\ currentBytes \in [1 .. 7 -> Byte]
  BY ActionsAssumption, Zenon DEF LinkInv, TypeOK
<1>2. Held(b) \in Meanings /\ Released(b) \in Meanings
  BY Zenon DEF Meanings, MeaningsOf
<1>3. CASE hold(b)
  <2>1. PICK bytes \in [1 .. 7 -> Byte] :
            PadOf(bytes) = Overlay(Held(b), PadOf(currentBytes)) /\ Report(Held(b), bytes)
    BY <1>1, <1>3, ButtonReport, ZenonT(60) DEF hold
  <2> QED
    BY <1>2, <2>1, ReportStep, Zenon
<1>4. CASE release(b)
  <2>1. PICK bytes \in [1 .. 7 -> Byte] :
            PadOf(bytes) = Overlay(Released(b), PadOf(currentBytes)) /\ Report(Released(b), bytes)
    BY <1>1, <1>4, ButtonReport, ZenonT(60) DEF release
  <2> QED
    BY <1>2, <2>1, ReportStep, Zenon
<1> QED
  BY <1>3, <1>4, Zenon

(* ... and so is set. *)
LEMMA StickStep ==
    ASSUME LinkInv, NEW d \in Directions, set(d)
    PROVE  LinkInv' /\ Promised!Next
<1>1. d \in AllDirections /\ currentBytes \in [1 .. 7 -> Byte]
  BY ActionsAssumption, Zenon DEF LinkInv, TypeOK
<1> DEFINE m == Overlay(AxisX(d), AxisY(d))
<1>2. m \in Meanings
  BY Zenon DEF Meanings, MeaningsOf
<1>3. PICK bytes \in [1 .. 7 -> Byte] :
          PadOf(bytes) = Overlay(m, PadOf(currentBytes)) /\ Report(m, bytes)
  BY <1>1, StickReport, Zenon DEF set
<1> HIDE DEF m
<1> QED
  BY <1>2, <1>3, ReportStep, Zenon

(* clear() sends a controller at rest and leaves the protocol as it was. *)
LEMMA ClearStep == ASSUME LinkInv, ClearSend PROVE LinkInv' /\ Promised!Next
<1>1. /\ sendCommand(getDefault) /\ session' = "clearing" /\ link' = "cleared"
      /\ UNCHANGED <<currentBytes, inbuf, report, asked>>
  BY Zenon DEF ClearSend
<1>2. getDefault \in [1 .. 7 -> Byte] /\ PadOf(getDefault) = RestPad
  BY DefaultPad, Zenon
<1>3. /\ flight' = Append(flight, RestPad) /\ flight' \in Seq([Slots -> Byte])
      /\ pc' = "loop" /\ line' = line /\ LoopInv' /\ FlightInv'
      /\ Framed(Stream, flight, Sent)'
  BY <1>1, <1>2, SendStep, Zenon
<1>4. TypeOK'
  BY <1>1, <1>3, Zenon DEF LinkInv, TypeOK
<1>5. asked' = PadOf(currentBytes)'
  BY <1>1, Zenon DEF LinkInv
<1>6. LinkInv'
  BY <1>3, <1>4, <1>5, Zenon DEF LinkInv
<1>7. PadOf(report)' = PadOf(report)
  BY <1>1, Zenon
<1>8. Promised!Clear
  BY <1>1, <1>3, <1>7, Zenon DEF Promised!Clear
<1> QED
  BY <1>6, <1>8, Zenon DEF Promised!Next

(* What a step outside of sendCommand keeps when it leaves the loop, the
   flight and the unfinished packet alone. *)
LEMMA OutsideStep ==
    ASSUME LinkInv, Outside, UNCHANGED <<flight, inbuf>>
    PROVE  /\ (Idle \/ LoopInv)' /\ FlightInv' /\ Sent' = Sent
           /\ line' = line => Framed(Stream, flight, Sent)'
<1>1. pc = "idle" /\ UNCHANGED loopVars /\ Idle
  BY NoLoop, Zenon DEF Outside
<1>2. Idle'
  BY <1>1, Zenon DEF Idle, loopVars
<1>3. pc' = "idle"
  BY <1>1, Zenon DEF loopVars
<1>4. FlightInv' /\ Sent' = Sent
  BY <1>1, <1>3, Zenon DEF FlightInv, Sent
<1>5. line' = line => Framed(Stream, flight, Sent)'
  BY <1>4, Zenon DEF LinkInv, Stream
<1> QED
  BY <1>2, <1>4, <1>5, Zenon

(* Connected, ClearClose and Die change nothing that the adapter sees. *)
LEMMA SessionStep ==
    ASSUME LinkInv, Connected \/ ClearClose \/ Die
    PROVE  LinkInv' /\ [Promised!Next]_(Promised!padVars)
<1>1. /\ Outside /\ UNCHANGED <<currentBytes, line, inbuf, report, asked, flight>>
      /\ session' \in {"open", "closed"} /\ (link' = link \/ (link' = "unknown" /\ Die))
  BY Zenon DEF Connected, ClearClose, Die
<1>2. (Idle \/ LoopInv)' /\ FlightInv' /\ Framed(Stream, flight, Sent)'
  BY <1>1, OutsideStep, Zenon
<1>3. pc' = pc
  BY <1>1, Zenon DEF Outside, loopVars
<1>4. TypeOK'
  BY <1>1, <1>3, Zenon DEF LinkInv, TypeOK
<1>5. LinkInv'
  BY <1>1, <1>2, <1>4, Zenon DEF LinkInv
<1>6. CASE link' = link
  BY <1>1, <1>5, <1>6, Zenon DEF Promised!padVars
<1>7. CASE Die
  <2>1. link' = "unknown"
    BY <1>7, Zenon DEF Die
  <2>2. Promised!Die
    BY <1>1, <2>1, Zenon DEF Promised!Die
  <2> QED
    BY <1>5, <2>2, Zenon DEF Promised!Next
<1> QED
  BY <1>1, <1>6, <1>7, Zenon

(* A new protocol object starts from a controller at rest; the two bytes of
   its connection check are no packet. *)
LEMMA OpenStep == ASSUME LinkInv, Open PROVE LinkInv' /\ Promised!Next
<1>1. /\ Outside /\ session' = "checking" /\ currentBytes' = getDefault /\ asked' = RestPad
      /\ line' = line \o <<165, 132>> /\ UNCHANGED <<inbuf, report, flight>>
      /\ link' = IF link = "cleared" \/ (link = "following" /\ asked = RestPad)
                 THEN "following" ELSE "unknown"
  BY Zenon DEF Open
<1>2. (Idle \/ LoopInv)' /\ FlightInv' /\ Sent' = Sent
  BY <1>1, OutsideStep, Zenon
<1> DEFINE t == <<165, 132>>
<1>3. t \in Seq(Byte) /\ Len(t) = 2 /\ t[1] = 165 /\ t[2] = 132
  BY DEF Byte
<1>4. line \in Seq(Byte) /\ inbuf \in Seq(0 .. 127) /\ Sent \in Nat
  BY SentFacts, Zenon DEF LinkInv, TypeOK
<1> HIDE DEF t
<1>5. inbuf \in Seq(Byte)
  BY <1>4, SmallBytes, Zenon
<1>6. line' \in Seq(Byte) /\ Stream \in Seq(Byte) /\ Stream' = Stream \o t
  <2>1. line' = line \o t
    BY <1>1, Zenon DEF t
  <2>2. line' \in Seq(Byte) /\ Stream \in Seq(Byte)
    BY <1>3, <1>4, <1>5, <2>1, Joined, Zenon DEF Stream
  <2>3. inbuf \o (line \o t) = (inbuf \o line) \o t
    BY <1>3, <1>4, <1>5, JoinedThree, Zenon
  <2> QED
    BY <1>1, <2>1, <2>2, <2>3, Zenon DEF Stream
<1>7. \A j \in 1 .. Len(t) : t[j] >= 128
  <2>1. \A j \in 1 .. 2 : j = 1 \/ j = 2
    OBVIOUS
  <2> QED
    BY <1>3, <2>1
<1>8. PICK r \in [1 .. Sent -> Nat \ {0}] : FramesAt(r, Stream, flight, Sent)
  BY Zenon DEF LinkInv, Framed
<1>9. FramesAt(r, Stream \o t, flight, Sent)
  BY <1>3, <1>4, <1>6, <1>7, <1>8, FramedGrows, Zenon
<1>10. Framed(Stream, flight, Sent)'
  BY <1>1, <1>2, <1>6, <1>9, Zenon DEF Framed
<1>11. getDefault \in [1 .. 7 -> Byte] /\ PadOf(getDefault) = RestPad /\ RestPad \in [Slots -> Byte]
  BY DefaultPad, WriteSet, Zenon
<1>12. pc' = pc
  BY <1>1, Zenon DEF Outside, loopVars
<1>13. TypeOK'
  BY <1>1, <1>6, <1>11, <1>12, Zenon DEF LinkInv, TypeOK
<1>14. LinkInv'
  BY <1>1, <1>2, <1>10, <1>11, <1>13, Zenon DEF LinkInv
<1>15. Promised!Open
  BY <1>1, Zenon DEF Promised!Open
<1> QED
  BY <1>14, <1>15, Zenon DEF Promised!Next

(* A turn of convert. *)
LEMMA TurnStep == ASSUME LinkInv, convert PROVE LinkInv' /\ UNCHANGED Promised!padVars
<1>1. Turn /\ UNCHANGED linkVars
  BY Zenon DEF convert
<1>2. (Idle \/ LoopInv)'
  BY <1>1, ConvertStep, Zenon DEF LinkInv
<1>3. pc # "idle" /\ pc' \in {"loop", "done"} /\ command' = command
  BY <1>1, Zenon DEF Turn, Shift, Emit, Mark
<1>4. UNCHANGED <<session, currentBytes, line, inbuf, report, asked, flight, link>>
  BY <1>1, Zenon DEF linkVars
<1>5. FlightInv' /\ Sent' = Sent /\ Stream' = Stream
  BY <1>3, <1>4, Zenon DEF LinkInv, FlightInv, Sent, Stream
<1>6. TypeOK'
  BY <1>3, <1>4, Zenon DEF LinkInv, TypeOK
<1> QED
  BY <1>2, <1>4, <1>5, <1>6, Zenon DEF LinkInv, Promised!padVars

(* The packet of the last report goes onto the line. *)
LEMMA WriteStep == ASSUME LinkInv, Write PROVE LinkInv' /\ UNCHANGED Promised!padVars
<1>1. /\ line' = line \o packet /\ Return /\ pc = "done" /\ pc' = "idle"
      /\ UNCHANGED <<session, currentBytes, inbuf, report, asked, flight, link>>
  BY Zenon DEF Write, Return
<1>2. (Idle \/ LoopInv)'
  BY <1>1, ConvertStep, Zenon DEF LinkInv
<1>3. LoopInv
  BY <1>1, Zenon DEF LinkInv, Idle
<1>4. packet = Packed(command) /\ command \in [1 .. 7 -> Byte]
  BY <1>1, <1>3, Zenon DEF LoopInv, CountInv
<1>5. /\ packet \in Seq(Byte) /\ Len(packet) = 8
      /\ IsPacket(packet, 1) /\ Unpacked(Window(packet, 1)) = command
  BY <1>4, PackedFrame, Zenon
<1>6. line \in Seq(Byte) /\ inbuf \in Seq(0 .. 127)
  BY Zenon DEF LinkInv, TypeOK
<1>7. inbuf \in Seq(Byte)
  BY <1>6, SmallBytes, Zenon
<1>8. line' \in Seq(Byte) /\ Stream \in Seq(Byte) /\ Stream' = Stream \o packet
  <2>1. line' \in Seq(Byte) /\ Stream \in Seq(Byte)
    BY <1>1, <1>5, <1>6, <1>7, Joined, Zenon DEF Stream
  <2>2. inbuf \o (line \o packet) = (inbuf \o line) \o packet
    BY <1>5, <1>6, <1>7, JoinedThree, Zenon
  <2> QED
    BY <1>1, <2>1, <2>2, Zenon DEF Stream
<1>9. Sent \in Nat /\ Sent + 1 = Len(flight) /\ flight[Len(flight)] = PadOf(command)
  BY <1>1, SentFacts, Zenon DEF LinkInv, FlightInv
<1>10. PICK r \in [1 .. Sent -> Nat \ {0}] : FramesAt(r, Stream, flight, Sent)
  BY Zenon DEF LinkInv, Framed
<1>11. flight[Sent + 1] = PadOf(Unpacked(Window(packet, 1)))
  BY <1>5, <1>9, Zenon
<1>12. Framed(Stream \o packet, flight, Sent + 1)
  BY <1>5, <1>8, <1>9, <1>10, <1>11, FramedPacket, Zenon
<1>13. Sent' = Sent + 1
  BY <1>1, <1>9, Zenon DEF Sent
<1>14. Framed(Stream, flight, Sent)'
  BY <1>1, <1>8, <1>12, <1>13, Zenon
<1>15. FlightInv'
  BY <1>1, Zenon DEF FlightInv
<1>16. TypeOK'
  BY <1>1, <1>8, Zenon DEF LinkInv, TypeOK
<1> QED
  BY <1>1, <1>2, <1>14, <1>15, <1>16, Zenon DEF LinkInv, Promised!padVars

(* A whole controller written over another one. *)
LEMMA WholeOverlay ==
    ASSUME NEW w \in [Slots -> Byte], NEW p, DOMAIN p = Slots
    PROVE  Promised!Overlay(w, p) = w
<1>1. DOMAIN w = Slots /\ DOMAIN w \cup DOMAIN p = Slots
  BY Zenon
<1> QED
  BY <1>1, Zenon DEF Promised!Overlay

(* The adapter reads one byte: it keeps it, it has a report, or it skips what
   belongs to no packet. *)
LEMMA ReceiveStep ==
    ASSUME LinkInv, Receive
    PROVE  LinkInv' /\ [Promised!Next]_(Promised!padVars)
<1> DEFINE b == Head(line)
<1>1. /\ Outside /\ line # <<>> /\ line' = Tail(line)
      /\ UNCHANGED <<session, currentBytes, asked, link>>
  BY Zenon DEF Receive
<1>2. /\ line \in Seq(Byte) /\ inbuf \in Seq(0 .. 127) /\ Len(inbuf) < 8
      /\ flight \in Seq([Slots -> Byte]) /\ Len(flight) \in Nat /\ Sent = Len(flight)
  BY <1>1, SentFacts, Zenon DEF LinkInv, TypeOK, Outside
<1>3. pc = "idle" /\ pc' = "idle" /\ Idle'
  <2>1. pc = "idle" /\ UNCHANGED loopVars /\ Idle
    BY <1>1, NoLoop, Zenon DEF Outside
  <2> QED
    BY <2>1, Zenon DEF Idle, loopVars
<1>4. FlightInv' /\ asked' = PadOf(currentBytes)' /\ Sent' = Len(flight')
  BY <1>1, <1>3, Zenon DEF FlightInv, Sent, LinkInv
<1>5. Tail(line) \in Seq(Byte) /\ <<>> \o Tail(line) = Tail(line)
  <2>1. Tail(line) \in Seq(Byte)
    BY <1>1, <1>2, StreamFacts, Zenon
  <2> QED
    BY <2>1, ConcatEmptySeq, Zenon
<1>6. Framed(inbuf \o line, flight, Len(flight))
  BY <1>2, Zenon DEF LinkInv, Stream
<1>7. Meets(inbuf, line, flight, Len(flight))
  <2>1. line \in Seq(Byte) /\ line # <<>>
    BY <1>1, <1>2, Zenon
  <2>2. inbuf \in Seq(0 .. 127) /\ Len(inbuf) < 8 /\ Len(flight) \in Nat
    BY <1>2, Zenon
  <2> QED
    BY <1>6, <2>1, <2>2, ReceiveFrames, Zenon
<1> HIDE DEF b
<1>8. CASE b < 128 /\ inbuf' = Append(inbuf, b) /\ UNCHANGED <<report, flight>>
  <2>1. /\ Append(inbuf, b) \in Seq(0 .. 127) /\ Len(Append(inbuf, b)) = Len(inbuf) + 1
        /\ Append(inbuf, b) \o Tail(line) = inbuf \o line
    BY <1>1, <1>2, <1>8, StreamMoves, Zenon DEF b
  <2>2. Len(inbuf) \in Nat /\ Len(inbuf) < 7
    BY <1>2, <1>7, <1>8 DEF Meets, b
  <2>3. inbuf' \in Seq(0 .. 127) /\ Len(inbuf') < 8
    BY <1>8, <2>1, <2>2
  <2>4. TypeOK'
    BY <1>1, <1>3, <1>5, <1>8, <2>3, Zenon DEF LinkInv, TypeOK
  <2>5. Stream' = inbuf \o line
    BY <1>1, <1>8, <2>1, Zenon DEF Stream
  <2>6. Framed(Stream, flight, Sent)'
    BY <1>4, <1>6, <1>8, <2>5, Zenon
  <2> QED
    BY <1>1, <1>3, <1>4, <1>8, <2>4, <2>6, Zenon DEF LinkInv, Promised!padVars
<1>9. CASE b >= 128 /\ Len(inbuf) # 7 /\ inbuf' = <<>> /\ UNCHANGED <<report, flight>>
  <2>1. inbuf' \in Seq(0 .. 127) /\ Len(inbuf') < 8
    BY <1>9
  <2>2. TypeOK'
    BY <1>1, <1>3, <1>5, <1>9, <2>1, Zenon DEF LinkInv, TypeOK
  <2>3. Stream' = Tail(line)
    BY <1>1, <1>5, <1>9, Zenon DEF Stream
  <2>4. Framed(Stream, flight, Sent)'
    BY <1>4, <1>7, <1>9, <2>3, Zenon DEF Meets, b
  <2> QED
    BY <1>1, <1>3, <1>4, <1>9, <2>2, <2>4, Zenon DEF LinkInv, Promised!padVars
<1>10. CASE /\ b >= 128 /\ Len(inbuf) = 7 /\ inbuf' = <<>>
            /\ report' = Unpacked(Append(inbuf, b - 128)) /\ flight' = Tail(flight)
  <2>1. /\ Len(flight) > 0 /\ PadOf(report') = flight[1] /\ report' \in [1 .. 7 -> Byte]
    BY <1>7, <1>10, Zenon DEF Meets, b
  <2>2. flight # <<>>
    BY <2>1
  <2>3. /\ flight' \in Seq([Slots -> Byte]) /\ Len(flight') = Len(flight) - 1
        /\ \A i \in 1 .. Len(flight) - 1 : flight'[i] = flight[i + 1]
    BY <1>2, <1>10, <2>2, HeadTailProperties, Zenon
  <2>4. Framed(Tail(line), flight', Len(flight) - 1)
    BY <1>7, <1>10, <2>3, Zenon DEF Meets, b
  <2>5. Stream' = Tail(line)
    BY <1>1, <1>5, <1>10, Zenon DEF Stream
  <2>6. Framed(Stream, flight, Sent)'
    BY <1>4, <2>3, <2>4, <2>5, Zenon
  <2>7. inbuf' \in Seq(0 .. 127) /\ Len(inbuf') < 8
    BY <1>10
  <2>8. TypeOK'
    BY <1>1, <1>3, <1>5, <2>1, <2>3, <2>7, Zenon DEF LinkInv, TypeOK
  <2>9. LinkInv'
    BY <1>3, <1>4, <2>6, <2>8, Zenon DEF LinkInv
  <2>10. Promised!Deliver
    <3>1. Head(flight) = flight[1] /\ Head(flight) \in [Slots -> Byte]
      BY <1>2, <2>2, HeadTailProperties
    <3>2. DOMAIN PadOf(report) = Slots
      BY PadSlotsOf, Zenon
    <3>3. PadOf(report)' = Promised!Overlay(Head(flight), PadOf(report))
      BY <2>1, <3>1, <3>2, WholeOverlay, Zenon
    <3> QED
      BY <1>1, <1>10, <2>2, <3>3, Zenon DEF Promised!Deliver
  <2> QED
    BY <2>9, <2>10, Zenon DEF Promised!Next
<1> QED
  BY <1>8, <1>9, <1>10, Zenon DEF Receive, b

(* The program starts with nothing on the line and a pad at rest. *)
LEMMA LinkInitial == Init => LinkInv /\ Promised!Init
<1> SUFFICES ASSUME Init PROVE LinkInv /\ Promised!Init
  BY Zenon
<1>1. /\ session = "closed" /\ currentBytes = getDefault /\ report = getDefault
      /\ line = <<>> /\ inbuf = <<>> /\ asked = RestPad /\ flight = <<>>
      /\ link = "following" /\ Idle /\ pc = "idle"
  BY Zenon DEF Init, Idle
<1>2. /\ getDefault \in [1 .. 7 -> Byte] /\ PadOf(getDefault) = RestPad
      /\ RestPad \in [Slots -> Byte]
  BY DefaultPad, WriteSet, Zenon
<1>3. TypeOK
  BY <1>1, <1>2 DEF TypeOK
<1>4. Stream = <<>> /\ Sent = 0
  BY <1>1 DEF Stream, Sent
<1>5. Framed(<<>>, flight, 0)
  <2> DEFINE r == [i \in 1 .. 0 |-> 1]
  <2>1. r \in [1 .. 0 -> Nat \ {0}]
    OBVIOUS
  <2>2. Len(<<>>) = 0 /\ \A i : i \notin 1 .. 0
    OBVIOUS
  <2> HIDE DEF r
  <2>3. FramesAt(r, <<>>, flight, 0)
    BY <2>2, Zenon DEF FramesAt
  <2> QED
    BY <2>1, <2>3, Zenon DEF Framed
<1>6. LinkInv
  BY <1>1, <1>2, <1>3, <1>4, <1>5, Zenon DEF LinkInv, FlightInv
<1> QED
  BY <1>1, <1>2, <1>6, Zenon DEF Promised!Init

(* Every step keeps LinkInv and is a step, or a stutter, of the promise. *)
LEMMA LinkStep == LinkInv /\ [Next]_vars => LinkInv' /\ [Promised!Next]_(Promised!padVars)
<1>1. ASSUME LinkInv, UNCHANGED vars PROVE LinkInv' /\ UNCHANGED Promised!padVars
  <2>1. UNCHANGED linkVars /\ UNCHANGED loopVars
    BY <1>1, Zenon DEF vars
  <2>2. UNCHANGED <<session, currentBytes, line, inbuf, report, asked, flight, link>>
    BY <2>1, Zenon DEF linkVars
  <2>3. pc' = pc /\ command' = command
    BY <2>1, Zenon DEF loopVars
  <2>4. (Idle \/ LoopInv)'
    BY <1>1, <2>1, ConvertStep, Zenon DEF LinkInv
  <2>5. TypeOK' /\ FlightInv' /\ Sent' = Sent /\ Stream' = Stream
    BY <1>1, <2>2, <2>3, Zenon DEF LinkInv, TypeOK, FlightInv, Sent, Stream
  <2> QED
    BY <1>1, <2>2, <2>4, <2>5, Zenon DEF LinkInv, Promised!padVars
<1>2. ASSUME LinkInv, Next PROVE LinkInv' /\ [Promised!Next]_(Promised!padVars)
  BY <1>2, ButtonStep, StickStep, OpenStep, SessionStep, ClearStep, TurnStep, WriteStep,
     ReceiveStep, Zenon DEF Next
<1> QED
  BY <1>1, <1>2, Zenon

-----------------------------------------------------------------------------
(* LinkInv holds of every behaviour. *)
LEMMA LinkInvariance == Spec => []LinkInv
BY LinkInitial, LinkStep, PTL DEF Spec

(* convert is exact and frames its result whatever the calls have made of the
   report: the eight groups of its seven bytes, only the last one marked. *)
THEOREM PacketTheorem == Spec => []PacketIsExact
<1>1. LinkInv => PacketIsExact
  <2>1. Idle => PacketIsExact
    BY Zenon DEF Idle, PacketIsExact
  <2> QED
    BY <2>1, LoopIsExact, Zenon DEF LinkInv
<1> QED
  BY <1>1, LinkInvariance, PTL

(* The index into packet stays inside the array, the byte cast drops no bit
   and the accumulator of convert never needs more than 14 bits. *)
THEOREM SmallTheorem == Spec => []NStaysSmall
<1>1. LinkInv => NStaysSmall
  <2>1. Idle => NStaysSmall
    BY DEF Idle, NStaysSmall
  <2> QED
    BY <2>1, LoopIsSmall, Zenon DEF LinkInv
<1> QED
  BY <1>1, LinkInvariance, PTL

(* The bit operations on currentBytes, the packing and its framing implement
   the safety part of the promise of Protocol: across clear(), a dead program
   and the bytes of the connection check, for every set of buttons and
   positions and every backlog. *)
THEOREM EasyConRefinement == Spec => Promised!Safe
BY LinkInitial, LinkStep, PTL DEF Spec, Promised!Safe

(* Once every report is unpacked, the console sees exactly what the calls of
   the session described, or a controller at rest after clear(). *)
THEOREM EasyConSettles == Spec => []Promised!SettledPad
<1>1. Pad!Safe => []Pad!SettledPad
  BY LinkControllers, Pad!SettledTheorem, Zenon
<1>2. Promised!Init <=> Pad!Init
  BY Zenon DEF Promised!Init, Pad!Init
<1>3. [Promised!Next]_(Promised!padVars) <=> [Pad!Next]_(Pad!padVars)
  BY Zenon DEF Promised!Next, Promised!Ask, Promised!Clear, Promised!Open, Promised!Die,
         Promised!Deliver, Promised!Overlay, Promised!NoWrite, Promised!padVars,
         Pad!Next, Pad!Ask, Pad!Clear, Pad!Open, Pad!Die, Pad!Deliver, Pad!Overlay,
         Pad!NoWrite, Pad!padVars
<1>4. Promised!SettledPad <=> Pad!SettledPad
  BY Zenon DEF Promised!SettledPad, Pad!SettledPad
<1> QED
  BY <1>1, <1>2, <1>3, <1>4, EasyConRefinement, PTL DEF Promised!Safe, Pad!Safe
=============================================================================
