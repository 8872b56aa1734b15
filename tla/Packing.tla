------------------------------ MODULE Packing ------------------------------
(***************************************************************************)
(* Seven bytes as eight groups of seven bits, most significant first: what *)
(* an EasyCon packet holds, and how an adapter takes it apart.             *)
(***************************************************************************)
EXTENDS Integers

Byte == 0 .. 255

(* Group j is the low j-1 bits of byte j-1 followed by the high 8-j bits of
   byte j.  The powers of two are spelled out. *)
Pow == [j \in 0 .. 8 |-> CASE j = 0 -> 1 [] j = 1 -> 2 [] j = 2 -> 4 [] j = 3 -> 8
                           [] j = 4 -> 16 [] j = 5 -> 32 [] j = 6 -> 64
                           [] j = 7 -> 128 [] j = 8 -> 256]

Group(bytes, j) ==
    (IF j = 1 THEN 0 ELSE (bytes[j - 1] % Pow[j - 1]) * Pow[8 - j])
    + (IF j = 8 THEN 0 ELSE bytes[j] \div Pow[j])

(* The packet: eight groups, the last one marked by its top bit. *)
Packed(bytes) ==
    [j \in 1 .. 8 |-> IF j = 8 THEN Group(bytes, j) + 128 ELSE Group(bytes, j)]

(* The adapter (external): byte j is the low 8-j bits of group j followed by
   the high j bits of group j+1. *)
Unpacked(groups) ==
    [j \in 1 .. 7 |-> (groups[j] % Pow[8 - j]) * Pow[j] + groups[j + 1] \div Pow[7 - j]]
=============================================================================
