---------------------------- MODULE MCDetection ----------------------------
(***************************************************************************)
(* Detection for TLC: three pixels in a row, a frame in colour and one with *)
(* a single channel.  Of the areas, the first and the second are apart, the *)
(* first and the third are neighbours, the others overlap.                 *)
(***************************************************************************)
EXTENDS Detection

CONSTANTS p1, p2, p3

MCNear == [p \in Pixels |-> IF p = p2 THEN {p1, p3} ELSE {p2}]
MCAreas == {{p1}, {p3}, {p2, p3}}
MCChannels == <<3, 1>>
MCFilterLists == {<<>>, <<"colour">>, <<"gray">>, <<"blur">>, <<"colour", "blur">>,
                  <<"resize", "gray">>}
=============================================================================
