--------------------------- MODULE GamepadProofs ---------------------------
(***************************************************************************)
(* The promise of output/api/Protocol keeps what it is made for: a line    *)
(* that keeps order brings the pad to what was asked, whatever mixture of  *)
(* partial and whole writes is on it.  The theorem holds for every set of  *)
(* slots and of values; each protocol's proofs instantiate this module     *)
(* with the mapping by which it implements Gamepad.                        *)
(***************************************************************************)
EXTENDS Gamepad, TLAPS

PadSlots == DOMAIN RestPad

(* The writes of values of V to some of the slots. *)
WritesOf(V) == UNION {[D -> V] : D \in SUBSET PadSlots}

(* The constants describe controllers: the pad at rest has a value of V in
   every slot and every meaning is a write. *)
Controllers(V) == RestPad \in [PadSlots -> V] /\ Meanings \subseteq WritesOf(V)

(* Slot s of a controller p will hold v once the writes of l have been
   applied: the last of them that is about s says so, or none is and p has v
   already. *)
Ends(p, l, s, v) ==
    \/ \E i \in 1 .. Len(l) :
          /\ s \in DOMAIN l[i] /\ l[i][s] = v
          /\ \A j \in (i + 1) .. Len(l) : s \notin DOMAIN l[j]
    \/ p[s] = v /\ \A j \in 1 .. Len(l) : s \notin DOMAIN l[j]

Leads(p, l, t) == \A s \in PadSlots : Ends(p, l, s, t[s])

(* The inductive invariant behind SettledPad: what is on the line leads the
   pad to what was asked, or to rest. *)
PadInv(V) ==
    /\ asked \in [PadSlots -> V] /\ pad \in [PadSlots -> V]
    /\ line \in Seq(WritesOf(V))
    /\ link = "following" => Leads(pad, line, asked)
    /\ link = "cleared" => Leads(pad, line, RestPad)

-----------------------------------------------------------------------------
(* A write applied to a controller gives a controller. *)
LEMMA OverlayType ==
  ASSUME NEW V, NEW w \in WritesOf(V), NEW p \in [PadSlots -> V]
  PROVE  /\ DOMAIN w \subseteq PadSlots
         /\ Overlay(w, p) \in [PadSlots -> V]
         /\ \A s \in PadSlots : Overlay(w, p)[s] = IF s \in DOMAIN w THEN w[s] ELSE p[s]
  <1>1. PICK D \in SUBSET PadSlots : w \in [D -> V]
    BY Zenon DEF WritesOf
  <1>2. DOMAIN w = D /\ DOMAIN p = PadSlots /\ DOMAIN w \cup DOMAIN p = PadSlots
    BY <1>1, Zenon
  <1> QED BY <1>1, <1>2, Zenon DEF Overlay

(* A controller is a write, and so is the write of no slot. *)
LEMMA WholeWrites ==
  ASSUME NEW V
  PROVE  [PadSlots -> V] \subseteq WritesOf(V) /\ NoWrite \in WritesOf(V)
  <1>1. NoWrite \in [{} -> V]
    BY Zenon DEF NoWrite
  <1> QED BY <1>1, Zenon DEF WritesOf

(* A write of the whole controller settles every slot. *)
LEMMA WholeLeads ==
  ASSUME NEW V, NEW l \in Seq(WritesOf(V)), NEW t \in [PadSlots -> V], NEW p
  PROVE  Leads(p, Append(l, t), t)
  <1>1. t \in WritesOf(V)
    BY WholeWrites, Zenon
  <1>2. Len(Append(l, t)) = Len(l) + 1 /\ Append(l, t)[Len(l) + 1] = t /\ Len(l) \in Nat
    BY <1>1
  <1> QED BY <1>2 DEF Leads, Ends

(* A partial write settles its slots and leaves the others as the line has
   them. *)
LEMMA PartLeads ==
  ASSUME NEW V, NEW l \in Seq(WritesOf(V)), NEW t \in [PadSlots -> V],
         NEW p, NEW w \in WritesOf(V), Leads(p, l, t)
  PROVE  Leads(p, Append(l, w), Overlay(w, t))
  <1> DEFINE n == Append(l, w)
  <1>1. /\ Len(n) = Len(l) + 1 /\ n[Len(l) + 1] = w /\ Len(l) \in Nat
        /\ \A i \in 1 .. Len(l) : n[i] = l[i]
    OBVIOUS
  <1> HIDE DEF n
  <1>2. ASSUME NEW s \in PadSlots PROVE Ends(p, n, s, Overlay(w, t)[s])
    <2>1. Overlay(w, t)[s] = IF s \in DOMAIN w THEN w[s] ELSE t[s]
      BY OverlayType
    <2>2. CASE s \in DOMAIN w
      BY <1>1, <2>1, <2>2 DEF Ends
    <2>3. CASE s \notin DOMAIN w
      <3>1. Ends(p, l, s, t[s])
        BY Zenon DEF Leads
      <3>2. CASE p[s] = t[s] /\ \A j \in 1 .. Len(l) : s \notin DOMAIN l[j]
        BY <1>1, <2>1, <2>3, <3>2 DEF Ends
      <3>3. ASSUME NEW i \in 1 .. Len(l), s \in DOMAIN l[i], l[i][s] = t[s],
                   \A j \in (i + 1) .. Len(l) : s \notin DOMAIN l[j]
            PROVE  Ends(p, n, s, t[s])
        <4>1. i \in 1 .. Len(n) /\ n[i] = l[i]
          BY <1>1
        <4>2. \A j \in (i + 1) .. Len(n) : s \notin DOMAIN n[j]
          BY <1>1, <2>3, <3>3
        <4> QED BY <3>3, <4>1, <4>2, Zenon DEF Ends
      <3> QED BY <2>1, <2>3, <3>1, <3>2, <3>3, Zenon DEF Ends
    <2> QED BY <2>2, <2>3, Zenon
  <1> QED BY <1>2, Zenon DEF Leads, n

(* Applying the first write of the line changes nothing about where the pad
   is led. *)
LEMMA HeadLeads ==
  ASSUME NEW V, NEW l \in Seq(WritesOf(V)), l # <<>>, NEW t \in [PadSlots -> V],
         NEW p \in [PadSlots -> V], Leads(p, l, t)
  PROVE  Leads(Overlay(Head(l), p), Tail(l), t)
  <1> DEFINE n == Tail(l)
             w == Head(l)
  <1>1. /\ Len(n) = Len(l) - 1 /\ Len(l) \in Nat \ {0} /\ l[1] = w /\ w \in WritesOf(V)
        /\ \A i \in 1 .. Len(n) : n[i] = l[i + 1]
    OBVIOUS
  <1> HIDE DEF n, w
  <1>2. ASSUME NEW s \in PadSlots PROVE Ends(Overlay(w, p), n, s, t[s])
    <2>1. Overlay(w, p)[s] = IF s \in DOMAIN w THEN w[s] ELSE p[s]
      BY <1>1, OverlayType
    <2>2. Ends(p, l, s, t[s])
      BY Zenon DEF Leads
    <2>3. CASE p[s] = t[s] /\ \A j \in 1 .. Len(l) : s \notin DOMAIN l[j]
      BY <1>1, <2>1, <2>3 DEF Ends
    <2>4. ASSUME NEW i \in 1 .. Len(l), s \in DOMAIN l[i], l[i][s] = t[s],
                 \A j \in (i + 1) .. Len(l) : s \notin DOMAIN l[j]
          PROVE  Ends(Overlay(w, p), n, s, t[s])
      <3>1. CASE i = 1
        BY <1>1, <2>1, <2>4, <3>1 DEF Ends
      <3>2. CASE i # 1
        <4>1. i - 1 \in 1 .. Len(n) /\ n[i - 1] = l[i]
          BY <1>1, <3>2
        <4>2. \A j \in ((i - 1) + 1) .. Len(n) : s \notin DOMAIN n[j]
          BY <1>1, <2>4
        <4> QED BY <2>4, <4>1, <4>2, Zenon DEF Ends
      <3> QED BY <3>1, <3>2, Zenon
    <2> QED BY <2>2, <2>3, <2>4, Zenon DEF Ends
  <1> QED BY <1>2, Zenon DEF Leads, n, w

-----------------------------------------------------------------------------
(* PadInv holds at the start ... *)
LEMMA PadInitial ==
  ASSUME NEW V, Controllers(V), Init
  PROVE  PadInv(V)
  BY DEF Init, PadInv, Controllers, Leads, Ends

(* ... and no step of the promise breaks it. *)
LEMMA PadStep ==
  ASSUME NEW V, Controllers(V), PadInv(V), [Next]_padVars
  PROVE  PadInv(V)'
  <1>0. /\ asked \in [PadSlots -> V] /\ pad \in [PadSlots -> V] /\ line \in Seq(WritesOf(V))
        /\ RestPad \in [PadSlots -> V] /\ RestPad \in WritesOf(V)
    BY WholeWrites, Zenon DEF PadInv, Controllers
  <1>1. ASSUME NEW m \in Meanings, Ask(m) PROVE PadInv(V)'
    <2>1. m \in WritesOf(V) /\ asked' \in [PadSlots -> V] /\ asked' \in WritesOf(V)
      BY <1>0, <1>1, OverlayType, WholeWrites, Zenon DEF Ask, Controllers
    <2>2. PICK w \in {m, asked'} :
             (w = m => link = "following" \/ m = asked') /\ line' = Append(line, w)
      BY <1>1, Zenon DEF Ask
    <2>3. Leads(pad, line', asked')
      <3>1. CASE w = asked'
        BY <1>0, <2>1, <2>2, <3>1, WholeLeads, Zenon
      <3>2. CASE w = m /\ link = "following"
        BY <1>0, <1>1, <2>1, <2>2, <3>2, PartLeads, Zenon DEF Ask, PadInv
      <3> QED BY <2>2, <3>1, <3>2, Zenon
    <2>4. line' \in Seq(WritesOf(V))
      BY <1>0, <2>1, <2>2
    <2> QED BY <1>0, <1>1, <2>1, <2>3, <2>4, Zenon DEF PadInv, Ask, Leads, Ends
  <1>2. CASE Clear
    <2>1. PICK l \in {line, Append(line, NoWrite)} : line' = Append(l, RestPad)
      <3>1. CASE line' = Append(line, RestPad)
        BY <3>1, Zenon
      <3>2. CASE line' = line \o <<NoWrite, RestPad>>
        <4>1. line \o <<NoWrite, RestPad>> = Append(Append(line, NoWrite), RestPad)
          BY <1>0, WholeWrites
        <4> QED BY <3>2, <4>1, Zenon
      <3> QED BY <1>2, <3>1, <3>2, Zenon DEF Clear
    <2>2. l \in Seq(WritesOf(V)) /\ line' \in Seq(WritesOf(V))
      <3>1. NoWrite \in WritesOf(V)
        BY WholeWrites, Zenon
      <3>2. Append(line, NoWrite) \in Seq(WritesOf(V))
        BY <1>0, <3>1
      <3>3. l \in Seq(WritesOf(V))
        BY <1>0, <3>2, Zenon
      <3> QED BY <1>0, <2>1, <3>3
    <2>3. Leads(pad, line', RestPad)
      BY <1>0, <2>1, <2>2, WholeLeads, Zenon
    <2>4. /\ asked' \in [PadSlots -> V] /\ pad' = pad
          /\ (link' = "following" /\ asked' = RestPad) \/ link' = "cleared"
      BY <1>0, <1>2, Zenon DEF Clear
    <2>5. Leads(pad', line', RestPad)
      BY <2>3, <2>4, Zenon
    <2> QED BY <1>0, <2>2, <2>4, <2>5, Zenon DEF PadInv, Leads, Ends
  <1>3. CASE Open
    BY <1>0, <1>3, Zenon DEF PadInv, Open, Leads, Ends
  <1>4. CASE Die
    BY <1>0, <1>4, Zenon DEF PadInv, Die
  <1>5. CASE Deliver
    <2>1. /\ line # <<>> /\ Head(line) \in WritesOf(V) /\ line' \in Seq(WritesOf(V))
          /\ pad' = Overlay(Head(line), pad) /\ line' = Tail(line) /\ UNCHANGED <<asked, link>>
      BY <1>0, <1>5 DEF Deliver
    <2>2. pad' \in [PadSlots -> V]
      BY <1>0, <2>1, OverlayType, Zenon
    <2>3. ASSUME NEW t \in [PadSlots -> V], Leads(pad, line, t) PROVE Leads(pad', line', t)
      BY <1>0, <2>1, <2>3, HeadLeads, Zenon
    <2>4. /\ link = "following" => Leads(pad', line', asked)
          /\ link = "cleared" => Leads(pad', line', RestPad)
      BY <1>0, <2>3, Zenon DEF PadInv
    <2> QED BY <1>0, <2>1, <2>2, <2>4, Zenon DEF PadInv, Leads, Ends
  <1>6. CASE UNCHANGED padVars
    BY <1>6, Zenon DEF PadInv, padVars, Leads, Ends
  <1> QED BY <1>1, <1>2, <1>3, <1>4, <1>5, <1>6, Zenon DEF Next

(* With nothing on its way the pad is where the invariant says it is led. *)
LEMMA PadSettles == ASSUME NEW V, Controllers(V), PadInv(V) PROVE SettledPad
  <1> SUFFICES ASSUME line = <<>> PROVE /\ link = "following" => pad = asked
                                        /\ link = "cleared" => pad = RestPad
    BY Zenon DEF SettledPad
  <1>1. ASSUME NEW t \in [PadSlots -> V], Leads(pad, line, t) PROVE pad = t
    <2>1. \A s \in PadSlots : pad[s] = t[s]
      BY <1>1 DEF Leads, Ends
    <2> QED BY <2>1 DEF PadInv
  <1> QED BY <1>1, Zenon DEF PadInv, Controllers

(* Once nothing is on its way, the console sees what the calls described, or a
   controller at rest after clear: for every controller, every set of calls,
   and a line of any length (hold, release, set and clear of Protocol). *)
THEOREM SettledTheorem ==
  ASSUME NEW V, Controllers(V)
  PROVE  Safe => []SettledPad
  <1>1. Init => PadInv(V)
    BY PadInitial, Zenon
  <1>2. PadInv(V) /\ [Next]_padVars => PadInv(V)'
    BY PadStep, Zenon
  <1>3. PadInv(V) => SettledPad
    BY PadSettles, Zenon
  <1> QED BY <1>1, <1>2, <1>3, PTL DEF Safe
=============================================================================
