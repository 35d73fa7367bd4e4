----------------------------- MODULE MachineProofs -----------------------------
(***************************************************************************)
(* What is proved about the machine around its media: the interrupt lines  *)
(* of cartridges in a multi-pak interface, for any slots and any way of    *)
(* filling them; those of a side of a PIA, for any values its program      *)
(* writes; the interrupts of a CPU, however deeply they nest; the timer of *)
(* an MC-10's, for bytes of any size; the walk over breakpoints, for any   *)
(* breakpoints; and the frames and the timer of a GIME, for any tables     *)
(* that fit.                                                               *)
(***************************************************************************)
EXTENDS Slots, Pia, Cpu, Mc6801, Breakpoints, Gime, FiniteSetTheorems, SequenceTheorems, TLAPS

-----------------------------------------------------------------------------
(* Cartridges *)

(* The machine has what the interface has. *)
Wired(m, l) ==
    /\ l.cx1 = Routed(m) /\ l.IL0 = Routed(m)
    /\ l.nmi = (m.nmi_state # {}) /\ l.halt = (m.halt_state # {})

(* The GIME signals what is enabled, raised and not acknowledged. *)
Signalled(g, l) ==
    /\ (g.irq_state => g.irq_enable) /\ (g.firq_state => g.firq_enable)
    /\ l.IRQ = (g.IEN /\ g.irq_state) /\ l.FIRQ = (g.FEN /\ g.firq_state)

(* The interface has of a slot what the cartridge in it asks for; a DragonDOS cartridge
   never asks for HALT, or its DRQ, which it passes on as FIRQ, would change that too. *)
CartHeard(s, d, m) ==
    /\ s \in m.nmi_state => d.intrq
    /\ d.intrq /\ d.nmi_enable /\ ~d.missed => s \in m.nmi_state
    /\ (s \in m.halt_state) = Stops(d)
    /\ d.intrq => ~d.halt_enable
    /\ m.kind[s] = "dragondos" => (s \in m.firq_state) = d.drq /\ ~d.halt_enable

(* The level that cartridges toggle to next is never the one that the only cartridge
   that does has toggled to last. *)
Alone(m) == Cardinality({s \in Slot : m.kind[s] = "autorun"}) < 2

Alternates(m) ==
    Alone(m) => ~m.still /\ \A s \in Slot : m.kind[s] = "autorun" => m.last[s] = ~m.level

SlotsInv ==
    /\ SlotsOK
    /\ Wired(mpi, lines) /\ Signalled(gime, lines) /\ Alternates(mpi)
    /\ \A s \in Slot : CartHeard(s, disk_cart[s], mpi)

(* Of fewer than two cartridges that start themselves there is but one. *)
LEMMA OnlyOne ==
    ASSUME NEW m \in Mpis, Alone(m),
           NEW s \in Slot, m.kind[s] = "autorun", NEW t \in Slot, m.kind[t] = "autorun"
    PROVE  s = t
  <1> DEFINE autorun == {r \in Slot : m.kind[r] = "autorun"}
  <1>1. IsFiniteSet(autorun) /\ {s, t} \subseteq autorun
    BY SlotsAssumption, FS_Subset
  <1>2. Cardinality({s, t}) <= Cardinality(autorun) /\ Cardinality(autorun) \in Nat
    BY <1>1, FS_Subset, FS_CardinalityType
  <1>3. Cardinality({s, t}) < 2
    BY <1>2, FS_CardinalityType, <1>1, FS_Subset DEF Alone
  <1>4. CASE s # t
    <2>1. Cardinality({s, t}) = 2
      <3>1. IsFiniteSet({s}) /\ Cardinality({s}) = 1
        BY FS_Singleton
      <3>2. Cardinality({s} \union {t}) = Cardinality({s}) + 1
        BY <1>4, <3>1, FS_AddElement
      <3> QED
        BY <3>1, <3>2
    <2> QED
      BY <1>3, <2>1
  <1> QED
    BY <1>4

(* A cartridge's own event, of which the interface changes no more than the slot's NMI
   and HALT. *)
LEMMA CartBecomesHeard ==
    ASSUME SlotsInv, NEW slot \in Slot, NEW d \in DiskCarts, NEW m \in Mpis,
           m.kind = mpi.kind, m.cts_route = mpi.cts_route, m.firq_state = mpi.firq_state,
           m.level = mpi.level, m.last = mpi.last, m.still = mpi.still,
           \A s \in Slot \ {slot} : (s \in m.nmi_state) = (s \in mpi.nmi_state),
           \A s \in Slot \ {slot} : (s \in m.halt_state) = (s \in mpi.halt_state),
           CartHeard(slot, d, m), CartBecomes(slot, d, m)
    PROVE  SlotsInv'
  <1> USE DEF SlotsInv, CartBecomes
  <1>1. SlotsOK'
    BY DEF SlotsOK, Lines
  <1>2. Wired(mpi, lines)'
    BY DEF SlotsOK, Lines, Wired, Routed
  <1>3. Signalled(gime, lines)'
    BY DEF SlotsOK, Lines, Signalled
  <1>4. Alternates(mpi)'
    BY DEF Alternates, Alone
  <1>5. ASSUME NEW s \in Slot PROVE CartHeard(s, disk_cart[s], mpi)'
    <2>1. CASE s = slot
      BY <2>1 DEF SlotsOK
    <2>2. CASE s # slot
      BY <2>2 DEF SlotsOK, CartHeard
    <2> QED
      BY <2>1, <2>2
  <1> QED
    BY <1>1, <1>2, <1>3, <1>4, <1>5

(* A cartridge's FIRQ, once whatever else has been done to the interface. *)
LEMMA FirqHeard ==
    ASSUME SlotsInv, NEW slot \in Slot, NEW level \in BOOLEAN, NEW m \in Mpis,
           m.kind = mpi.kind, m.cts_route = mpi.cts_route, m.firq_state = mpi.firq_state,
           m.nmi_state = mpi.nmi_state, m.halt_state = mpi.halt_state, Alternates(m),
           SignalsFirq(m, slot, level), UNCHANGED gime,
           NEW drq \in BOOLEAN, mpi.kind[slot] = "dragondos" => drq = level,
           disk_cart' = [disk_cart EXCEPT ![slot].drq = drq],
           mpi.kind[slot] # "dragondos" => drq = disk_cart[slot].drq
    PROVE  SlotsInv'
  <1> DEFINE n == [m EXCEPT !.firq_state = With(@, slot, level)]
  <1>1. n \in Mpis /\ mpi' = n
    BY DEF Mpis, SignalsFirq, With
  <1>2. /\ n.kind = mpi.kind /\ n.cts_route = mpi.cts_route
        /\ n.nmi_state = mpi.nmi_state /\ n.halt_state = mpi.halt_state
        /\ n.level = m.level /\ n.last = m.last /\ n.still = m.still
        /\ n.firq_state = With(mpi.firq_state, slot, level)
    BY DEF Mpis
  <1> HIDE DEF n
  <1>3. lines' = Firq(lines, Routed(n)) /\ Routed(n) \in BOOLEAN
    <2>1. lines' = Firq(lines, Routed(n))
      BY <1>1 DEF SignalsFirq
    <2> QED
      BY <2>1 DEF Routed
  <1>4. SlotsOK'
    BY <1>1, <1>3 DEF SlotsInv, SlotsOK, DiskCarts, Firq, Lines
  <1>5. Wired(mpi, lines)'
    BY <1>1, <1>2, <1>3 DEF SlotsInv, SlotsOK, Lines, Firq, Wired, Routed
  <1>6. Signalled(gime, lines)'
    BY <1>3 DEF SlotsInv, SlotsOK, Lines, Firq, Signalled
  <1>7. Alternates(mpi)'
    BY <1>1, <1>2 DEF SlotsInv, Alternates, Alone
  <1>8. ASSUME NEW s \in Slot PROVE CartHeard(s, disk_cart[s], mpi)'
    <2>1. CartHeard(s, disk_cart[s], mpi)
      BY DEF SlotsInv
    <2>2. CASE s = slot
      BY <1>1, <1>2, <2>1, <2>2 DEF SlotsInv, SlotsOK, DiskCarts, CartHeard, Stops, With
    <2>3. CASE s # slot
      BY <1>1, <1>2, <2>1, <2>3 DEF SlotsInv, SlotsOK, DiskCarts, CartHeard, Stops, With
    <2> QED
      BY <2>2, <2>3
  <1> QED
    BY <1>4, <1>5, <1>6, <1>7, <1>8 DEF SlotsInv

LEMMA SelectHeard ==
    ASSUME SlotsInv, NEW slot \in Slot, Select(slot)
    PROVE  SlotsInv'
  <1> DEFINE m == [mpi EXCEPT !.cts_route = slot]
  <1>1. m \in Mpis /\ mpi' = m /\ lines' = Firq(lines, Routed(m))
    <2>1. mpi' = m
      BY DEF Select, Selected
    <2>2. lines' = Firq(lines, Routed(m))
      BY <2>1 DEF Select, Selected
    <2> QED
      BY <2>1, <2>2 DEF SlotsInv, SlotsOK, Mpis
  <1>2. /\ m.kind = mpi.kind /\ m.firq_state = mpi.firq_state
        /\ m.nmi_state = mpi.nmi_state /\ m.halt_state = mpi.halt_state
        /\ m.level = mpi.level /\ m.last = mpi.last /\ m.still = mpi.still
    BY DEF SlotsInv, SlotsOK, Mpis
  <1>3. UNCHANGED <<disk_cart, gime>> /\ Routed(m) \in BOOLEAN
    BY DEF Select, Routed
  <1> HIDE DEF m
  <1>4. SlotsOK'
    BY <1>1, <1>3 DEF SlotsInv, SlotsOK, Lines, Firq
  <1>5. Wired(mpi, lines)'
    BY <1>1, <1>2, <1>3 DEF SlotsInv, SlotsOK, Lines, Firq, Wired, Routed
  <1>6. Signalled(gime, lines)'
    BY <1>1, <1>3 DEF SlotsInv, SlotsOK, Lines, Firq, Signalled
  <1>7. Alternates(mpi)'
    BY <1>1, <1>2 DEF SlotsInv, Alternates, Alone
  <1>8. \A s \in Slot : CartHeard(s, disk_cart[s], mpi)'
    BY <1>1, <1>2, <1>3 DEF SlotsInv, CartHeard
  <1> QED
    BY <1>4, <1>5, <1>6, <1>7, <1>8 DEF SlotsInv

LEMMA ToggleHeard ==
    ASSUME SlotsInv, NEW slot \in Slot, Toggle(slot)
    PROVE  SlotsInv'
  <1> DEFINE m == [mpi EXCEPT !.level = ~@, !.last[slot] = mpi.level,
                              !.still = @ \/ mpi.last[slot] = mpi.level]
  <1>1. mpi \in Mpis /\ mpi.kind[slot] = "autorun"
    BY DEF SlotsInv, SlotsOK, Toggle
  <1>2. /\ m \in Mpis /\ m.kind = mpi.kind /\ m.cts_route = mpi.cts_route
        /\ m.firq_state = mpi.firq_state /\ m.nmi_state = mpi.nmi_state
        /\ m.halt_state = mpi.halt_state /\ m.level = ~mpi.level
        /\ m.last = [mpi.last EXCEPT ![slot] = mpi.level]
        /\ m.still = (mpi.still \/ mpi.last[slot] = mpi.level)
    BY <1>1 DEF Mpis
  <1>3. SignalsFirq(m, slot, mpi.level) /\ UNCHANGED <<disk_cart, gime>>
    BY DEF Toggle
  <1> HIDE DEF m
  <1>4. Alternates(m)
    <2>1. SUFFICES ASSUME Alone(m)
                   PROVE  ~m.still /\ \A s \in Slot : m.kind[s] = "autorun" => m.last[s] = ~m.level
      BY DEF Alternates
    <2>2. Alone(mpi) /\ ~mpi.still /\ mpi.last[slot] = ~mpi.level
      BY <1>1, <1>2, <2>1 DEF SlotsInv, Alternates, Alone
    <2>3. ~m.still
      BY <1>1, <1>2, <2>2 DEF Mpis
    <2>4. ASSUME NEW s \in Slot, m.kind[s] = "autorun" PROVE m.last[s] = ~m.level
      <3>1. s = slot
        BY <1>1, <1>2, <2>2, <2>4, OnlyOne
      <3> QED
        BY <1>1, <1>2, <3>1 DEF Mpis
    <2> QED
      BY <2>3, <2>4
  <1>5. disk_cart' = [disk_cart EXCEPT ![slot].drq = disk_cart[slot].drq]
    BY <1>3 DEF SlotsInv, SlotsOK, DiskCarts
  <1>6. mpi.level \in BOOLEAN /\ disk_cart[slot].drq \in BOOLEAN
    BY DEF SlotsInv, SlotsOK, Mpis, DiskCarts
  <1> QED
    BY <1>1, <1>2, <1>3, <1>4, <1>5, <1>6, FirqHeard

(* What mpi_set_nmi and mpi_set_halt do to the interface, and leave. *)
LEMMA WithLine ==
    ASSUME NEW m \in Mpis, NEW slot \in Slot, NEW level \in BOOLEAN
    PROVE  LET n == WithNmi(m, slot, level)
               h == WithHalt(m, slot, level)
           IN  /\ n \in Mpis /\ h \in Mpis
               /\ n.kind = m.kind /\ n.cts_route = m.cts_route /\ n.firq_state = m.firq_state
               /\ n.level = m.level /\ n.last = m.last /\ n.still = m.still
               /\ h.kind = m.kind /\ h.cts_route = m.cts_route /\ h.firq_state = m.firq_state
               /\ h.level = m.level /\ h.last = m.last /\ h.still = m.still
               /\ n.halt_state = m.halt_state /\ h.nmi_state = m.nmi_state
               /\ n.nmi_state = With(m.nmi_state, slot, level)
               /\ h.halt_state = With(m.halt_state, slot, level)
  BY DEF Mpis, WithNmi, WithHalt, With

(* An RS-DOS cartridge, whatever its controller and its program do. *)
LEMMA RsdosHeard ==
    ASSUME SlotsInv, NEW slot \in Slot, mpi.kind[slot] = "rsdos",
           NEW level \in BOOLEAN, NEW double \in BOOLEAN,
           \/ RsdosDrq(slot, level) \/ RsdosIntrq(slot, level)
           \/ RsdosLatch(slot, double, level)
    PROVE  SlotsInv'
  <1>1. /\ mpi \in Mpis /\ disk_cart[slot] \in DiskCarts
        /\ CartHeard(slot, disk_cart[slot], mpi)
    BY DEF SlotsInv, SlotsOK
  <1>2. CASE RsdosDrq(slot, level)
    <2> DEFINE d == [disk_cart[slot] EXCEPT !.drq = level]
               m == WithHalt(mpi, slot, Stops(d))
    <2>1. CartBecomes(slot, d, m)
      BY <1>2 DEF RsdosDrq
    <2>2. d \in DiskCarts /\ m \in Mpis
      BY <1>1 DEF DiskCarts, Mpis, WithHalt, With
    <2>3. /\ m.kind = mpi.kind /\ m.cts_route = mpi.cts_route
          /\ m.firq_state = mpi.firq_state /\ m.nmi_state = mpi.nmi_state
          /\ m.level = mpi.level /\ m.last = mpi.last /\ m.still = mpi.still
          /\ m.halt_state = With(mpi.halt_state, slot, Stops(d))
      BY <1>1 DEF Mpis, WithHalt
    <2>4. CartHeard(slot, d, m)
      BY <1>1, <2>2, <2>3 DEF CartHeard, DiskCarts, With, Stops
    <2>5. \A s \in Slot \ {slot} : (s \in m.halt_state) = (s \in mpi.halt_state)
      BY <2>3 DEF With
    <2> HIDE DEF d, m
    <2> QED
      BY <2>1, <2>2, <2>3, <2>4, <2>5, CartBecomesHeard
  <1>3. CASE RsdosIntrq(slot, level)
    <2> DEFINE was == disk_cart[slot]
               d == [was EXCEPT !.intrq = level, !.halt_enable = @ /\ ~level]
               k == WithHalt(mpi, slot, FALSE)
    <2>1. d \in DiskCarts /\ d.drq = was.drq /\ d.intrq = level
          /\ d.halt_enable = (was.halt_enable /\ ~level)
          /\ d.nmi_enable = was.nmi_enable /\ d.missed = was.missed
      BY <1>1 DEF DiskCarts
    <2> HIDE DEF d
    <2>2. CASE ~level
      <3> DEFINE m == WithNmi(mpi, slot, FALSE)
      <3>1. CartBecomes(slot, d, m)
        BY <1>3, <2>2 DEF RsdosIntrq, d
      <3> HIDE DEF m
      <3>2. /\ m \in Mpis /\ m.kind = mpi.kind /\ m.cts_route = mpi.cts_route
            /\ m.firq_state = mpi.firq_state
            /\ m.level = mpi.level /\ m.last = mpi.last /\ m.still = mpi.still
            /\ m.nmi_state = mpi.nmi_state \ {slot}
            /\ m.halt_state = mpi.halt_state
        BY ZenonT(30), <1>1, WithLine DEF With, m
      <3>3. CartHeard(slot, d, m)
        BY <1>1, <2>1, <2>2, <3>2 DEF CartHeard, DiskCarts, Stops
      <3> QED
        BY <1>1, <2>1, <3>1, <3>2, <3>3, CartBecomesHeard
    <2>3. CASE level /\ was.nmi_enable
      <3> DEFINE m == WithNmi(k, slot, TRUE)
      <3>1. CartBecomes(slot, d, m)
        BY <1>3, <2>3 DEF RsdosIntrq, d
      <3>2. /\ k \in Mpis /\ k.kind = mpi.kind /\ k.cts_route = mpi.cts_route
            /\ k.firq_state = mpi.firq_state
            /\ k.level = mpi.level /\ k.last = mpi.last /\ k.still = mpi.still
            /\ k.nmi_state = mpi.nmi_state
            /\ k.halt_state = mpi.halt_state \ {slot}
        BY ZenonT(30), <1>1, WithLine DEF With
      <3> HIDE DEF k, m
      <3>3. /\ m \in Mpis /\ m.kind = mpi.kind /\ m.cts_route = mpi.cts_route
            /\ m.firq_state = mpi.firq_state
            /\ m.level = mpi.level /\ m.last = mpi.last /\ m.still = mpi.still
            /\ m.nmi_state = mpi.nmi_state \union {slot}
            /\ m.halt_state = mpi.halt_state \ {slot}
        <4>1. m.nmi_state = With(k.nmi_state, slot, TRUE)
          BY <1>1, <3>2, WithLine DEF m
        <4>2. m.nmi_state = k.nmi_state \union {slot}
          BY <4>1 DEF With
        <4> QED
          BY ZenonT(30), <1>1, <3>2, <4>2, WithLine DEF m
      <3>4. CartHeard(slot, d, m)
        BY <1>1, <2>1, <2>3, <3>3 DEF CartHeard, DiskCarts, Stops
      <3> QED
        BY <1>1, <2>1, <3>1, <3>3, <3>4, CartBecomesHeard
    <2>4. CASE level /\ ~was.nmi_enable
      <3>1. CartBecomes(slot, d, k)
        BY <1>3, <2>4 DEF RsdosIntrq, d
      <3> HIDE DEF k
      <3>2. /\ k \in Mpis /\ k.kind = mpi.kind /\ k.cts_route = mpi.cts_route
            /\ k.firq_state = mpi.firq_state
            /\ k.level = mpi.level /\ k.last = mpi.last /\ k.still = mpi.still
            /\ k.nmi_state = mpi.nmi_state
            /\ k.halt_state = mpi.halt_state \ {slot}
        BY ZenonT(30), <1>1, WithLine DEF With, k
      <3>3. CartHeard(slot, d, k)
        BY <1>1, <2>1, <2>4, <3>2 DEF CartHeard, DiskCarts, Stops
      <3> QED
        BY <1>1, <2>1, <3>1, <3>2, <3>3, CartBecomesHeard
    <2> QED
      BY <2>2, <2>3, <2>4
  <1>4. CASE RsdosLatch(slot, double, level)
    <2> DEFINE was == disk_cart[slot]
               d == [was EXCEPT !.nmi_enable = double, !.halt_enable = level /\ ~was.intrq]
               k == IF double /\ was.intrq THEN WithNmi(mpi, slot, TRUE) ELSE mpi
               m == WithHalt(k, slot, Stops(d))
    <2>1. CartBecomes(slot, d, m)
      BY <1>4 DEF RsdosLatch
    <2>2. d \in DiskCarts /\ d.drq = was.drq /\ d.intrq = was.intrq
          /\ d.halt_enable = (level /\ ~was.intrq)
          /\ d.nmi_enable = double /\ d.missed = was.missed
      BY <1>1 DEF DiskCarts
    <2>3. Stops(d) \in BOOLEAN
      BY DEF Stops
    <2>4. /\ k \in Mpis /\ k.kind = mpi.kind /\ k.cts_route = mpi.cts_route
          /\ k.firq_state = mpi.firq_state /\ k.halt_state = mpi.halt_state
          /\ k.level = mpi.level /\ k.last = mpi.last /\ k.still = mpi.still
          /\ k.nmi_state = IF double /\ was.intrq THEN mpi.nmi_state \union {slot}
                           ELSE mpi.nmi_state
      BY ZenonT(30), <1>1, WithLine DEF With
    <2> HIDE DEF d, k
    <2>5. /\ m \in Mpis /\ m.kind = mpi.kind /\ m.cts_route = mpi.cts_route
          /\ m.firq_state = mpi.firq_state
          /\ m.level = mpi.level /\ m.last = mpi.last /\ m.still = mpi.still
          /\ m.halt_state = With(mpi.halt_state, slot, Stops(d))
          /\ m.nmi_state = k.nmi_state
      BY <2>3, <2>4, WithLine
    <2> HIDE DEF m
    <2>6. CartHeard(slot, d, m)
      BY <1>1, <2>2, <2>4, <2>5 DEF CartHeard, DiskCarts, With, Stops
    <2>7. \A s \in Slot \ {slot} : /\ (s \in m.halt_state) = (s \in mpi.halt_state)
                                   /\ (s \in m.nmi_state) = (s \in mpi.nmi_state)
      BY <2>4, <2>5 DEF With
    <2> QED
      BY <2>1, <2>2, <2>5, <2>6, <2>7, CartBecomesHeard
  <1> QED
    BY <1>2, <1>3, <1>4

(* A DragonDOS cartridge; enabling NMI once INTRQ is up is its missed. *)
LEMMA DragondosHeard ==
    ASSUME SlotsInv, NEW slot \in Slot, mpi.kind[slot] = "dragondos", NEW level \in BOOLEAN,
           \/ DragondosDrq(slot, level) \/ DragondosIntrq(slot, level)
           \/ DragondosLatch(slot, level)
    PROVE  SlotsInv'
  <1>1. /\ mpi \in Mpis /\ disk_cart[slot] \in DiskCarts
        /\ CartHeard(slot, disk_cart[slot], mpi)
    BY DEF SlotsInv, SlotsOK
  <1>2. CASE DragondosDrq(slot, level)
    BY <1>1, <1>2, FirqHeard DEF DragondosDrq, SlotsInv
  <1>3. CASE DragondosIntrq(slot, level)
    <2> DEFINE was == disk_cart[slot]
               d == [was EXCEPT !.intrq = level, !.missed = @ /\ level /\ ~was.nmi_enable]
               m == IF level => was.nmi_enable THEN WithNmi(mpi, slot, level) ELSE mpi
    <2>1. CartBecomes(slot, d, m)
      BY <1>3 DEF DragondosIntrq
    <2>2. d \in DiskCarts /\ d.drq = was.drq /\ d.intrq = level
          /\ d.halt_enable = was.halt_enable /\ d.nmi_enable = was.nmi_enable
          /\ d.missed = (was.missed /\ level /\ ~was.nmi_enable)
      BY <1>1 DEF DiskCarts
    <2>3. /\ m \in Mpis /\ m.kind = mpi.kind /\ m.cts_route = mpi.cts_route
          /\ m.firq_state = mpi.firq_state /\ m.halt_state = mpi.halt_state
          /\ m.level = mpi.level /\ m.last = mpi.last /\ m.still = mpi.still
          /\ m.nmi_state = IF level => was.nmi_enable THEN With(mpi.nmi_state, slot, level)
                           ELSE mpi.nmi_state
      BY <1>1, WithLine
    <2> HIDE DEF d, m
    <2>4. CartHeard(slot, d, m)
      BY <1>1, <2>2, <2>3 DEF CartHeard, DiskCarts, With, Stops
    <2> QED
      BY <2>1, <2>2, <2>3, <2>4, CartBecomesHeard DEF With
  <1>4. CASE DragondosLatch(slot, level)
    <2> DEFINE was == disk_cart[slot]
               d == [was EXCEPT !.nmi_enable = level,
                                !.missed = @ \/ (was.intrq /\ slot \notin mpi.nmi_state)]
    <2>1. CartBecomes(slot, d, mpi)
      BY <1>4 DEF DragondosLatch
    <2>2. d \in DiskCarts /\ d.drq = was.drq /\ d.intrq = was.intrq
          /\ d.halt_enable = was.halt_enable /\ d.nmi_enable = level
          /\ d.missed = (was.missed \/ (was.intrq /\ slot \notin mpi.nmi_state))
      BY <1>1 DEF DiskCarts
    <2> HIDE DEF d
    <2>3. CartHeard(slot, d, mpi)
      BY <1>1, <2>2 DEF CartHeard, DiskCarts, Stops
    <2> QED
      BY <1>1, <2>1, <2>2, <2>3, CartBecomesHeard
  <1> QED
    BY <1>2, <1>3, <1>4

(* The GIME and its registers, which leave the interface alone. *)
LEMMA GimeHeard ==
    ASSUME SlotsInv, gime' \in Gimes, lines' \in Lines, UNCHANGED <<mpi, disk_cart>>,
           lines'.cx1 = lines.cx1, lines'.IL0 = lines.IL0, lines'.nmi = lines.nmi,
           lines'.halt = lines.halt, Signalled(gime', lines')
    PROVE  SlotsInv'
  BY DEF SlotsInv, SlotsOK, Wired, Signalled, Alternates, Alone, CartHeard, Routed

LEMMA LinedSignals ==
    ASSUME NEW l \in Lines, NEW g \in Gimes,
           g.irq_state => g.irq_enable, g.firq_state => g.firq_enable
    PROVE  /\ Lined(l, g) \in Lines /\ Signalled(g, Lined(l, g))
           /\ Lined(l, g).cx1 = l.cx1 /\ Lined(l, g).IL0 = l.IL0
           /\ Lined(l, g).nmi = l.nmi /\ Lined(l, g).halt = l.halt
  BY DEF Lines, Gimes, Lined, Signalled

LEMMA MemCycleHeard == SlotsInv /\ MemCycle => SlotsInv'
  <1> SUFFICES ASSUME SlotsInv, MemCycle PROVE SlotsInv'
    OBVIOUS
  <1>1. gime \in Gimes /\ lines \in Lines /\ Signalled(gime, lines)
    BY DEF SlotsInv, SlotsOK
  <1>2. CASE lines.IL0 /\ ~gime.IL0_state
    <2>1. gime' = [Raised(gime) EXCEPT !.IL0_state = lines.IL0] /\ lines' = Lined(lines, gime')
          /\ UNCHANGED <<mpi, disk_cart>>
      BY <1>2 DEF MemCycle
    <2>2. gime' \in Gimes /\ (gime'.irq_state => gime'.irq_enable)
          /\ (gime'.firq_state => gime'.firq_enable)
      BY ZenonT(30), <1>1, <2>1 DEF Gimes, Lines, Signalled, Raised
    <2> QED
      BY <1>1, <2>1, <2>2, LinedSignals, GimeHeard
  <1>3. CASE ~(lines.IL0 /\ ~gime.IL0_state)
    <2>1. gime' = [gime EXCEPT !.IL0_state = lines.IL0] /\ lines' = lines
      BY <1>3 DEF MemCycle
    <2>2. gime' \in Gimes /\ Signalled(gime', lines)
      BY <1>1, <2>1 DEF Gimes, Lines, Signalled
    <2> QED
      BY <1>1, <2>1, <2>2, GimeHeard DEF MemCycle
  <1> QED
    BY <1>2, <1>3

LEMMA RegistersHeard ==
    ASSUME SlotsInv, NEW ien \in BOOLEAN, NEW fen \in BOOLEAN,
           \/ SetEnables(ien, fen) \/ EnableIrq(ien) \/ EnableFirq(fen)
           \/ AcknowledgeIrq \/ AcknowledgeFirq
    PROVE  SlotsInv'
  <1>1. gime \in Gimes /\ lines \in Lines /\ Signalled(gime, lines)
    BY DEF SlotsInv, SlotsOK
  <1>2. CASE SetEnables(ien, fen)
    <2>1. gime' = [gime EXCEPT !.IEN = ien, !.FEN = fen] /\ lines' = Lined(lines, gime')
          /\ UNCHANGED <<mpi, disk_cart>>
      BY <1>2 DEF SetEnables
    <2>2. gime' \in Gimes /\ (gime'.irq_state => gime'.irq_enable)
          /\ (gime'.firq_state => gime'.firq_enable)
      BY <1>1, <2>1 DEF Gimes, Signalled
    <2> QED
      BY <1>1, <2>1, <2>2, LinedSignals, GimeHeard
  <1>3. CASE EnableIrq(ien)
    <2> DEFINE left == Left(gime.irq_state, gime.irq_enable, ien)
    <2>1. gime' = [gime EXCEPT !.irq_enable = ien, !.irq_state = left]
          /\ lines' = [lines EXCEPT !.IRQ = gime.IEN /\ gime'.irq_state]
          /\ UNCHANGED <<mpi, disk_cart>>
      BY <1>3 DEF EnableIrq
    <2>2. left \in BOOLEAN /\ (left => ien)
      BY <1>1 DEF Left
    <2> HIDE DEF left
    <2>3. gime' \in Gimes /\ lines' \in Lines /\ Signalled(gime', lines')
      BY <1>1, <2>1, <2>2 DEF Gimes, Lines, Signalled
    <2> QED
      BY <1>1, <2>1, <2>3, GimeHeard DEF Lines
  <1>4. CASE EnableFirq(fen)
    <2> DEFINE left == Left(gime.firq_state, gime.firq_enable, fen)
    <2>1. gime' = [gime EXCEPT !.firq_enable = fen, !.firq_state = left]
          /\ lines' = [lines EXCEPT !.FIRQ = gime.FEN /\ gime'.firq_state]
          /\ UNCHANGED <<mpi, disk_cart>>
      BY <1>4 DEF EnableFirq
    <2>2. left \in BOOLEAN /\ (left => fen)
      BY <1>1 DEF Left
    <2> HIDE DEF left
    <2>3. gime' \in Gimes /\ lines' \in Lines /\ Signalled(gime', lines')
      BY <1>1, <2>1, <2>2 DEF Gimes, Lines, Signalled
    <2> QED
      BY <1>1, <2>1, <2>3, GimeHeard DEF Lines
  <1>5. CASE AcknowledgeIrq
    <2>1. gime' \in Gimes /\ lines' \in Lines /\ Signalled(gime', lines')
      BY <1>1, <1>5 DEF AcknowledgeIrq, Gimes, Lines, Signalled
    <2> QED
      BY <1>1, <1>5, <2>1, GimeHeard DEF AcknowledgeIrq, Lines
  <1>6. CASE AcknowledgeFirq
    <2>1. gime' \in Gimes /\ lines' \in Lines /\ Signalled(gime', lines')
      BY <1>1, <1>6 DEF AcknowledgeFirq, Gimes, Lines, Signalled
    <2> QED
      BY <1>1, <1>6, <2>1, GimeHeard DEF AcknowledgeFirq, Lines
  <1> QED
    BY <1>2, <1>3, <1>4, <1>5, <1>6

LEMMA NoCartHeard ==
    ASSUME NEW m, m.firq_state = {}, m.nmi_state = {}, m.halt_state = {}, NEW s \in Slot
    PROVE  CartHeard(s, NoDiskCart, m)
  <1>1. /\ ~NoDiskCart.intrq /\ ~NoDiskCart.halt_enable
        /\ ~NoDiskCart.nmi_enable /\ NoDiskCart.drq = FALSE
    BY DEF NoDiskCart
  <1>2. Stops(NoDiskCart) = FALSE
    BY <1>1 DEF Stops
  <1>3. /\ (s \in m.firq_state) = FALSE /\ s \notin m.nmi_state
        /\ (s \in m.halt_state) = FALSE
    OBVIOUS
  <1> QED
    BY <1>1, <1>2, <1>3 DEF CartHeard

LEMMA ResetHeard == SlotsInv /\ ResetMpi => SlotsInv'
  <1> SUFFICES ASSUME SlotsInv, ResetMpi PROVE SlotsInv'
    OBVIOUS
  <1>1. /\ mpi \in Mpis /\ gime \in Gimes /\ lines \in Lines /\ Alternates(mpi)
    BY DEF SlotsInv, SlotsOK
  <1>2. /\ mpi' = [mpi EXCEPT !.firq_state = {}, !.nmi_state = {}, !.halt_state = {},
                              !.cts_route = Initial]
        /\ disk_cart' = [s \in Slot |-> NoDiskCart]
        /\ gime' = [NoGime EXCEPT !.IL0_state = gime.IL0_state]
        /\ lines' = [Lined(Firq(lines, FALSE), NoGime) EXCEPT !.nmi = FALSE, !.halt = FALSE]
    BY DEF ResetMpi
  <1>3. /\ mpi' \in Mpis /\ mpi'.kind = mpi.kind /\ mpi'.level = mpi.level
        /\ mpi'.last = mpi.last /\ mpi'.still = mpi.still /\ mpi'.firq_state = {}
        /\ mpi'.nmi_state = {} /\ mpi'.halt_state = {}
    BY <1>1, <1>2, SlotsAssumption DEF Mpis
  <1>4. /\ gime' \in Gimes /\ gime'.irq_state = FALSE /\ gime'.firq_state = FALSE
        /\ gime'.IEN = FALSE /\ gime'.FEN = FALSE
    BY <1>1, <1>2 DEF NoGime, Gimes
  <1>5. /\ lines' \in Lines /\ lines'.cx1 = FALSE /\ lines'.IL0 = FALSE /\ lines'.nmi = FALSE
        /\ lines'.halt = FALSE /\ lines'.IRQ = FALSE /\ lines'.FIRQ = FALSE
    BY <1>1, <1>2 DEF Lines, Lined, Firq, NoGime
  <1>6. SlotsOK'
    BY <1>2, <1>3, <1>4, <1>5 DEF SlotsOK, NoDiskCart, DiskCarts
  <1>7. Wired(mpi, lines)' /\ Signalled(gime, lines)'
    <2>1. Routed(mpi') = FALSE
      BY <1>3 DEF Routed
    <2>2. Wired(mpi', lines')
      BY <1>3, <1>5, <2>1 DEF Wired
    <2> QED
      BY <1>4, <1>5, <2>2 DEF Signalled
  <1>8. Alternates(mpi)'
    BY <1>1, <1>3 DEF Alternates, Alone
  <1>9. \A s \in Slot : CartHeard(s, disk_cart[s], mpi)'
    BY <1>2, <1>3, NoCartHeard
  <1> QED
    BY <1>6, <1>7, <1>8, <1>9 DEF SlotsInv

LEMMA InitHeard == SlotsInit => SlotsInv
  <1> SUFFICES ASSUME SlotsInit PROVE SlotsInv
    OBVIOUS
  <1>1. PICK kind \in Fitted :
          mpi = [kind |-> kind, cts_route |-> Initial, firq_state |-> {},
                 nmi_state |-> {}, halt_state |-> {}, level |-> FALSE,
                 last |-> [s \in Slot |-> TRUE], still |-> FALSE]
    BY DEF SlotsInit
  <1>2. mpi \in Mpis
    BY <1>1, SlotsAssumption DEF Mpis
  <1>3. SlotsOK
    BY <1>2 DEF SlotsInit, SlotsOK, NoDiskCart, DiskCarts, NoGime, Gimes, Lines
  <1>4. Wired(mpi, lines) /\ Signalled(gime, lines)
    <2>1. /\ Routed(mpi) = FALSE /\ mpi.nmi_state = {} /\ mpi.halt_state = {}
      BY <1>1 DEF Routed
    <2>2. Wired(mpi, lines)
      BY <2>1 DEF SlotsInit, Wired
    <2> QED
      BY <2>2 DEF SlotsInit, Signalled, NoGime
  <1>5. Alternates(mpi)
    BY <1>1 DEF Alternates
  <1>6. \A s \in Slot : CartHeard(s, disk_cart[s], mpi)
    BY <1>1, NoCartHeard DEF SlotsInit
  <1> QED
    BY <1>3, <1>4, <1>5, <1>6 DEF SlotsInv

LEMMA SlotsNextHeard == SlotsInv /\ [SlotsNext]_slotsVars => SlotsInv'
  <1> SUFFICES ASSUME SlotsInv, [SlotsNext]_slotsVars PROVE SlotsInv'
    OBVIOUS
  <1>1. ASSUME NEW slot \in Slot, Select(slot) \/ Toggle(slot) PROVE SlotsInv'
    BY <1>1, SelectHeard, ToggleHeard
  <1>2. ASSUME NEW slot \in Slot, DiskCart(slot) PROVE SlotsInv'
    <2>1. CASE mpi.kind[slot] = "rsdos"
      BY <1>2, <2>1, RsdosHeard DEF DiskCart
    <2>2. CASE mpi.kind[slot] = "dragondos"
      BY <1>2, <2>2, DragondosHeard DEF DiskCart
    <2> QED
      BY <1>2, <2>1, <2>2 DEF DiskCart
  <1>3. ASSUME NEW master \in Masters, SetEnables(master[1], master[2]) PROVE SlotsInv'
    <2>1. master[1] \in BOOLEAN /\ master[2] \in BOOLEAN
      BY SlotsAssumption
    <2> QED
      BY <1>3, <2>1, RegistersHeard
  <1>4. ASSUME NEW enabled \in BOOLEAN, EnableIrq(enabled) \/ EnableFirq(enabled) PROVE SlotsInv'
    BY <1>4, RegistersHeard
  <1>5. CASE MemCycle \/ AcknowledgeIrq \/ AcknowledgeFirq \/ ResetMpi
    BY <1>5, MemCycleHeard, RegistersHeard, ResetHeard
  <1>6. CASE UNCHANGED slotsVars
    BY <1>6 DEF slotsVars, SlotsInv, SlotsOK, Wired, Routed, Signalled, Alternates, Alone,
                CartHeard
  <1> QED
    BY <1>1, <1>2, <1>3, <1>4, <1>5, <1>6 DEF SlotsNext

(* However selections, resets, the GIME's registers and the cartridges' signals come,
   the machine hears the cartridges: the selected slot's FIRQ, any slot's NMI and HALT,
   the end of a disk command whatever the latch was told before or after it, and every
   toggle of a cartridge that starts itself, if it is the only one (mpi.c, cart.c:983). *)
THEOREM CartridgesHeard == SlotsSpec => []SlotsHeard
  <1>1. SlotsInv => SlotsHeard
    BY DEF SlotsInv, SlotsHeard, Wired, Signalled, Alternates, Alone, CartHeard
  <1> QED
    BY <1>1, InitHeard, SlotsNextHeard, PTL DEF SlotsSpec

-----------------------------------------------------------------------------
(* A side of a PIA *)

Flagged(s) == IRQ1Enabled(s.control_register) /\ s.irq1_received

(* A strobe that E ends has its end queued with it. *)
StrobeEnds(s) ==
    ~s.remade /\ RestoredByE(s.control_register) /\ (s.strobeQ \/ ~s.cx2_out_sink) => s.restoreQ

PiaInv ==
    /\ side \in Sides
    /\ ~side.shared => (Flagged(side) => side.irq \/ side.irqQ)
    /\ ~side.shared /\ ~side.late => (side.irq \/ side.irqQ => Flagged(side))
    /\ StrobeEnds(side)

LEMMA NoBits == ~IRQ1Enabled(0) /\ ~IRQ2Enabled(0) /\ ~RestoredByE(0)
  BY DEF IRQ1Enabled, IRQ2Enabled, RestoredByE, Strobes, Bit

LEMMA ReceivedFlags ==
    ASSUME PiaInv, NEW level \in BOOLEAN, SetCx1(level)
    PROVE  PiaInv'
  <1> DEFINE s == [side EXCEPT !.cx1 = level]
             r == IF RestoredByE(s.control_register) THEN [s EXCEPT !.cx2_out_sink = TRUE] ELSE s
  <1>1. side \in Sides
    BY DEF PiaInv
  <1>2. /\ r \in Sides /\ r.control_register = side.control_register
        /\ r.irq1_received = side.irq1_received /\ r.irq = side.irq /\ r.irqQ = side.irqQ
        /\ r.strobeQ = side.strobeQ /\ r.restoreQ = side.restoreQ
        /\ r.late = side.late /\ r.shared = side.shared /\ r.remade = side.remade
        /\ r.cx2_out_sink = (side.cx2_out_sink \/ RestoredByE(side.control_register))
    BY <1>1 DEF Sides
  <1>3. /\ s \in Sides /\ s.control_register = side.control_register
        /\ s.irq1_received = side.irq1_received /\ s.irq = side.irq /\ s.irqQ = side.irqQ
        /\ s.strobeQ = side.strobeQ /\ s.restoreQ = side.restoreQ
        /\ s.late = side.late /\ s.shared = side.shared /\ s.remade = side.remade
        /\ s.cx2_out_sink = side.cx2_out_sink
    BY <1>1 DEF Sides
  <1>4. side' = Received(r) \/ side' = s
    BY DEF SetCx1
  <1> HIDE DEF s, r
  <1>5. CASE side' = s
    BY <1>3, <1>5 DEF PiaInv, Flagged, StrobeEnds
  <1>6. CASE side' = Received(r) /\ IRQ1Enabled(r.control_register)
    <2>1. side' = [r EXCEPT !.irq1_received = TRUE, !.irqQ = TRUE]
      BY <1>6 DEF Received
    <2> QED
      BY <1>2, <1>6, <2>1 DEF PiaInv, Flagged, StrobeEnds, Sides
  <1>7. CASE side' = Received(r) /\ ~IRQ1Enabled(r.control_register)
    <2>1. side' = [r EXCEPT !.irq1_received = TRUE, !.irq = FALSE]
      BY <1>7 DEF Received
    <2> QED
      BY <1>2, <1>7, <2>1 DEF PiaInv, Flagged, StrobeEnds, Sides
  <1> QED
    BY <1>4, <1>5, <1>6, <1>7

LEMMA PortFlags ==
    ASSUME PiaInv, ReadPort \/ WritePort
    PROVE  PiaInv'
  <1>1. side \in Sides
    BY DEF PiaInv
  <1>2. CASE ReadPort
    <2> DEFINE s == [side EXCEPT !.irq1_received = FALSE, !.irq2_received = FALSE,
                                 !.irq = FALSE, !.late = side.irqQ]
    <2>1. /\ s \in Sides /\ s.control_register = side.control_register
          /\ ~s.irq1_received /\ ~s.irq /\ s.irqQ = side.irqQ
          /\ s.strobeQ = side.strobeQ /\ s.restoreQ = side.restoreQ
          /\ s.late = side.irqQ /\ s.shared = side.shared /\ s.remade = side.remade
          /\ s.cx2_out_sink = side.cx2_out_sink
      BY <1>1 DEF Sides
    <2>2. \/ side' = s
          \/ side' = [s EXCEPT !.strobeQ = TRUE, !.restoreQ = RestoredByE(s.control_register)]
      BY <1>2 DEF ReadPort
    <2>3. RestoredByE(s.control_register) \in BOOLEAN
      BY DEF RestoredByE, Strobes, Bit
    <2> HIDE DEF s
    <2> QED
      BY <2>1, <2>2, <2>3 DEF PiaInv, Flagged, StrobeEnds, Sides
  <1>3. CASE WritePort
    <2>1. side' = [side EXCEPT !.strobeQ = TRUE, !.restoreQ = RestoredByE(side.control_register)]
      BY <1>3 DEF WritePort
    <2>2. RestoredByE(side.control_register) \in BOOLEAN
      BY DEF RestoredByE, Strobes, Bit
    <2> QED
      BY <2>1, <2>2 DEF PiaInv, Flagged, StrobeEnds, Sides
  <1> QED
    BY <1>2, <1>3

LEMMA WriteControlFlags ==
    ASSUME PiaInv, NEW c \in Controls, WriteControl(c)
    PROVE  PiaInv'
  <1> DEFINE s == Configured(side, c)
             t == [side EXCEPT !.control_register = c, !.irq2_received = @ /\ ~Bit(c, 5)]
  <1>1. side \in Sides /\ c \in Registers
    BY PiaAssumption DEF PiaInv, Registers
  <1>2. Bit(c, 3) \in BOOLEAN /\ Bit(c, 4) \in BOOLEAN /\ Bit(c, 5) \in BOOLEAN
    BY DEF Bit
  <1>3. /\ t \in Sides /\ t.control_register = c
        /\ t.irq1_received = side.irq1_received /\ t.irq = side.irq /\ t.irqQ = side.irqQ
        /\ t.strobeQ = side.strobeQ /\ t.restoreQ = side.restoreQ
        /\ t.late = side.late /\ t.shared = side.shared /\ t.remade = side.remade
    BY <1>1, <1>2 DEF Sides
  <1> HIDE DEF t
  <1>4. IrqUnder(t, c) \in BOOLEAN
    BY <1>1, <1>3 DEF IrqUnder, IRQ2Enabled, Sides
  <1>5. /\ ~IRQ2Enabled(c) /\ ~IRQ1Enabled(c) => ~IrqUnder(t, c)
        /\ IRQ1Enabled(c) => IrqUnder(t, c) = (side.irq \/ side.irq1_received)
    BY <1>3 DEF IrqUnder
  <1>6. IRQ1Enabled(c) \in BOOLEAN /\ IRQ2Enabled(c) \in BOOLEAN
    BY DEF IRQ1Enabled, IRQ2Enabled, Bit
  <1> DEFINE irq == IrqUnder(t, c)
             late == side.late \/ (side.irqQ /\ ~IRQ1Enabled(c))
             shared == side.shared \/ IRQ2Enabled(c)
             remade == side.remade \/ side.strobeQ \/ side.restoreQ
  <1>7. /\ s = [t EXCEPT !.irq = irq, !.late = late, !.shared = shared, !.remade = remade]
        /\ irq \in BOOLEAN /\ late \in BOOLEAN /\ shared \in BOOLEAN /\ remade \in BOOLEAN
    BY <1>3, <1>4 DEF Configured, t
  <1> HIDE DEF irq, late, shared, remade
  <1>8. /\ s \in Sides /\ s.control_register = c /\ s.irq1_received = side.irq1_received
        /\ s.irq = irq /\ s.irqQ = side.irqQ
        /\ s.late = late /\ s.shared = shared /\ s.remade = remade
        /\ s.strobeQ = side.strobeQ /\ s.restoreQ = side.restoreQ
    BY ZenonT(30), <1>3, <1>7 DEF Sides
  <1> USE DEF irq, late, shared, remade
  <1> HIDE DEF s
  <1>9. CASE Bit(c, 5)
    <2>1. side' = [s EXCEPT !.cx2_out_sink = Bit(c, 4) => Bit(c, 3)]
      BY <1>9 DEF WriteControl, s
    <2>2. RestoredByE(c) => (Bit(c, 4) => Bit(c, 3))
      BY DEF RestoredByE
    <2>3. /\ side' \in Sides /\ side'.control_register = c /\ side'.irq = s.irq
          /\ side'.irq1_received = s.irq1_received /\ side'.irqQ = s.irqQ
          /\ side'.late = s.late /\ side'.shared = s.shared /\ side'.remade = s.remade
          /\ side'.strobeQ = s.strobeQ /\ side'.restoreQ = s.restoreQ
          /\ side'.cx2_out_sink = (Bit(c, 4) => Bit(c, 3))
      BY <1>2, <1>8, <2>1 DEF Sides
    <2> QED
      BY <1>1, <1>5, <1>8, <2>2, <2>3 DEF PiaInv, Flagged, StrobeEnds
  <1>10. CASE ~Bit(c, 5)
    <2> DEFINE u == [s EXCEPT !.cx2_out_sink = TRUE]
               level == s.side = "a"
    <2>1. side' = Cx2Seen(u, level)
      BY <1>10 DEF WriteControl, s
    <2>2. u \in Sides /\ u.cx2_out_sink /\ u.control_register = c /\ u.shared = s.shared
          /\ u.irq = s.irq /\ u.irq1_received = s.irq1_received /\ u.irqQ = s.irqQ
          /\ u.late = s.late /\ u.remade = s.remade
          /\ u.strobeQ = s.strobeQ /\ u.restoreQ = s.restoreQ
      BY <1>8 DEF Sides
    <2> HIDE DEF u, level
    <2>3. level \in BOOLEAN
      BY DEF level
    <2>4. Cx2Seen(u, level) \in Sides
      <3> DEFINE v == [u EXCEPT !.cx2 = level]
      <3>1. v \in Sides
        BY <2>2, <2>3 DEF Sides
      <3>2. \/ Cx2Seen(u, level) = u \/ Cx2Seen(u, level) = v
            \/ Cx2Seen(u, level) =
                  [v EXCEPT !.irq2_received = TRUE, !.irqQ = TRUE, !.shared = TRUE]
            \/ Cx2Seen(u, level) =
                  [v EXCEPT !.irq2_received = TRUE, !.irq = FALSE, !.shared = TRUE]
        BY DEF Cx2Seen
      <3> HIDE DEF v
      <3> QED
        BY ZenonT(30), <2>2, <3>1, <3>2 DEF Sides
    <2>5. /\ Cx2Seen(u, level).cx2_out_sink /\ Cx2Seen(u, level).control_register = c
          /\ ~Cx2Seen(u, level).shared =>
                /\ Cx2Seen(u, level).irq = s.irq /\ Cx2Seen(u, level).irqQ = s.irqQ
                /\ ~s.shared
          /\ Cx2Seen(u, level).irq1_received = s.irq1_received
          /\ Cx2Seen(u, level).late = s.late
      BY <2>2, <2>3 DEF Cx2Seen, Sides
    <2>6. ~RestoredByE(c)
      BY <1>10 DEF RestoredByE, Strobes
    <2> QED
      BY <1>1, <1>5, <1>8, <2>1, <2>4, <2>5, <2>6 DEF PiaInv, Flagged, StrobeEnds
  <1> QED
    BY <1>9, <1>10

LEMMA EventFlags ==
    ASSUME PiaInv, DoIrq \/ DoStrobeCx2 \/ DoRestoreCx2 \/ ResetPia
    PROVE  PiaInv'
  <1>1. side \in Sides
    BY DEF PiaInv
  <1>2. CASE DoIrq
    BY <1>1, <1>2 DEF DoIrq, PiaInv, Flagged, StrobeEnds, Sides
  <1>3. CASE DoStrobeCx2
    BY <1>1, <1>3 DEF DoStrobeCx2, PiaInv, Flagged, StrobeEnds, Sides
  <1>4. CASE DoRestoreCx2
    BY <1>1, <1>4 DEF DoRestoreCx2, PiaInv, Flagged, StrobeEnds, Sides
  <1>5. CASE ResetPia
    <2>1. 0 \in Registers
      BY DEF Registers
    <2>2. /\ side' \in Sides /\ side'.control_register = 0 /\ ~side'.irq
          /\ side'.irqQ = side.irqQ /\ side'.late = (side.late \/ side.irqQ)
      <3> DEFINE late == side.late \/ side.irqQ
                 remade == side.remade \/ side.strobeQ \/ side.restoreQ
      <3>1. /\ side' = [side EXCEPT !.control_register = 0, !.cx1 = FALSE, !.cx2 = FALSE,
                             !.irq = FALSE, !.cx2_out_sink = TRUE, !.late = late,
                             !.remade = remade]
            /\ late \in BOOLEAN /\ remade \in BOOLEAN
        BY <1>5 DEF ResetPia
      <3> HIDE DEF late, remade
      <3>2. /\ side' \in Sides /\ side'.control_register = 0 /\ side'.irq = FALSE
            /\ side'.irqQ = side.irqQ /\ side'.late = late
        <4> DEFINE s == [side EXCEPT !.control_register = 0, !.cx1 = FALSE, !.cx2 = FALSE]
        <4>1. /\ s \in Sides /\ s.control_register = 0 /\ s.irqQ = side.irqQ
              /\ side' = [s EXCEPT !.irq = FALSE, !.cx2_out_sink = TRUE, !.late = late,
                                   !.remade = remade]
          BY <1>1, <2>1, <3>1 DEF Sides
        <4> HIDE DEF s
        <4> QED
          BY <3>1, <4>1 DEF Sides
      <3> QED
        BY <3>2 DEF late
    <2> QED
      BY <1>1, <2>2, NoBits DEF PiaInv, Flagged, StrobeEnds
  <1> QED
    BY <1>2, <1>3, <1>4, <1>5

(* In whatever order the edges of Cx1, their delayed events, and the program's reads and
   writes come, an enabled flag has its interrupt or will have it, an interrupt has its
   flag, and a strobe that E ends does end; but for what IrqMeansFlagged excepts
   (mc6821.c, mc6821.h:87-90). *)
THEOREM InterruptsFlagged == PiaSpec => []IrqMeansFlagged
  <1>1. PiaInit => PiaInv
    BY NoBits DEF PiaInit, PiaInv, Flagged, StrobeEnds, Sides, Registers
  <1>2. PiaInv /\ [PiaNext]_side => PiaInv'
    <2> SUFFICES ASSUME PiaInv, [PiaNext]_side PROVE PiaInv'
      OBVIOUS
    <2>1. CASE UNCHANGED side
      BY <2>1 DEF PiaInv
    <2>2. CASE PiaNext
      BY <2>2, ReceivedFlags, PortFlags, WriteControlFlags, EventFlags DEF PiaNext
    <2> QED
      BY <2>1, <2>2
  <1>3. PiaInv => IrqMeansFlagged
    BY DEF PiaInv, IrqMeansFlagged, PiaOK, Flagged, StrobeEnds
  <1> QED
    BY <1>1, <1>2, <1>3, PTL DEF PiaSpec

-----------------------------------------------------------------------------
(* The CPU *)

Waiting(c) == c.state \in {"dispatch_irq", "cwai_check_halt"}

(* A rise of NMI that is anywhere on its way is owed its handler. *)
Owing(c) == c.nmi \/ c.nmi_latch \/ "nmi" \in c.active => c.owed

(* RTI pulls of a frame what it holds, by its E flag and the mode. *)
Pushed(c) ==
    \A i \in 1..Len(c.stack) :
       c.stack[i].regs = IF "E" \in c.stack[i].cc THEN All(c) ELSE "short"

Permits(frame, handler) ==
    /\ handler = "firq" => "F" \notin frame.cc
    /\ handler = "irq" => "I" \notin frame.cc

(* Each handler has its frame, and w says whether there is one frame more, which has
   the flags as they are now. *)
Framed(c, w) ==
    /\ Len(c.stack) >= Len(c.handlers) + (IF w THEN 1 ELSE 0)
    /\ ~c.diverted =>
        /\ Len(c.stack) = Len(c.handlers) + (IF w THEN 1 ELSE 0)
        /\ w => c.stack[Len(c.stack)].cc = c.cc
        /\ \A i \in 1..Len(c.handlers) : Permits(c.stack[i], c.handlers[i])

Accounted(c, w) == c \in Cpus /\ Owing(c) /\ Pushed(c) /\ Framed(c, w) /\ ~c.torn

CpuInv ==
    /\ Waiting(cpu) => Accounted(cpu, TRUE)
    /\ ~Waiting(cpu) => Accounted(cpu, FALSE)
    /\ cpu.state = "reset" => cpu.stack = <<>>

(* c and d have the same frames and flags. *)
Kin(c, d) ==
    /\ d \in Cpus
    /\ d.cc = c.cc /\ d.md = c.md /\ d.stack = c.stack /\ d.handlers = c.handlers
    /\ d.torn = c.torn /\ d.diverted = c.diverted

LEMMA KinAccounted ==
    ASSUME NEW c, NEW d, NEW w \in BOOLEAN, Accounted(c, w), Kin(c, d), Owing(d)
    PROVE  Accounted(d, w)
  BY DEF Accounted, Kin, Pushed, Framed, All

LEMMA KinTwice ==
    ASSUME NEW c, NEW d, NEW e, Kin(c, d), Kin(d, e)
    PROVE  Kin(c, e)
  BY DEF Kin

LEMMA CycleKin ==
    ASSUME NEW c \in Cpus
    PROVE  /\ Kin(c, Cycle(c)) /\ (Owing(c) => Owing(Cycle(c)))
           /\ Cycle(c).state = c.state /\ Cycle(c).active = c.active /\ Cycle(c).kind = c.kind
  <1>1. (c.nmi_latch \/ (c.nmi_armed /\ c.nmi)) \in BOOLEAN
    BY DEF Cpus
  <1>2. Cycle(c) \in Cpus
    BY <1>1 DEF Cycle, Cpus
  <1>3. Cycle(c).nmi_latch = (c.nmi_latch \/ (c.nmi_armed /\ c.nmi))
    BY DEF Cycle, Cpus
  <1>4. /\ Cycle(c).nmi = c.nmi /\ Cycle(c).active = c.active /\ Cycle(c).owed = c.owed
        /\ Cycle(c).state = c.state /\ Cycle(c).kind = c.kind
        /\ Cycle(c).cc = c.cc /\ Cycle(c).md = c.md /\ Cycle(c).stack = c.stack
        /\ Cycle(c).handlers = c.handlers
        /\ Cycle(c).torn = c.torn /\ Cycle(c).diverted = c.diverted
    BY DEF Cycle, Cpus
  <1>5. Owing(c) => Owing(Cycle(c))
    BY <1>3, <1>4 DEF Owing
  <1> QED
    BY <1>2, <1>4, <1>5 DEF Kin

LEMMA RecognisedKin ==
    ASSUME NEW c \in Cpus, NEW levels \in SUBSET Levels
    PROVE  /\ Kin(c, Recognised(c, levels)) /\ (Owing(c) => Owing(Recognised(c, levels)))
           /\ Recognised(c, levels).state = c.state /\ Recognised(c, levels).kind = c.kind
  <1> DEFINE d == Recognised(c, levels)
             active == levels \union (IF c.nmi_latch THEN {"nmi"} ELSE {})
  <1>1. active \in SUBSET (Levels \union {"nmi"}) /\ ("nmi" \in active <=> c.nmi_latch)
    BY DEF Levels
  <1>2. d = [c EXCEPT !.active = active]
    BY DEF Recognised
  <1> HIDE DEF active
  <1>3. d \in Cpus
    BY <1>1, <1>2 DEF Cpus
  <1>4. d.active = active
    BY <1>2 DEF Cpus
  <1>5. /\ d.nmi = c.nmi /\ d.nmi_latch = c.nmi_latch /\ d.owed = c.owed
        /\ d.state = c.state /\ d.kind = c.kind
        /\ d.cc = c.cc /\ d.md = c.md /\ d.stack = c.stack
        /\ d.handlers = c.handlers /\ d.torn = c.torn /\ d.diverted = c.diverted
    BY <1>2 DEF Cpus
  <1> HIDE DEF d
  <1>6. Owing(c) => Owing(d)
    BY <1>1, <1>4, <1>5 DEF Owing
  <1> QED
    BY <1>3, <1>5, <1>6 DEF Kin, d

LEMMA StateKin ==
    ASSUME NEW c \in Cpus, NEW state \in CpuStates
    PROVE  LET d == [c EXCEPT !.state = state]
           IN  Kin(c, d) /\ (Owing(c) => Owing(d)) /\ d.state = state
  <1> DEFINE d == [c EXCEPT !.state = state]
  <1>1. d \in Cpus
    BY DEF Cpus
  <1>2. /\ d.nmi = c.nmi /\ d.nmi_latch = c.nmi_latch /\ d.owed = c.owed /\ d.active = c.active
        /\ d.state = state /\ d.cc = c.cc /\ d.md = c.md /\ d.stack = c.stack
        /\ d.handlers = c.handlers /\ d.torn = c.torn /\ d.diverted = c.diverted
    BY DEF Cpus
  <1> HIDE DEF d
  <1>3. Owing(c) => Owing(d)
    BY <1>2 DEF Owing
  <1> QED
    BY <1>1, <1>2, <1>3 DEF Kin, d

LEMMA InstructionAccounted ==
    ASSUME NEW c, NEW levels \in SUBSET Levels, Accounted(c, FALSE)
    PROVE  /\ Accounted(Instruction(c, levels), FALSE)
           /\ Instruction(c, levels).state = "label_a"
  <1> DEFINE d == Recognised(Cycle(c), levels)
  <1>1. c \in Cpus /\ Owing(c)
    BY DEF Accounted
  <1>2. Kin(c, Cycle(c)) /\ Owing(Cycle(c)) /\ Cycle(c) \in Cpus
    BY <1>1, CycleKin DEF Kin
  <1>3. Kin(Cycle(c), d) /\ Owing(d) /\ d \in Cpus
    BY <1>2, RecognisedKin DEF Kin
  <1>4. Accounted(d, FALSE)
    BY <1>2, <1>3, KinTwice, KinAccounted
  <1>5. "label_a" \in CpuStates
    BY DEF CpuStates
  <1>6. Instruction(c, levels) = [d EXCEPT !.state = "label_a"]
    BY DEF Instruction
  <1> HIDE DEF d
  <1> QED
    BY <1>3, <1>4, <1>5, <1>6, StateKin, KinAccounted

(* A frame is pushed. *)
LEMMA StackedAccounted ==
    ASSUME NEW c, NEW entire \in BOOLEAN, Accounted(c, FALSE)
    PROVE  LET d == Stacked(c, entire)
           IN  /\ Accounted(d, TRUE) /\ d.state = c.state /\ d.active = c.active
               /\ d.cc \ {"E"} = c.cc \ {"E"}
  <1> DEFINE cc == IF entire THEN c.cc \union {"E"} ELSE c.cc \ {"E"}
             frame == [cc |-> cc, regs |-> IF entire THEN All(c) ELSE "short"]
             b == Cycle(c)
             d == [b EXCEPT !.cc = cc, !.stack = Append(@, frame)]
  <1>1. c \in Cpus /\ Owing(c) /\ Pushed(c) /\ Framed(c, FALSE) /\ ~c.torn
    BY DEF Accounted
  <1>2. Kin(c, b) /\ Owing(b) /\ b \in Cpus /\ b.state = c.state /\ b.active = c.active
    BY <1>1, CycleKin DEF Kin
  <1>3. Accounted(b, FALSE)
    BY <1>2, KinAccounted
  <1>4. All(c) = All(b) /\ All(b) \in {"all", "native"} /\ b.cc = c.cc
    BY <1>2 DEF Kin, All
  <1>5. /\ cc \in SUBSET Flags /\ ("E" \in cc <=> entire) /\ cc \ {"E"} = c.cc \ {"E"}
    BY <1>1 DEF Cpus, Flags
  <1>6. /\ frame \in Frames /\ frame.cc = cc
        /\ frame.regs = IF "E" \in frame.cc THEN All(b) ELSE "short"
    BY <1>4, <1>5 DEF Frames, Extents
  <1>7. Stacked(c, entire) = d
    BY DEF Stacked
  <1> HIDE DEF frame, cc, b
  <1>8. b.stack \in Seq(Frames) /\ b.handlers \in Seq(Handlers)
    BY <1>2 DEF Cpus
  <1> DEFINE s == Append(b.stack, frame)
  <1>9. /\ s \in Seq(Frames) /\ Len(s) = Len(b.stack) + 1 /\ s[Len(s)] = frame
        /\ \A i \in 1..Len(b.stack) : s[i] = b.stack[i]
    BY <1>6, <1>8
  <1> HIDE DEF s
  <1>10. d = [b EXCEPT !.cc = cc, !.stack = s]
    BY <1>2 DEF s, Cpus
  <1>11. d \in Cpus
    BY <1>2, <1>5, <1>9, <1>10 DEF Cpus
  <1>12. /\ d.cc = cc /\ d.stack = s /\ d.md = b.md /\ d.handlers = b.handlers
         /\ d.torn = b.torn /\ d.diverted = b.diverted /\ d.nmi = b.nmi
         /\ d.nmi_latch = b.nmi_latch /\ d.owed = b.owed /\ d.active = b.active
         /\ d.state = b.state
    BY <1>2, <1>10 DEF Cpus
  <1> HIDE DEF d
  <1>13. Owing(d) /\ All(d) = All(b)
    BY <1>2, <1>12 DEF Owing, All
  <1>14. Pushed(d)
    <2> SUFFICES ASSUME NEW i \in 1..Len(s)
                 PROVE  s[i].regs = IF "E" \in s[i].cc THEN All(b) ELSE "short"
      BY <1>12, <1>13 DEF Pushed
    <2>1. CASE i = Len(s)
      BY <2>1, <1>6, <1>9
    <2>2. CASE i # Len(s)
      <3>1. i \in 1..Len(b.stack) /\ s[i] = b.stack[i]
        BY <2>2, <1>8, <1>9
      <3> QED
        BY <3>1, <1>3 DEF Accounted, Pushed
    <2> QED
      BY <2>1, <2>2
  <1>15. Framed(d, TRUE)
    <2>1. Framed(b, FALSE)
      BY <1>3 DEF Accounted
    <2>2. /\ Len(b.stack) >= Len(b.handlers)
          /\ ~b.diverted => /\ Len(b.stack) = Len(b.handlers)
                            /\ \A i \in 1..Len(b.handlers) : Permits(b.stack[i], b.handlers[i])
      BY <2>1, <1>8 DEF Framed
    <2>3. /\ Len(d.stack) >= Len(d.handlers) + 1
          /\ ~d.diverted => Len(d.stack) = Len(d.handlers) + 1
      BY <2>2, <1>8, <1>9, <1>12
    <2>4. d.stack[Len(d.stack)].cc = d.cc
      BY <1>6, <1>9, <1>12
    <2>5. ~d.diverted => \A i \in 1..Len(d.handlers) : Permits(d.stack[i], d.handlers[i])
      BY <2>2, <1>8, <1>9, <1>12
    <2> QED
      BY <2>3, <2>4, <2>5 DEF Framed
  <1>16. ~d.torn
    BY <1>3, <1>12 DEF Accounted
  <1>17. Accounted(d, TRUE)
    BY <1>11, <1>13, <1>14, <1>15, <1>16 DEF Accounted
  <1> QED
    BY <1>2, <1>5, <1>7, <1>12, <1>17

(* The handler of that frame is entered; it is one that the flags allow. *)
LEMMA EntersAccounted ==
    ASSUME NEW c, NEW handler \in Handlers, NEW mask \in SUBSET Flags,
           Accounted(c, TRUE), Permits(c, handler)
    PROVE  Accounted(Enters(c, handler, mask), FALSE) /\ Enters(c, handler, mask).state = "label_a"
  <1> DEFINE a == [c EXCEPT !.cc = @ \union mask]
             b == Cycle(a)
             d == [b EXCEPT !.state = "label_a"]
             e == [d EXCEPT !.handlers = Append(@, handler)]
  <1>1. c \in Cpus /\ Owing(c) /\ Pushed(c) /\ Framed(c, TRUE) /\ ~c.torn
    BY DEF Accounted
  <1>2. a \in Cpus
    BY <1>1 DEF Cpus
  <1>3. /\ a.nmi = c.nmi /\ a.nmi_latch = c.nmi_latch /\ a.owed = c.owed /\ a.active = c.active
        /\ a.md = c.md /\ a.stack = c.stack /\ a.handlers = c.handlers
        /\ a.torn = c.torn /\ a.diverted = c.diverted
    BY <1>1 DEF Cpus
  <1>4. e = Enters(c, handler, mask)
    BY DEF Enters, Interrupt
  <1> HIDE DEF a
  <1>5. Owing(a)
    BY <1>1, <1>3 DEF Owing
  <1>6. "label_a" \in CpuStates
    BY DEF CpuStates
  <1>7. Kin(a, b) /\ Owing(b) /\ b \in Cpus
    BY <1>2, <1>5, CycleKin DEF Kin
  <1> HIDE DEF b
  <1>8. Kin(b, d) /\ Owing(d) /\ d \in Cpus /\ d.state = "label_a"
    BY <1>6, <1>7, StateKin DEF Kin
  <1> HIDE DEF d
  <1>9. /\ d.md = c.md /\ d.stack = c.stack /\ d.handlers = c.handlers
        /\ d.torn = c.torn /\ d.diverted = c.diverted
    BY <1>3, <1>7, <1>8 DEF Kin
  <1> DEFINE h == Append(c.handlers, handler)
  <1>10. c.stack \in Seq(Frames) /\ c.handlers \in Seq(Handlers)
    BY <1>1 DEF Cpus
  <1>11. /\ h \in Seq(Handlers) /\ Len(h) = Len(c.handlers) + 1 /\ h[Len(h)] = handler
         /\ \A i \in 1..Len(c.handlers) : h[i] = c.handlers[i]
    BY <1>10
  <1> HIDE DEF h
  <1>12. e = [d EXCEPT !.handlers = h]
    BY <1>8, <1>9 DEF h, Cpus
  <1>13. e \in Cpus
    BY <1>8, <1>11, <1>12 DEF Cpus
  <1>14. /\ e.handlers = h /\ e.md = d.md /\ e.stack = d.stack /\ e.torn = d.torn
         /\ e.diverted = d.diverted /\ e.state = d.state /\ e.nmi = d.nmi
         /\ e.nmi_latch = d.nmi_latch /\ e.active = d.active /\ e.owed = d.owed
    BY <1>8, <1>12 DEF Cpus
  <1> HIDE DEF e
  <1>15. Owing(e) /\ Pushed(e) /\ ~e.torn
    BY <1>1, <1>8, <1>9, <1>14 DEF Owing, Pushed, All
  <1>16. Framed(e, FALSE)
    <2>1. /\ Len(c.stack) >= Len(c.handlers) + 1
          /\ ~c.diverted =>
               /\ Len(c.stack) = Len(c.handlers) + 1
               /\ c.stack[Len(c.stack)].cc = c.cc
               /\ \A i \in 1..Len(c.handlers) : Permits(c.stack[i], c.handlers[i])
      BY <1>1 DEF Framed
    <2>2. Len(e.stack) >= Len(e.handlers) /\ (~e.diverted => Len(e.stack) = Len(e.handlers))
      BY <2>1, <1>9, <1>10, <1>11, <1>14
    <2>3. ASSUME ~e.diverted, NEW i \in 1..Len(h)
          PROVE  Permits(c.stack[i], h[i])
      <3>1. CASE i = Len(h)
        <4>1. h[i] = handler /\ c.stack[i].cc = c.cc
          BY <3>1, <2>1, <2>3, <1>9, <1>10, <1>11, <1>14
        <4> QED
          BY <4>1 DEF Permits
      <3>2. CASE i # Len(h)
        <4>1. i \in 1..Len(c.handlers) /\ h[i] = c.handlers[i]
          BY <3>2, <1>10, <1>11
        <4> QED
          BY <4>1, <2>1, <2>3, <1>9, <1>14
      <3> QED
        BY <3>1, <3>2
    <2>4. Len(e.handlers) \in Nat
      BY <1>13 DEF Cpus
    <2> QED
      BY <2>2, <2>3, <2>4, <1>9, <1>14 DEF Framed
  <1> QED
    BY <1>4, <1>8, <1>13, <1>14, <1>15, <1>16 DEF Accounted

(* What steps to a state that waits for no vector has to leave. *)
LEMMA RestsInv ==
    ASSUME Accounted(cpu', FALSE),
           cpu'.state \in CpuStates \ {"dispatch_irq", "cwai_check_halt", "reset"}
    PROVE  CpuInv'
  BY DEF CpuInv, Waiting

LEMMA CpuInitInv == CpuInit => CpuInv
  <1> SUFFICES ASSUME CpuInit PROVE CpuInv
    OBVIOUS
  <1>1. PICK kind \in CpuKinds :
        cpu = [kind |-> kind, state |-> "reset", nmi |-> FALSE, nmi_armed |-> FALSE,
               nmi_latch |-> FALSE, active |-> {}, cc |-> {}, md |-> {}, stack |-> <<>>,
               handlers |-> <<>>, owed |-> FALSE, torn |-> FALSE, diverted |-> FALSE]
    BY DEF CpuInit
  <1>2. cpu \in Cpus
    <2>1. <<>> \in Seq(Frames) /\ <<>> \in Seq(Handlers) /\ "reset" \in CpuStates
      BY DEF CpuStates
    <2> QED
      BY <1>1, <2>1 DEF Cpus
  <1>3. /\ cpu.stack = <<>> /\ cpu.handlers = <<>> /\ ~cpu.torn /\ ~cpu.nmi /\ ~cpu.nmi_latch
        /\ cpu.active = {} /\ cpu.state = "reset"
    BY <1>1
  <1>4. Framed(cpu, FALSE) /\ Pushed(cpu) /\ Owing(cpu) /\ ~Waiting(cpu)
    BY <1>3 DEF Framed, Pushed, Owing, Waiting
  <1> QED
    BY <1>2, <1>3, <1>4 DEF CpuInv, Accounted

LEMMA SetNMIInv ==
    ASSUME CpuInv, NEW level \in BOOLEAN, SetNMI(level)
    PROVE  CpuInv'
  <1>1. cpu \in Cpus
    BY DEF CpuInv, Accounted
  <1>2. cpu' = [cpu EXCEPT !.nmi = level, !.owed = @ \/ level]
    BY DEF SetNMI
  <1>3. (cpu.owed \/ level) \in BOOLEAN
    BY <1>1 DEF Cpus
  <1>4. cpu' \in Cpus
    BY <1>1, <1>2, <1>3 DEF Cpus
  <1>5. cpu'.owed = (cpu.owed \/ level)
    BY <1>1, <1>2 DEF Cpus
  <1>6. /\ cpu'.nmi = level /\ cpu'.nmi_latch = cpu.nmi_latch
        /\ cpu'.active = cpu.active /\ cpu'.state = cpu.state /\ cpu'.stack = cpu.stack
        /\ cpu'.handlers = cpu.handlers /\ cpu'.cc = cpu.cc /\ cpu'.md = cpu.md
        /\ cpu'.torn = cpu.torn /\ cpu'.diverted = cpu.diverted
    BY <1>1, <1>2 DEF Cpus
  <1>7. Kin(cpu, cpu')
    BY <1>4, <1>6 DEF Kin
  <1>8. Owing(cpu')
    BY <1>5, <1>6 DEF Owing, CpuInv, Accounted
  <1>9. Waiting(cpu') <=> Waiting(cpu)
    BY <1>6 DEF Waiting
  <1>10. ASSUME NEW w \in BOOLEAN, Accounted(cpu, w) PROVE Accounted(cpu', w)
    BY <1>7, <1>8, <1>10, KinAccounted
  <1> QED
    BY <1>6, <1>9, <1>10 DEF CpuInv, Waiting

LEMMA ResetCpuInv == ASSUME CpuInv, ResetCpu PROVE CpuInv'
  <1>1. cpu \in Cpus
    BY DEF CpuInv, Accounted
  <1>2. /\ cpu'.stack = <<>> /\ cpu'.handlers = <<>> /\ cpu'.torn = FALSE /\ cpu'.nmi = FALSE
        /\ cpu'.nmi_latch = FALSE /\ cpu'.active = {} /\ cpu'.state = "reset"
    BY <1>1 DEF ResetCpu, Cpus
  <1>3. <<>> \in Seq(Frames) /\ <<>> \in Seq(Handlers) /\ "reset" \in CpuStates
    BY DEF CpuStates
  <1>4. cpu' \in Cpus
    BY <1>1, <1>3 DEF ResetCpu, Cpus
  <1>5. Framed(cpu', FALSE) /\ Pushed(cpu') /\ Owing(cpu') /\ ~Waiting(cpu')
    BY <1>2 DEF Framed, Pushed, Owing, Waiting
  <1> QED
    BY <1>2, <1>4, <1>5 DEF CpuInv, Accounted

LEMMA SetPCInv == ASSUME CpuInv, SetPC PROVE CpuInv'
  <1>1. /\ cpu \in Cpus /\ ~cpu.torn /\ Owing(cpu) /\ Pushed(cpu)
        /\ Waiting(cpu) => Framed(cpu, TRUE)
        /\ ~Waiting(cpu) => Framed(cpu, FALSE)
    BY DEF CpuInv, Accounted
  <1>2. (cpu.diverted \/ Waiting(cpu)) \in BOOLEAN
    BY <1>1 DEF Cpus
  <1>3. cpu' = [cpu EXCEPT !.state = "next_instruction", !.diverted = @ \/ Waiting(cpu)]
    BY <1>1 DEF SetPC, Waiting
  <1>4. "next_instruction" \in CpuStates
    BY DEF CpuStates
  <1>5. cpu' \in Cpus
    BY <1>1, <1>2, <1>3, <1>4 DEF Cpus
  <1>6. /\ cpu'.nmi = cpu.nmi /\ cpu'.nmi_latch = cpu.nmi_latch /\ cpu'.owed = cpu.owed
        /\ cpu'.active = cpu.active /\ cpu'.state = "next_instruction"
        /\ cpu'.stack = cpu.stack /\ cpu'.handlers = cpu.handlers
        /\ cpu'.cc = cpu.cc /\ cpu'.md = cpu.md /\ cpu'.torn = cpu.torn
    BY <1>1, <1>3 DEF Cpus
  <1>7. cpu'.diverted <=> cpu.diverted \/ Waiting(cpu)
    BY <1>1, <1>3 DEF Cpus
  <1>8. Owing(cpu') /\ Pushed(cpu') /\ ~cpu'.torn
    BY <1>1, <1>6 DEF Accounted, Owing, Pushed, All
  <1>9. Len(cpu.stack) \in Nat /\ Len(cpu.handlers) \in Nat
    BY <1>1 DEF Cpus
  <1>10. Framed(cpu', FALSE)
    BY <1>1, <1>6, <1>7, <1>9 DEF Framed
  <1>11. Accounted(cpu', FALSE)
    BY <1>5, <1>8, <1>10 DEF Accounted
  <1> QED
    BY <1>4, <1>6, <1>11, RestsInv

LEMMA ResetStateInv == ASSUME CpuInv, ResetState PROVE CpuInv'
  <1>1. cpu \in Cpus /\ ~Waiting(cpu) /\ Accounted(cpu, FALSE)
    BY DEF CpuInv, Accounted, Waiting, ResetState
  <1> DEFINE r == [cpu EXCEPT !.cc = @ \union {"F", "I"}, !.md = {},
                              !.nmi_armed = FALSE, !.nmi = FALSE, !.active = {}]
             c == IF cpu.state = "reset" THEN r ELSE cpu
  <1>2. ASSUME cpu.state = "reset"
        PROVE  Accounted(r, FALSE)
    <2>1. cpu.stack = <<>> /\ ~cpu.torn /\ Owing(cpu) /\ Framed(cpu, FALSE)
      BY <1>1, <1>2 DEF CpuInv, Accounted
    <2>2. r \in Cpus
      BY <1>1 DEF Cpus, Flags
    <2>3. /\ r.nmi = FALSE /\ r.active = {} /\ r.nmi_latch = cpu.nmi_latch /\ r.owed = cpu.owed
          /\ r.stack = cpu.stack /\ r.handlers = cpu.handlers /\ r.torn = cpu.torn
          /\ r.diverted = cpu.diverted
      BY <1>1 DEF Cpus
    <2> HIDE DEF r
    <2>4. Owing(r) /\ Pushed(r) /\ Framed(r, FALSE)
      BY <2>1, <2>3 DEF Owing, Pushed, Framed
    <2> QED
      BY <2>1, <2>2, <2>3, <2>4 DEF Accounted
  <1>3. Accounted(c, FALSE) /\ c \in Cpus /\ Owing(c)
    BY <1>1, <1>2 DEF Accounted
  <1>4. cpu' \in {Interrupt(c, {}), [Cycle(c) EXCEPT !.state = "reset_check_halt"]}
    BY DEF ResetState
  <1> HIDE DEF c
  <1>5. [c EXCEPT !.cc = @ \union {}] = c
    BY <1>3 DEF Cpus
  <1>6. \E state \in {"label_a", "reset_check_halt"} : cpu' = [Cycle(c) EXCEPT !.state = state]
    BY <1>4, <1>5 DEF Interrupt
  <1>7. PICK state \in {"label_a", "reset_check_halt"} : cpu' = [Cycle(c) EXCEPT !.state = state]
    BY <1>6
  <1>8. state \in CpuStates
    BY DEF CpuStates
  <1>9. Accounted(Cycle(c), FALSE) /\ Cycle(c) \in Cpus
    BY <1>3, CycleKin, KinAccounted DEF Kin
  <1>10. Accounted(cpu', FALSE) /\ cpu'.state = state
    BY <1>7, <1>8, <1>9, StateKin, KinAccounted DEF Accounted
  <1> QED
    BY <1>8, <1>10, RestsInv

(* Steps that push nothing and enter nothing. *)
LEMMA KinInv ==
    ASSUME CpuInv, Kin(cpu, cpu'), Owing(cpu'), Waiting(cpu') <=> Waiting(cpu),
           cpu'.state = "reset" => cpu.state = "reset"
    PROVE  CpuInv'
  <1>2. ASSUME NEW w \in BOOLEAN, Accounted(cpu, w) PROVE Accounted(cpu', w)
    BY <1>2, KinAccounted
  <1>3. cpu'.stack = cpu.stack
    BY DEF Kin
  <1> QED
    BY <1>2, <1>3 DEF CpuInv, Waiting

LEMMA LabelBInv == ASSUME CpuInv, LabelB PROVE CpuInv'
  <1>1. cpu \in Cpus /\ Accounted(cpu, FALSE) /\ Owing(cpu) /\ ~Waiting(cpu)
    BY DEF CpuInv, Accounted, Waiting, LabelB
  <1>2. CASE cpu' = [cpu EXCEPT !.state = "next_instruction"]
    <2>1. "next_instruction" \in CpuStates
      BY DEF CpuStates
    <2>2. Kin(cpu, cpu') /\ Owing(cpu') /\ cpu'.state = "next_instruction"
      BY <1>1, <1>2, <2>1, StateKin
    <2>3. ~Waiting(cpu') /\ ~Waiting(cpu)
      BY <2>2, <1>1 DEF Waiting
    <2> QED
      BY <2>2, <2>3, KinInv
  <1>3. CASE cpu' = [Stacked(cpu, Taken(cpu) # "firq" \/ "FM" \in cpu.md)
                       EXCEPT !.state = "dispatch_irq"]
    <2>1. (Taken(cpu) # "firq" \/ "FM" \in cpu.md) \in BOOLEAN
      OBVIOUS
    <2>2. PICK entire \in BOOLEAN : cpu' = [Stacked(cpu, entire) EXCEPT !.state = "dispatch_irq"]
      BY <1>3, <2>1
    <2> DEFINE d == Stacked(cpu, entire)
    <2>3. Accounted(d, TRUE)
      BY <1>1, StackedAccounted
    <2>4. d \in Cpus /\ Owing(d)
      BY <2>3 DEF Accounted
    <2> HIDE DEF d
    <2>5. "dispatch_irq" \in CpuStates
      BY DEF CpuStates
    <2>6. cpu' = [d EXCEPT !.state = "dispatch_irq"]
      BY <2>2 DEF d
    <2>7. Kin(d, cpu') /\ Owing(cpu') /\ cpu'.state = "dispatch_irq"
      BY <2>4, <2>5, <2>6, StateKin
    <2>8. Accounted(cpu', TRUE)
      BY <2>3, <2>7, KinAccounted
    <2> QED
      BY <2>7, <2>8 DEF CpuInv, Waiting
  <1> QED
    BY <1>2, <1>3 DEF LabelB

LEMMA DispatchIrqInv == ASSUME CpuInv, DispatchIrq PROVE CpuInv'
  <1>1. cpu \in Cpus /\ Accounted(cpu, TRUE) /\ Owing(cpu) /\ cpu.state = "dispatch_irq"
    BY DEF CpuInv, Accounted, Waiting, DispatchIrq
  <1>2. CASE Taken(cpu) = "none"
    <2>1. cpu' = [cpu EXCEPT !.state = "cwai_check_halt"]
      BY <1>2 DEF DispatchIrq, Levels
    <2>2. "cwai_check_halt" \in CpuStates
      BY DEF CpuStates
    <2>3. Kin(cpu, cpu') /\ Owing(cpu') /\ cpu'.state = "cwai_check_halt"
      BY <1>1, <2>1, <2>2, StateKin
    <2> QED
      BY <1>1, <2>3, KinInv DEF Waiting
  <1>3. CASE Taken(cpu) \in Levels
    <2>1. cpu' = Enters(cpu, Taken(cpu), Mask(Taken(cpu)))
      BY <1>3 DEF DispatchIrq, Levels
    <2>2. Taken(cpu) \in Handlers /\ Mask(Taken(cpu)) \in SUBSET Flags
      BY <1>3 DEF Levels, Handlers, Mask, Flags
    <2>3. Permits(cpu, Taken(cpu))
      BY <1>3 DEF Permits, Taken, Levels
    <2>4. Accounted(cpu', FALSE) /\ cpu'.state = "label_a"
      BY <1>1, <2>1, <2>2, <2>3, EntersAccounted
    <2> QED
      BY <2>4, RestsInv DEF CpuStates
  <1>4. CASE Taken(cpu) = "nmi"
    <2> DEFINE c == [cpu EXCEPT !.nmi = FALSE, !.nmi_latch = FALSE,
                                !.active = @ \ {"nmi"}, !.owed = FALSE]
    <2>1. cpu' = Enters(c, "nmi", Mask("nmi"))
      BY <1>4 DEF DispatchIrq, Levels
    <2>2. c \in Cpus
      BY <1>1 DEF Cpus
    <2>3. /\ c.nmi = FALSE /\ c.nmi_latch = FALSE /\ c.active = cpu.active \ {"nmi"}
          /\ c.cc = cpu.cc /\ c.md = cpu.md /\ c.stack = cpu.stack
          /\ c.handlers = cpu.handlers /\ c.torn = cpu.torn /\ c.diverted = cpu.diverted
      BY <1>1 DEF Cpus
    <2> HIDE DEF c
    <2>4. Kin(cpu, c) /\ Owing(c)
      BY <2>2, <2>3 DEF Kin, Owing
    <2>5. Accounted(c, TRUE)
      BY <1>1, <2>4, KinAccounted
    <2>6. "nmi" \in Handlers /\ Mask("nmi") \in SUBSET Flags /\ Permits(c, "nmi")
      BY DEF Handlers, Mask, Flags, Permits
    <2>7. Accounted(cpu', FALSE) /\ cpu'.state = "label_a"
      BY <2>1, <2>5, <2>6, EntersAccounted
    <2> QED
      BY <2>7, RestsInv DEF CpuStates
  <1> QED
    BY <1>2, <1>3, <1>4 DEF DispatchIrq

LEMMA CycledInv ==
    ASSUME CpuInv, ~Waiting(cpu),
           NEW state \in CpuStates \ {"dispatch_irq", "cwai_check_halt", "reset"},
           cpu' = [Cycle(cpu) EXCEPT !.state = state]
    PROVE  CpuInv'
  <1>1. Accounted(cpu, FALSE) /\ cpu \in Cpus /\ Owing(cpu)
    BY DEF CpuInv, Accounted
  <1>2. Accounted(Cycle(cpu), FALSE) /\ Cycle(cpu) \in Cpus /\ Owing(Cycle(cpu))
    BY <1>1, CycleKin, KinAccounted DEF Kin
  <1>3. Accounted(cpu', FALSE) /\ cpu'.state = state
    BY <1>2, StateKin, KinAccounted
  <1> QED
    BY <1>3, RestsInv

(* Steps that only go on, but for CWAI's. *)
LEMMA SamplesInv ==
    ASSUME CpuInv, NEW levels \in SUBSET Levels,
           \/ Sync(levels) \/ Tfm(levels) \/ TfmWrite(levels)
           \/ SyncCheckHalt \/ Halted \/ Hcf \/ Prefix \/ SYNC \/ TFM
    PROVE  CpuInv'
  <1>1. Accounted(cpu, FALSE) /\ cpu \in Cpus /\ Owing(cpu) /\ ~Waiting(cpu)
    BY DEF CpuInv, Accounted, Waiting, Sync, Tfm, TfmWrite, SyncCheckHalt, Halted, Hcf, Prefix,
           SYNC, TFM, Executes
  <1> DEFINE Resting == CpuStates \ {"dispatch_irq", "cwai_check_halt", "reset"}
             r == Recognised(cpu, levels)
  <1>2. {"label_a", "label_b", "next_instruction", "sync", "sync_check_halt", "tfm", "tfm_write",
         "hcf"} \subseteq Resting
    BY DEF CpuStates
  <1>3. Accounted(r, FALSE) /\ r \in Cpus /\ Owing(r) /\ r.state = cpu.state
    BY <1>1, RecognisedKin, KinAccounted DEF Kin
  <1>4. ASSUME NEW c \in Cpus, Accounted(c, FALSE), Owing(c), NEW state \in Resting,
               cpu' = [c EXCEPT !.state = state]
        PROVE  CpuInv'
    BY <1>4, StateKin, KinAccounted, RestsInv
  <1>5. ASSUME NEW c \in Cpus, Accounted(c, FALSE), Owing(c), c.state \in Resting, cpu' = c
        PROVE  CpuInv'
    BY <1>5, RestsInv
  <1>6. ASSUME NEW c \in Cpus, Accounted(c, FALSE), Owing(c)
        PROVE  /\ Accounted(Cycle(c), FALSE) /\ Cycle(c) \in Cpus /\ Owing(Cycle(c))
               /\ Cycle(c).state = c.state
    BY <1>6, CycleKin, KinAccounted DEF Kin
  <1>7. ASSUME NEW c \in Cpus, Accounted(c, FALSE), Owing(c)
        PROVE  LET d == Recognised(c, levels)
               IN  Accounted(d, FALSE) /\ d \in Cpus /\ Owing(d) /\ d.state = c.state
    BY <1>7, RecognisedKin, KinAccounted DEF Kin
  <1> HIDE DEF r, Resting
  <1>10. CASE Sync(levels)
    <2>1. Cycle(r).state = "sync"
      BY <1>3, <1>6, <1>10 DEF Sync
    <2>2. \/ cpu' = Cycle(r)
          \/ \E state \in {"label_b", "sync_check_halt"} : cpu' = [Cycle(r) EXCEPT !.state = state]
      BY <1>10 DEF Sync, r
    <2> QED
      BY <1>2, <1>3, <1>4, <1>5, <1>6, <2>1, <2>2
  <1>11. CASE Tfm(levels)
    <2> DEFINE a == [cpu EXCEPT !.state = "label_a"]
    <2>1. Accounted(a, FALSE) /\ a \in Cpus /\ Owing(a) /\ a.state = "label_a"
      <3>1. "label_a" \in CpuStates
        BY DEF CpuStates
      <3>2. Kin(cpu, a) /\ Owing(a) /\ a.state = "label_a"
        BY <1>1, <3>1, StateKin
      <3> QED
        BY <1>1, <3>2, KinAccounted DEF Kin
    <2> HIDE DEF a
    <2>2. cpu' = Recognised(a, levels) \/ cpu' = [Cycle(cpu) EXCEPT !.state = "tfm_write"]
      BY <1>11 DEF Tfm, a
    <2> QED
      BY <1>1, <1>2, <1>4, <1>5, <1>6, <1>7, <2>1, <2>2
  <1>12. CASE TfmWrite(levels)
    <2>1. \/ cpu' = [cpu EXCEPT !.state = "label_b"]
          \/ cpu' = [Recognised(Cycle(cpu), levels) EXCEPT !.state = "tfm"]
      BY <1>12 DEF TfmWrite
    <2> QED
      BY <1>1, <1>2, <1>4, <1>6, <1>7, <2>1
  <1>13. CASE SyncCheckHalt \/ SYNC \/ TFM
    <2>1. \E state \in {"sync", "sync_check_halt", "tfm"} :
             cpu' = [Cycle(cpu) EXCEPT !.state = state]
      BY <1>13 DEF SyncCheckHalt, SYNC, TFM
    <2> QED
      BY <1>1, <1>2, <1>4, <1>6, <2>1
  <1>14. CASE Halted \/ Hcf \/ Prefix
    <2>1. cpu' = Cycle(cpu) /\ cpu.state \in {"label_a", "hcf", "next_instruction"}
      BY <1>14 DEF Halted, Hcf, Prefix, Executes
    <2> QED
      BY <1>1, <1>2, <1>5, <1>6, <2>1
  <1> QED
    BY <1>10, <1>11, <1>12, <1>13, <1>14

LEMMA CwaiCheckHaltInv ==
    ASSUME CpuInv, NEW levels \in SUBSET Levels, CwaiCheckHalt(levels)
    PROVE  CpuInv'
  <1>1. Accounted(cpu, TRUE) /\ cpu \in Cpus /\ Owing(cpu)
    BY DEF CpuInv, Accounted, Waiting, CwaiCheckHalt
  <1> DEFINE r == Recognised(cpu, levels)
             c == Cycle(r)
  <1>2. Kin(cpu, r) /\ Owing(r) /\ r \in Cpus
    BY <1>1, RecognisedKin DEF Kin
  <1>3. Kin(r, c) /\ Owing(c) /\ c \in Cpus
    BY <1>2, CycleKin DEF Kin
  <1>4. PICK state \in {"cwai_check_halt", "dispatch_irq"} : cpu' = [c EXCEPT !.state = state]
    BY DEF CwaiCheckHalt
  <1>5. Accounted(c, TRUE)
    BY <1>1, <1>2, <1>3, KinAccounted
  <1> HIDE DEF c
  <1>6. state \in CpuStates
    BY DEF CpuStates
  <1>7. Accounted(cpu', TRUE) /\ cpu'.state = state
    BY <1>3, <1>4, <1>5, <1>6, StateKin, KinAccounted
  <1> QED
    BY <1>7 DEF CpuInv, Waiting

LEMMA MasksAccounted ==
    ASSUME NEW c, Accounted(c, FALSE), NEW cc \in SUBSET Flags
    PROVE  LET d == [c EXCEPT !.cc = cc] IN Accounted(d, FALSE) /\ d.state = c.state
  <1> DEFINE d == [c EXCEPT !.cc = cc]
  <1>1. c \in Cpus
    BY DEF Accounted
  <1>2. d \in Cpus
    BY <1>1 DEF Cpus
  <1>3. /\ d.nmi = c.nmi /\ d.nmi_latch = c.nmi_latch /\ d.owed = c.owed /\ d.active = c.active
        /\ d.md = c.md /\ d.stack = c.stack /\ d.handlers = c.handlers
        /\ d.torn = c.torn /\ d.diverted = c.diverted /\ d.state = c.state
    BY <1>1 DEF Cpus
  <1> HIDE DEF d
  <1>4. Owing(d) /\ Pushed(d) /\ Framed(d, FALSE) /\ ~d.torn
    BY <1>3 DEF Accounted, Owing, Pushed, Framed, All
  <1> QED
    BY <1>2, <1>3, <1>4 DEF Accounted, d

LEMMA ArmedKin ==
    ASSUME NEW c \in Cpus
    PROVE  LET d == [c EXCEPT !.nmi_armed = TRUE]
           IN  Kin(c, d) /\ (Owing(c) => Owing(d)) /\ d.state = c.state
  <1> DEFINE d == [c EXCEPT !.nmi_armed = TRUE]
  <1>1. d \in Cpus
    BY DEF Cpus
  <1>2. /\ d.nmi = c.nmi /\ d.nmi_latch = c.nmi_latch /\ d.owed = c.owed /\ d.active = c.active
        /\ d.state = c.state /\ d.cc = c.cc /\ d.md = c.md /\ d.stack = c.stack
        /\ d.handlers = c.handlers /\ d.torn = c.torn /\ d.diverted = c.diverted
    BY DEF Cpus
  <1> HIDE DEF d
  <1>3. Owing(c) => Owing(d)
    BY <1>2 DEF Owing
  <1> QED
    BY <1>1, <1>2, <1>3 DEF Kin, d

LEMMA InstructionInv ==
    ASSUME CpuInv, NEW levels \in SUBSET Levels, Executes,
           NEW c, Accounted(c, FALSE), cpu' = Instruction(c, levels)
    PROVE  CpuInv'
  BY InstructionAccounted, RestsInv DEF CpuStates

LEMMA ChangeMasksInv ==
    ASSUME CpuInv, NEW levels \in SUBSET Levels, NEW masks \in SUBSET {"F", "I"},
           ChangeMasks(masks, levels)
    PROVE  CpuInv'
  <1> DEFINE cc == masks \union (cpu.cc \ {"F", "I"})
  <1>1. Accounted(cpu, FALSE) /\ cpu \in Cpus /\ Executes
    BY DEF CpuInv, Accounted, Waiting, ChangeMasks, Executes
  <1>2. cc \in SUBSET Flags
    BY <1>1 DEF Cpus, Flags
  <1>3. cpu' = Instruction([cpu EXCEPT !.cc = cc], levels)
    BY DEF ChangeMasks
  <1> HIDE DEF cc
  <1>4. Accounted([cpu EXCEPT !.cc = cc], FALSE)
    BY <1>1, <1>2, MasksAccounted
  <1> QED
    BY <1>1, <1>3, <1>4, InstructionInv

LEMMA LoadSInv ==
    ASSUME CpuInv, NEW levels \in SUBSET Levels, LoadS(levels)
    PROVE  CpuInv'
  <1>1. Accounted(cpu, FALSE) /\ cpu \in Cpus /\ Owing(cpu) /\ Executes
    BY DEF CpuInv, Accounted, Waiting, LoadS, Executes
  <1> DEFINE a == [cpu EXCEPT !.nmi_armed = TRUE]
             d == Instruction(cpu, levels)
  <1>2. Accounted(a, FALSE)
    BY <1>1, ArmedKin, KinAccounted
  <1>3. Accounted(d, FALSE) /\ d.state = "label_a"
    BY <1>1, InstructionAccounted
  <1>4. cpu' = Instruction(a, levels) \/ cpu' = [d EXCEPT !.nmi_armed = TRUE]
    BY DEF LoadS
  <1> HIDE DEF a, d
  <1>5. CASE cpu' = Instruction(a, levels)
    BY <1>1, <1>2, <1>5, InstructionInv
  <1>6. CASE cpu' = [d EXCEPT !.nmi_armed = TRUE]
    <2>1. d \in Cpus /\ Owing(d)
      BY <1>3 DEF Accounted
    <2>2. Accounted(cpu', FALSE) /\ cpu'.state = "label_a"
      BY <1>3, <1>6, <2>1, ArmedKin, KinAccounted
    <2> QED
      BY <2>2, RestsInv DEF CpuStates
  <1> QED
    BY <1>4, <1>5, <1>6

LEMMA HCFInv ==
    ASSUME CpuInv, NEW levels \in SUBSET Levels, HCF(levels)
    PROVE  CpuInv'
  <1> DEFINE d == Instruction(cpu, levels)
  <1>1. Accounted(cpu, FALSE)
    BY DEF CpuInv, Waiting, HCF, Executes
  <1>2. Accounted(d, FALSE) /\ d \in Cpus /\ Owing(d)
    BY <1>1, InstructionAccounted DEF Accounted
  <1>3. cpu' = [d EXCEPT !.state = "hcf"]
    BY DEF HCF
  <1> HIDE DEF d
  <1>4. "hcf" \in CpuStates
    BY DEF CpuStates
  <1>5. Accounted(cpu', FALSE) /\ cpu'.state = "hcf"
    BY <1>2, <1>3, <1>4, StateKin, KinAccounted
  <1> QED
    BY <1>5, RestsInv DEF CpuStates

LEMMA CWAIInv ==
    ASSUME CpuInv, NEW levels \in SUBSET Levels, NEW masks \in SUBSET {"F", "I"},
           CWAI(masks, levels)
    PROVE  CpuInv'
  <1> DEFINE cc == cpu.cc \ masks
             c == [cpu EXCEPT !.cc = cc]
             s == Stacked(c, TRUE)
             r == Recognised(s, levels)
  <1>1. Accounted(cpu, FALSE) /\ cpu \in Cpus
    BY DEF CpuInv, Accounted, Waiting, CWAI, Executes
  <1>2. cc \in SUBSET Flags
    BY <1>1 DEF Cpus
  <1>3. cpu' = [r EXCEPT !.state = "dispatch_irq"]
    BY DEF CWAI
  <1> HIDE DEF cc
  <1>4. Accounted(c, FALSE)
    BY <1>1, <1>2, MasksAccounted
  <1> HIDE DEF c
  <1>5. Accounted(s, TRUE) /\ s \in Cpus /\ Owing(s)
    BY <1>4, StackedAccounted DEF Accounted
  <1> HIDE DEF s
  <1>6. Accounted(r, TRUE) /\ r \in Cpus /\ Owing(r)
    BY <1>5, RecognisedKin, KinAccounted DEF Kin
  <1> HIDE DEF r
  <1>7. "dispatch_irq" \in CpuStates
    BY DEF CpuStates
  <1>8. Accounted(cpu', TRUE) /\ cpu'.state = "dispatch_irq"
    BY <1>3, <1>6, <1>7, StateKin, KinAccounted
  <1> QED
    BY <1>8 DEF CpuInv, Waiting

LEMMA SWIInv ==
    ASSUME CpuInv, NEW mask \in {{}, {"F", "I"}}, SWI(mask)
    PROVE  CpuInv'
  <1> DEFINE s == Stacked(cpu, TRUE)
  <1>1. Accounted(s, TRUE)
    BY StackedAccounted DEF CpuInv, Waiting, SWI, Executes
  <1>2. cpu' = Enters(s, "swi", mask)
    BY DEF SWI
  <1> HIDE DEF s
  <1>3. "swi" \in Handlers /\ mask \in SUBSET Flags /\ Permits(s, "swi")
    BY DEF Handlers, Flags, Permits
  <1>4. Accounted(cpu', FALSE) /\ cpu'.state = "label_a"
    BY <1>1, <1>2, <1>3, EntersAccounted
  <1> QED
    BY <1>4, RestsInv DEF CpuStates

LEMMA LDMDInv ==
    ASSUME CpuInv, NEW levels \in SUBSET Levels, NEW md \in ModeSets, LDMD(md, levels)
    PROVE  CpuInv'
  <1> DEFINE c == [cpu EXCEPT !.md = md]
  <1>1. Accounted(cpu, FALSE) /\ cpu \in Cpus /\ cpu.stack = <<>> /\ Executes
    BY DEF CpuInv, Accounted, Waiting, LDMD, Executes
  <1>2. md \in SUBSET Modes
    BY CpuAssumption
  <1>3. c \in Cpus
    BY <1>1, <1>2 DEF Cpus
  <1>4. /\ c.nmi = cpu.nmi /\ c.nmi_latch = cpu.nmi_latch /\ c.owed = cpu.owed
        /\ c.active = cpu.active /\ c.cc = cpu.cc /\ c.stack = cpu.stack
        /\ c.handlers = cpu.handlers /\ c.torn = cpu.torn /\ c.diverted = cpu.diverted
    BY <1>1 DEF Cpus
  <1>5. cpu' = Instruction(c, levels)
    BY DEF LDMD
  <1> HIDE DEF c
  <1>6. Owing(c) /\ Framed(c, FALSE) /\ ~c.torn
    BY <1>1, <1>4 DEF Accounted, Owing, Framed
  <1>7. Pushed(c)
    BY <1>1, <1>4 DEF Pushed
  <1>8. Accounted(c, FALSE)
    BY <1>3, <1>6, <1>7 DEF Accounted
  <1> QED
    BY <1>1, <1>5, <1>8, InstructionInv

(* RTI takes the innermost frame and ends the innermost handler. *)
LEMMA RTIInv ==
    ASSUME CpuInv, NEW levels \in SUBSET Levels, RTI(levels)
    PROVE  CpuInv'
  <1> DEFINE n == Len(cpu.stack)
             frame == cpu.stack[n]
             pulls == IF "E" \in frame.cc THEN All(cpu) ELSE "short"
             stack == SubSeq(cpu.stack, 1, n - 1)
             handlers == SubSeq(cpu.handlers, 1, Len(cpu.handlers) - 1)
             c == [cpu EXCEPT !.cc = frame.cc, !.stack = stack, !.handlers = handlers,
                              !.nmi_armed = TRUE, !.torn = @ \/ pulls # frame.regs]
  <1>1. /\ cpu \in Cpus /\ Owing(cpu) /\ Pushed(cpu) /\ Framed(cpu, FALSE) /\ ~cpu.torn
        /\ Executes /\ cpu.handlers # <<>>
    BY DEF CpuInv, Accounted, Waiting, RTI, Executes
  <1>2. /\ cpu.stack \in Seq(Frames) /\ cpu.handlers \in Seq(Handlers)
        /\ Len(cpu.handlers) > 0 /\ n >= Len(cpu.handlers) /\ n \in Nat /\ Len(cpu.handlers) \in Nat
    BY <1>1 DEF Cpus, Framed
  <1>3. frame \in Frames /\ pulls = frame.regs
    BY <1>1, <1>2 DEF Pushed
  <1>4. /\ stack \in Seq(Frames) /\ Len(stack) = n - 1
        /\ \A i \in 1..(n - 1) : stack[i] = cpu.stack[i]
    BY <1>2
  <1>5. /\ handlers \in Seq(Handlers) /\ Len(handlers) = Len(cpu.handlers) - 1
        /\ \A i \in 1..(Len(cpu.handlers) - 1) : handlers[i] = cpu.handlers[i]
    BY <1>2
  <1>6. cpu' = Instruction(c, levels)
    BY DEF RTI, Last, Front
  <1>7. frame.cc \in SUBSET Flags
    BY <1>3 DEF Frames
  <1> HIDE DEF frame, pulls, stack, handlers
  <1>8. c = [cpu EXCEPT !.cc = frame.cc, !.stack = stack, !.handlers = handlers,
                        !.nmi_armed = TRUE, !.torn = FALSE]
    BY <1>1, <1>3
  <1>9. c \in Cpus
    BY <1>1, <1>4, <1>5, <1>7, <1>8 DEF Cpus
  <1>10. /\ c.nmi = cpu.nmi /\ c.nmi_latch = cpu.nmi_latch /\ c.owed = cpu.owed
         /\ c.active = cpu.active /\ c.md = cpu.md /\ c.stack = stack
         /\ c.handlers = handlers /\ c.torn = FALSE /\ c.diverted = cpu.diverted
    BY <1>1, <1>8 DEF Cpus
  <1> HIDE DEF c
  <1>11. Owing(c) /\ ~c.torn /\ All(c) = All(cpu)
    BY <1>1, <1>10 DEF Owing, All
  <1>12. Pushed(c)
    <2>1. SUFFICES ASSUME NEW i \in 1..Len(stack)
                   PROVE  stack[i].regs = IF "E" \in stack[i].cc THEN All(cpu) ELSE "short"
      BY <1>10, <1>11 DEF Pushed
    <2>2. i \in 1..(n - 1) /\ stack[i] = cpu.stack[i] /\ i \in 1..Len(cpu.stack)
      BY <1>2, <1>4
    <2> QED
      BY <1>1, <2>2 DEF Pushed
  <1>13. Framed(c, FALSE)
    <2>1. Len(c.stack) >= Len(c.handlers) /\ (~c.diverted => Len(c.stack) = Len(c.handlers))
      BY <1>1, <1>2, <1>4, <1>5, <1>10 DEF Framed
    <2>2. ASSUME ~c.diverted, NEW i \in 1..Len(c.handlers)
          PROVE  Permits(c.stack[i], c.handlers[i])
      <3>1. /\ i \in 1..Len(cpu.handlers)
            /\ c.stack[i] = cpu.stack[i] /\ c.handlers[i] = cpu.handlers[i]
        BY <2>2, <1>2, <1>4, <1>5, <1>10
      <3> QED
        BY <3>1, <2>2, <1>1, <1>10 DEF Framed
    <2> QED
      BY <2>1, <2>2, <1>2, <1>4, <1>5, <1>10 DEF Framed
  <1>14. Accounted(c, FALSE)
    BY <1>9, <1>11, <1>12, <1>13 DEF Accounted
  <1> QED
    BY <1>1, <1>6, <1>14, InstructionInv

LEMMA CpuNextInv == CpuInv /\ [CpuNext]_cpu => CpuInv'
  <1> SUFFICES ASSUME CpuInv, [CpuNext]_cpu PROVE CpuInv'
    OBVIOUS
  <1>1. CASE UNCHANGED cpu
    BY <1>1 DEF CpuInv, Waiting
  <1>2. CASE \E level \in BOOLEAN : SetNMI(level)
    BY <1>2, SetNMIInv
  <1>3. ASSUME NEW levels \in SUBSET Levels,
               \/ CwaiCheckHalt(levels) \/ Sync(levels) \/ Tfm(levels) \/ TfmWrite(levels)
               \/ LoadS(levels) \/ RTI(levels) \/ HCF(levels)
               \/ \E masks \in SUBSET {"F", "I"} :
                     ChangeMasks(masks, levels) \/ CWAI(masks, levels)
               \/ \E md \in ModeSets : LDMD(md, levels)
        PROVE  CpuInv'
    BY <1>3, CwaiCheckHaltInv, SamplesInv, LoadSInv, RTIInv, HCFInv, ChangeMasksInv, CWAIInv,
       LDMDInv
  <1>4. CASE \E mask \in {{}, {"F", "I"}} : SWI(mask)
    BY <1>4, SWIInv
  <1>5. CASE ResetCpu \/ SetPC \/ ResetState \/ LabelB \/ DispatchIrq
    BY <1>5, ResetCpuInv, SetPCInv, ResetStateInv, LabelBInv, DispatchIrqInv
  <1>6. CASE SyncCheckHalt \/ Halted \/ Hcf \/ Prefix \/ SYNC \/ TFM
    <2>1. {} \in SUBSET Levels
      OBVIOUS
    <2> QED
      BY <1>6, <2>1, SamplesInv
  <1> QED
    BY <1>1, <1>2, <1>3, <1>4, <1>5, <1>6 DEF CpuNext

(* Wherever interrupts, HALT, SYNC, CWAI and an interrupted TFM fall between cycles,
   every push is followed by its one handler and RTI pulls what was pushed; a handler is
   entered only if the mask allowed it when its frame was pushed, and a latched NMI is
   owed its handler (mc6809.c:253-356, 1356-1361, 1477-1503).  It holds for
   any depth of nesting and any set of modes a program switches between. *)
THEOREM FramesMatch == CpuSpec => []InterruptsAccounted
  <1>1. CpuInv => InterruptsAccounted
    <2> SUFFICES ASSUME CpuInv PROVE InterruptsAccounted
      OBVIOUS
    <2>1. cpu \in Cpus /\ Owing(cpu) /\ ~cpu.torn
      BY DEF CpuInv, Accounted
    <2>2. (Waiting(cpu) => Framed(cpu, TRUE)) /\ (~Waiting(cpu) => Framed(cpu, FALSE))
      BY DEF CpuInv, Accounted
    <2>3. ASSUME ~cpu.diverted
          PROVE  /\ Len(cpu.stack) = Len(cpu.handlers) + (IF Waiting(cpu) THEN 1 ELSE 0)
                 /\ \A i \in 1..Len(cpu.handlers) : Permits(cpu.stack[i], cpu.handlers[i])
      BY <2>2, <2>3 DEF Framed
    <2>4. DOMAIN cpu.handlers = 1..Len(cpu.handlers)
      BY <2>1 DEF Cpus
    <2> QED
      BY <2>1, <2>3, <2>4 DEF InterruptsAccounted, CpuOK, Owing, Permits, Waiting
  <1> QED
    BY <1>1, CpuInitInv, CpuNextInv, PTL DEF CpuSpec

-----------------------------------------------------------------------------
(* Breakpoints *)

(* A list in which no breakpoint is twice. *)
Distinct(list) ==
    /\ list \in Seq(Bps)
    /\ \A i, j \in 1..Len(list) : list[i] = list[j] => i = j

(* The breakpoints of a list from b on. *)
Onward(list, b) ==
    {list[j] : j \in {j \in 1..Len(list) : \E i \in 1..j : list[i] = b}}

(* b is in the list, or the end of it. *)
On(list, b) == b = NoBp \/ \E i \in 1..Len(list) : list[i] = b

LEMMA RemoveFirstIs ==
    ASSUME NEW list, Distinct(list), NEW k \in 1..Len(list)
    PROVE  LET s == RemoveFirst(list, list[k])
           IN  /\ Distinct(s) /\ Len(s) = Len(list) - 1
               /\ \A i \in 1..Len(s) : s[i] = IF i < k THEN list[i] ELSE list[i + 1]
  <1>1. {i \in 1..Len(list) : list[i] = list[k]} = {k}
    BY DEF Distinct
  <1>2. Min({k}) = k
    BY DEF Min
  <1> DEFINE a == SubSeq(list, 1, k - 1)
             b == SubSeq(list, k + 1, Len(list))
             s == a \o b
  <1>3. RemoveFirst(list, list[k]) = s
    BY <1>1, <1>2 DEF RemoveFirst, SelectInSeq, RemoveAt
  <1>4. list \in Seq(Bps) /\ Len(list) \in Nat
    BY DEF Distinct
  <1>5. a \in Seq(Bps) /\ Len(a) = k - 1 /\ \A i \in 1..(k - 1) : a[i] = list[i]
    BY <1>4, SubSeqProperties
  <1>6. /\ b \in Seq(Bps) /\ Len(b) = Len(list) - k
        /\ \A i \in 1..(Len(list) - k) : b[i] = list[k + i]
    BY <1>4, SubSeqProperties
  <1> HIDE DEF a, b
  <1>7. /\ s \in Seq(Bps) /\ Len(s) = Len(list) - 1
        /\ \A i \in 1..Len(s) : s[i] = IF i <= k - 1 THEN a[i] ELSE b[i - (k - 1)]
    <2>1. /\ s \in Seq(Bps) /\ Len(s) = Len(a) + Len(b)
          /\ \A i \in 1..(Len(a) + Len(b)) : s[i] = IF i <= Len(a) THEN a[i] ELSE b[i - Len(a)]
      BY <1>5, <1>6, ConcatProperties
    <2>2. Len(a) + Len(b) = Len(list) - 1
      BY <1>4, <1>5, <1>6
    <2> QED
      BY <1>5, <2>1, <2>2
  <1> HIDE DEF s
  <1>8. ASSUME NEW i \in 1..Len(s)
        PROVE  s[i] = IF i < k THEN list[i] ELSE list[i + 1]
    <2>1. CASE i < k
      BY <1>4, <1>5, <1>7, <2>1
    <2>2. CASE i >= k
      <3>1. i - (k - 1) \in 1..(Len(list) - k) /\ k + (i - (k - 1)) = i + 1
        BY <1>4, <1>7, <2>2
      <3> QED
        <4>1. s[i] = b[i - (k - 1)]
          BY <1>7, <2>2
        <4>2. b[i - (k - 1)] = list[k + (i - (k - 1))]
          BY <1>6, <3>1
        <4> QED
          BY <2>2, <3>1, <4>1, <4>2
    <2> QED
      BY <2>1, <2>2
  <1>9. \A i, j \in 1..Len(s) : s[i] = s[j] => i = j
    <2> SUFFICES ASSUME NEW i \in 1..Len(s), NEW j \in 1..Len(s), s[i] = s[j]
                 PROVE  i = j
      OBVIOUS
    <2> DEFINE At(n) == IF n < k THEN n ELSE n + 1
    <2>1. At(i) \in 1..Len(list) /\ At(j) \in 1..Len(list)
      BY <1>4, <1>7
    <2>2. list[At(i)] = list[At(j)]
      BY <1>8
    <2>3. At(i) = At(j)
      BY <2>1, <2>2 DEF Distinct
    <2> QED
      BY <1>4, <1>7, <2>3
  <1> QED
    BY <1>3, <1>7, <1>8, <1>9 DEF Distinct

LEMMA OnwardEnd ==
    ASSUME NEW list, Distinct(list)
    PROVE  On(list, NoBp) /\ Onward(list, NoBp) = {}
  BY BreakpointsAssumption DEF Distinct, On, Onward

LEMMA OnwardFrom ==
    ASSUME NEW list, Distinct(list), NEW k \in 1..Len(list)
    PROVE  Onward(list, list[k]) = {list[j] : j \in k..Len(list)}
  <1>1. Len(list) \in Nat /\ \A i \in 1..Len(list) : list[i] = list[k] => i = k
    BY DEF Distinct
  <1>2. ASSUME NEW j \in 1..Len(list)
        PROVE  (\E i \in 1..j : list[i] = list[k]) <=> j \in k..Len(list)
    BY <1>1
  <1>3. {j \in 1..Len(list) : \E i \in 1..j : list[i] = list[k]} = k..Len(list)
    <2>1. \A j \in k..Len(list) : j \in 1..Len(list)
      BY <1>1
    <2> QED
      BY <1>2, <2>1
  <1> QED
    BY <1>3 DEF Onward

LEMMA AfterIs ==
    ASSUME NEW list, Distinct(list), NEW k \in 1..Len(list)
    PROVE  After(list, list[k]) = IF k = Len(list) THEN NoBp ELSE list[k + 1]
  <1> DEFINE later == {i \in 2..Len(list) : list[i - 1] = list[k]}
  <1>1. later = IF k = Len(list) THEN {} ELSE {k + 1}
    <2>1. \A i \in 2..Len(list) : list[i - 1] = list[k] <=> i = k + 1
      BY DEF Distinct
    <2> QED
      BY <2>1 DEF Distinct
  <1>2. After(list, list[k]) = IF later = {} THEN NoBp ELSE list[CHOOSE i \in later : TRUE]
    BY DEF After
  <1> HIDE DEF later
  <1> QED
    BY <1>1, <1>2

(* Beyond b there is what comes after it, and on. *)
LEMMA OnwardAfter ==
    ASSUME NEW list, Distinct(list), NEW k \in 1..Len(list)
    PROVE  /\ On(list, After(list, list[k]))
           /\ Onward(list, list[k]) = {list[k]} \union Onward(list, After(list, list[k]))
           /\ list[k] \notin Onward(list, After(list, list[k]))
  <1>1. list \in Seq(Bps) /\ Len(list) \in Nat /\ NoBp \notin Bps
    BY BreakpointsAssumption DEF Distinct
  <1>2. ASSUME NEW i \in 1..Len(list)
        PROVE  Onward(list, list[i]) = {list[j] : j \in i..Len(list)}
    BY OnwardFrom
  <1>4. CASE k = Len(list)
    <2>1. {list[j] : j \in k..Len(list)} = {list[k]}
      <3>1. \A j \in k..Len(list) : j = k
        BY <1>1, <1>4
      <3>2. k \in k..Len(list)
        BY <1>1, <1>4
      <3> QED
        BY <3>1, <3>2
    <2> QED
      BY <1>2, <1>4, <2>1, AfterIs, OnwardEnd
  <1>5. CASE k # Len(list)
    <2>1. k + 1 \in 1..Len(list) /\ After(list, list[k]) = list[k + 1]
      BY <1>1, <1>5, AfterIs
    <2>2. {list[j] : j \in k..Len(list)} = {list[k]} \union {list[j] : j \in (k + 1)..Len(list)}
      BY <1>1, <1>5
    <2>3. list[k] \notin {list[j] : j \in (k + 1)..Len(list)}
      BY <1>1, <1>5 DEF Distinct
    <2> QED
      BY <1>2, <2>1, <2>2, <2>3 DEF On
  <1> QED
    BY <1>4, <1>5

LEMMA OnwardFirst ==
    ASSUME NEW list, Distinct(list)
    PROVE  On(list, First(list)) /\ Onward(list, First(list)) = ToSet(list)
  <1>1. list \in Seq(Bps) /\ Len(list) \in Nat /\ DOMAIN list = 1..Len(list) /\ NoBp \notin Bps
    BY BreakpointsAssumption DEF Distinct
  <1>2. CASE list = <<>>
    BY <1>1, <1>2 DEF First, On, Onward, ToSet
  <1>3. CASE list # <<>>
    <2>1. 1 \in 1..Len(list) /\ First(list) = list[1]
      BY <1>1, <1>3 DEF First
    <2> QED
      BY <1>1, <2>1 DEF On, Onward, ToSet
  <1> QED
    BY <1>2, <1>3

(* What is removed is put out of the list and of what is onward of another. *)
LEMMA RemovedOnward ==
    ASSUME NEW list, Distinct(list), NEW k \in 1..Len(list), NEW b, b # list[k], On(list, b)
    PROVE  LET s == RemoveFirst(list, list[k])
           IN  On(s, b) /\ Onward(s, b) = Onward(list, b) \ {list[k]}
  <1> DEFINE s == RemoveFirst(list, list[k])
  <1>1. list \in Seq(Bps) /\ Len(list) \in Nat /\ NoBp \notin Bps
    BY BreakpointsAssumption DEF Distinct
  <1>2. /\ Distinct(s) /\ Len(s) = Len(list) - 1 /\ s \in Seq(Bps)
        /\ \A i \in 1..Len(s) : s[i] = IF i < k THEN list[i] ELSE list[i + 1]
    BY RemoveFirstIs DEF Distinct
  <1> HIDE DEF s
  <1>3. CASE b = NoBp
    BY <1>2, <1>3, OnwardEnd DEF s
  <1>4. ASSUME NEW n \in 1..Len(list), b = list[n]
        PROVE  On(s, b) /\ Onward(s, b) = Onward(list, b) \ {list[k]}
    <2> DEFINE m == IF n < k THEN n ELSE n - 1
    <2>1. n # k /\ m \in 1..Len(s) /\ s[m] = b
      BY <1>1, <1>2, <1>4
    <2>2. Onward(s, b) = {s[j] : j \in m..Len(s)}
      BY <1>2, <2>1, OnwardFrom
    <2>3. Onward(list, b) = {list[j] : j \in n..Len(list)}
      BY <1>1, <1>4, OnwardFrom
    <2>4. {s[j] : j \in m..Len(s)} \subseteq {list[j] : j \in n..Len(list)} \ {list[k]}
      <3> SUFFICES ASSUME NEW j \in m..Len(s)
                   PROVE  \E i \in n..Len(list) : s[j] = list[i] /\ i # k
        BY <1>1 DEF Distinct
      <3> DEFINE i == IF j < k THEN j ELSE j + 1
      <3>1. i \in n..Len(list) /\ s[j] = list[i] /\ i # k
        BY <1>1, <1>2, <2>1
      <3> QED
        BY <3>1
    <2>5. {list[j] : j \in n..Len(list)} \ {list[k]} \subseteq {s[j] : j \in m..Len(s)}
      <3> SUFFICES ASSUME NEW j \in n..Len(list), j # k
                   PROVE  \E i \in m..Len(s) : list[j] = s[i]
        OBVIOUS
      <3> DEFINE i == IF j < k THEN j ELSE j - 1
      <3>1. i \in m..Len(s) /\ list[j] = s[i]
        BY <1>1, <1>2, <2>1
      <3> QED
        BY <3>1
    <2> QED
      BY <2>1, <2>2, <2>3, <2>4, <2>5 DEF On
  <1> QED
    BY <1>3, <1>4 DEF On, s

(* What is added goes in front. *)
LEMMA AddedOnward ==
    ASSUME NEW list, Distinct(list), NEW b \in Bps, ~Contains(list, b)
    PROVE  LET s == <<b>> \o list
           IN  /\ Distinct(s) /\ ToSet(s) = ToSet(list) \union {b}
               /\ \A c : On(list, c) => On(s, c) /\ Onward(s, c) = Onward(list, c)
  <1> DEFINE s == <<b>> \o list
  <1>1. list \in Seq(Bps) /\ Len(list) \in Nat /\ NoBp \notin Bps
    BY BreakpointsAssumption DEF Distinct
  <1>2. /\ s \in Seq(Bps) /\ Len(s) = Len(list) + 1 /\ s[1] = b
        /\ \A i \in 1..Len(list) : s[i + 1] = list[i]
    <2>1. <<b>> \in Seq(Bps) /\ Len(<<b>>) = 1
      OBVIOUS
    <2>2. /\ s \in Seq(Bps) /\ Len(s) = 1 + Len(list)
          /\ \A i \in 1..(1 + Len(list)) : s[i] = IF i <= 1 THEN <<b>>[i] ELSE list[i - 1]
      BY <1>1, <2>1, ConcatProperties
    <2> QED
      BY <1>1, <2>2
  <1> HIDE DEF s
  <1>3. Distinct(s)
    <2>1. \A i \in 2..Len(s) : i - 1 \in 1..Len(list) /\ s[i] = list[i - 1] /\ s[i] # b
      <3> TAKE i \in 2..Len(s)
      <3>1. i - 1 \in 1..Len(list) /\ (i - 1) + 1 = i
        BY <1>1, <1>2
      <3> QED
        BY <3>1, <1>2 DEF Contains
    <2>2. ASSUME NEW i \in 1..Len(s), NEW j \in 1..Len(s), s[i] = s[j]
          PROVE  i = j
      <3>1. CASE i = 1 \/ j = 1
        BY <1>2, <2>1, <2>2, <3>1
      <3>2. CASE i # 1 /\ j # 1
        <4>1. i \in 2..Len(s) /\ j \in 2..Len(s)
          BY <1>2, <3>2
        <4>2. i - 1 = j - 1
          BY <2>1, <2>2, <4>1 DEF Distinct
        <4> QED
          BY <4>1, <4>2
      <3> QED
        BY <3>1, <3>2
    <2> QED
      BY <1>2, <2>2 DEF Distinct
  <1>4. ToSet(s) = ToSet(list) \union {b}
    <2>1. DOMAIN s = 1..Len(s) /\ DOMAIN list = 1..Len(list)
      BY <1>1, <1>2
    <2>2. \A i \in 1..Len(s) : i = 1 \/ i - 1 \in 1..Len(list)
      BY <1>1, <1>2
    <2>3. \A i \in 1..Len(list) : i + 1 \in 1..Len(s)
      BY <1>1, <1>2
    <2>4. 1 \in 1..Len(s)
      BY <1>1, <1>2
    <2>5. ToSet(s) \subseteq ToSet(list) \union {b}
      <3>1. ASSUME NEW i \in 1..Len(s)
            PROVE  s[i] = b \/ s[i] \in ToSet(list)
        <4>1. CASE i = 1
          BY <4>1, <1>2
        <4>2. CASE i - 1 \in 1..Len(list)
          <5>1. (i - 1) + 1 = i /\ s[(i - 1) + 1] = list[i - 1]
            BY <4>2, <1>2
          <5> QED
            BY <4>2, <5>1, <2>1 DEF ToSet
        <4> QED
          BY <4>1, <4>2, <2>2
      <3> QED
        BY <3>1, <2>1 DEF ToSet
    <2>6. ToSet(list) \union {b} \subseteq ToSet(s)
      BY <1>1, <1>2, <2>1, <2>3, <2>4 DEF ToSet
    <2> QED
      BY <2>5, <2>6
  <1>5. ASSUME NEW c, On(list, c)
        PROVE  On(s, c) /\ Onward(s, c) = Onward(list, c)
    <2>1. CASE c = NoBp
      BY <1>3, <2>1, OnwardEnd
    <2>2. ASSUME NEW n \in 1..Len(list), c = list[n]
          PROVE  On(s, c) /\ Onward(s, c) = Onward(list, c)
      <3>1. n + 1 \in 1..Len(s) /\ s[n + 1] = c
        BY <1>1, <1>2, <2>2
      <3>2. Onward(s, c) = {s[j] : j \in (n + 1)..Len(s)}
        BY <1>3, <3>1, OnwardFrom
      <3>3. Onward(list, c) = {list[j] : j \in n..Len(list)}
        BY <1>1, <2>2, OnwardFrom
      <3>4. \A j \in (n + 1)..Len(s) : j - 1 \in n..Len(list) /\ s[j] = list[j - 1]
        BY <1>1, <1>2
      <3>5. \A j \in n..Len(list) : j + 1 \in (n + 1)..Len(s) /\ s[j + 1] = list[j]
        BY <1>1, <1>2
      <3>6. /\ {s[j] : j \in (n + 1)..Len(s)} \subseteq {list[j] : j \in n..Len(list)}
            /\ {list[j] : j \in n..Len(list)} \subseteq {s[j] : j \in (n + 1)..Len(s)}
        <4>1. ASSUME NEW j \in (n + 1)..Len(s)
              PROVE  s[j] \in {list[i] : i \in n..Len(list)}
          BY <3>4
        <4>2. ASSUME NEW j \in n..Len(list)
              PROVE  list[j] \in {s[i] : i \in (n + 1)..Len(s)}
          BY <3>5
        <4> QED
          BY <4>1, <4>2
      <3> QED
        BY <3>1, <3>2, <3>3, <3>6 DEF On
    <2> QED
      BY <1>5, <2>1, <2>2 DEF On
  <1> QED
    BY <1>3, <1>4, <1>5 DEF s

(* However far the walk has come, what it has still to call is onward of where it is, or
   in a handler of where it will go on: both move with what is removed. *)
BpInv ==
    /\ BpOK
    /\ Distinct(instruction_list)
    /\ On(instruction_list, iter_next)
    /\ due \subseteq ToSet(instruction_list)
    /\ \A b \in due : Address[b] = cur_pc
    /\ walk = "walking" => On(instruction_list, iter)
    /\ walk = "walking" /\ ~nested => due \ called \subseteq Onward(instruction_list, iter)
    /\ walk = "handling" /\ ~nested => due \ called \subseteq Onward(instruction_list, iter_next)

LEMMA BpInitInv == BpInit => BpInv
  <1> SUFFICES ASSUME BpInit PROVE BpInv
    OBVIOUS
  <1>1. <<>> \in Seq(Bps) /\ Len(<<>>) = 0
    OBVIOUS
  <1> QED
    <2>1. BpOK
      BY <1>1 DEF BpInit, BpOK
    <2>2. Distinct(instruction_list) /\ On(instruction_list, iter_next)
      BY <1>1 DEF BpInit, Distinct, On
    <2>3. due = {} /\ walk = "idle"
      BY DEF BpInit
    <2> QED
      BY <2>1, <2>2, <2>3 DEF BpInv

LEMMA BpAddInv ==
    ASSUME BpInv, NEW b \in Bps, BpAdd(b)
    PROVE  BpInv'
  <1> DEFINE list == instruction_list
  <1>1. Distinct(list) /\ ~Contains(list, b) /\ walk # "walking"
    BY DEF BpInv, BpAdd
  <1>2. list' = <<b>> \o list
    BY DEF BpAdd
  <1>3. /\ Distinct(list') /\ ToSet(list') = ToSet(list) \union {b}
        /\ On(list', iter_next) /\ Onward(list', iter_next) = Onward(list, iter_next)
    BY <1>1, <1>2, AddedOnward DEF BpInv
  <1> QED
    BY <1>1, <1>3 DEF BpInv, BpOK, BpAdd, Distinct

LEMMA BpRemoveInv ==
    ASSUME BpInv, NEW b \in Bps, BpRemove(b)
    PROVE  BpInv'
  <1> DEFINE list == instruction_list
  <1>1. Distinct(list) /\ Contains(list, b) /\ walk # "walking" /\ On(list, iter_next)
    BY DEF BpInv, BpRemove
  <1>2. list' = RemoveFirst(list, b)
    BY DEF BpRemove
  <1>3. PICK k \in 1..Len(list) : list[k] = b
    BY <1>1 DEF Contains
  <1>4. /\ Distinct(list') /\ Len(list') = Len(list) - 1
        /\ \A i \in 1..Len(list') : list'[i] = IF i < k THEN list[i] ELSE list[i + 1]
    BY <1>1, <1>2, <1>3, RemoveFirstIs
  <1> DEFINE next == IF iter_next = b THEN After(list, b) ELSE iter_next
  <1>5. iter_next' = next /\ due' = due \ {b}
    BY DEF BpRemove
  <1>6. /\ next # b /\ On(list, next)
        /\ Onward(list, iter_next) \ {b} = Onward(list, next) \ {b}
    <2>1. CASE iter_next = b
      <3>1. /\ On(list, After(list, b)) /\ b \notin Onward(list, After(list, b))
            /\ Onward(list, b) = {b} \union Onward(list, After(list, b))
        BY <1>1, <1>3, OnwardAfter
      <3>2. After(list, b) # b
        BY <1>1, <1>3, AfterIs, BreakpointsAssumption DEF Distinct
      <3> QED
        BY <2>1, <3>1, <3>2
    <2>2. CASE iter_next # b
      BY <2>2, <1>1
    <2> QED
      BY <2>1, <2>2
  <1> HIDE DEF next
  <1>7. On(list', next) /\ Onward(list', next) = Onward(list, next) \ {b}
    BY <1>1, <1>2, <1>3, <1>6, RemovedOnward
  <1>8. ToSet(list) \ {b} \subseteq ToSet(list')
    <2>1. On(list, First(list)) /\ Onward(list, First(list)) = ToSet(list)
      BY <1>1, OnwardFirst
    <2>2. list \in Seq(Bps) /\ Len(list) \in Nat /\ list' \in Seq(Bps)
      BY <1>1, <1>4 DEF Distinct
    <2>3. DOMAIN list = 1..Len(list) /\ DOMAIN list' = 1..Len(list')
      BY <2>2
    <2>4. ASSUME NEW j \in 1..Len(list), j # k
          PROVE  \E i \in 1..Len(list') : list'[i] = list[j]
      <3>1. CASE j < k
        <4>1. j \in 1..Len(list') /\ list'[j] = list[j]
          BY <3>1, <1>4, <2>2
        <4> QED
          BY <4>1
      <3>2. CASE j > k
        <4>1. j - 1 \in 1..Len(list') /\ ~(j - 1 < k) /\ (j - 1) + 1 = j
          BY <3>2, <1>4, <2>2
        <4> QED
          BY <4>1, <1>4
      <3> QED
        BY <2>4, <3>1, <3>2
    <2> QED
      BY <1>3, <2>3, <2>4 DEF ToSet
  <1>9. list' \in Seq(Bps) /\ iter_next' \in Bps \union {NoBp}
    BY <1>4, <1>5, <1>7 DEF On, Distinct
  <1>10. BpOK'
    BY <1>9 DEF BpRemove, BpInv, BpOK
  <1>11. due' \subseteq ToSet(list')
    BY <1>5, <1>8 DEF BpInv
  <1>12. walk' = "handling" /\ ~nested' => due' \ called' \subseteq Onward(list', iter_next')
    BY <1>5, <1>6, <1>7 DEF BpInv, BpRemove
  <1> QED
    BY <1>1, <1>4, <1>5, <1>7, <1>10, <1>11, <1>12 DEF BpInv, BpRemove

(* A pass begins with all that is due ahead of it. *)
LEMMA PassInv ==
    ASSUME BpInv, NEW p \in Pcs, Pass(p), UNCHANGED <<instruction_list, watched>>,
           pc' \in Pcs, cur_pc' = p, iter_next' \in {iter_next, NoBp}
    PROVE  BpInv'
  <1> DEFINE list == instruction_list
  <1>1. Distinct(list) /\ list' = list
    BY DEF BpInv
  <1>2. On(list, First(list)) /\ Onward(list, First(list)) = ToSet(list) /\ On(list, NoBp)
    BY <1>1, OnwardFirst, OnwardEnd
  <1>3. ToSet(list) \subseteq Bps
    BY <1>1 DEF ToSet, Distinct
  <1>4. iter' = First(list) /\ due' \subseteq ToSet(list) /\ walk' = "walking" /\ called' = {}
        /\ nested' = FALSE /\ \A b \in due' : Address[b] = cur_pc'
    BY DEF Pass
  <1>5. First(list) \in Bps \union {NoBp}
    BY <1>1, <1>2 DEF On, Distinct
  <1>6. BpOK'
    BY <1>1, <1>3, <1>4, <1>5 DEF BpInv, BpOK
  <1> QED
    BY <1>1, <1>2, <1>4, <1>6 DEF BpInv

LEMMA BpHookInv == ASSUME BpInv, BpHook PROVE BpInv'
  <1> DEFINE list == instruction_list
  <1>1. Distinct(list) /\ walk = "walking" /\ iter # NoBp /\ On(list, iter) /\ list' = list
    BY DEF BpInv, BpHook
  <1>2. PICK k \in 1..Len(list) : list[k] = iter
    BY <1>1 DEF On
  <1>3. /\ On(list, iter_next') /\ iter_next' = After(list, iter)
        /\ Onward(list, iter) = {iter} \union Onward(list, iter_next')
    BY <1>1, <1>2, OnwardAfter DEF BpHook
  <1>4. iter_next' \in Bps \union {NoBp}
    BY <1>1, <1>3 DEF On, Distinct
  <1>5. CASE Address[iter] = cur_pc
    <2>1. walk' = "handling" /\ called' = called \union {iter} /\ iter' = iter
      BY <1>5 DEF BpHook
    <2>2. BpOK'
      BY <1>1, <1>4, <2>1 DEF BpHook, BpInv, BpOK
    <2> QED
      BY <1>1, <1>3, <2>1, <2>2 DEF BpHook, BpInv
  <1>6. CASE Address[iter] # cur_pc
    <2>1. walk' = walk /\ called' = called /\ iter' = iter_next'
      BY <1>6 DEF BpHook
    <2>2. BpOK'
      BY <1>1, <1>4, <2>1 DEF BpHook, BpInv, BpOK
    <2>3. iter \notin due
      BY <1>6 DEF BpInv
    <2> QED
      BY <1>1, <1>3, <2>1, <2>2, <2>3 DEF BpHook, BpInv
  <1> QED
    BY <1>5, <1>6

LEMMA BpNextInv == BpInv /\ [BpNext]_bpVars => BpInv'
  <1> SUFFICES ASSUME BpInv, [BpNext]_bpVars PROVE BpInv'
    OBVIOUS
  <1>1. CASE UNCHANGED bpVars
    BY <1>1 DEF bpVars, BpInv, BpOK
  <1>2. CASE \E b \in Bps : BpAdd(b) \/ BpRemove(b)
    BY <1>2, BpAddInv, BpRemoveInv
  <1>3. ASSUME NEW p \in Pcs, BpInstructionHook(p)
        PROVE  BpInv'
    BY <1>3, PassInv DEF BpInstructionHook, Pass
  <1>4. ASSUME NEW p \in Pcs, HandlerJumps(p)
        PROVE  BpInv'
    BY <1>4 DEF HandlerJumps, BpInv, BpOK
  <1>5. CASE Watch
    BY <1>5 DEF Watch, BpInv, BpOK
  <1>6. CASE BpHook
    BY <1>6, BpHookInv
  <1>7. CASE HandlerReads
    <2>1. On(instruction_list, NoBp)
      BY OnwardEnd DEF BpInv
    <2> QED
      BY <1>7, <2>1 DEF HandlerReads, BpInv, BpOK
  <1>8. CASE HandlerEnds
    BY <1>8 DEF HandlerEnds, BpInv, BpOK
  <1>9. CASE PassEnds
    <2>1. On(instruction_list, NoBp)
      BY OnwardEnd DEF BpInv
    <2>2. CASE pc # cur_pc /\ Pass(pc)
      <3>1. pc \in Pcs /\ pc' = pc /\ iter_next' = NoBp /\ UNCHANGED <<instruction_list, watched>>
        BY <1>9 DEF PassEnds, BpInv, BpOK
      <3>2. cur_pc' = pc
        BY <2>2 DEF Pass
      <3> QED
        BY <2>2, <3>1, <3>2, PassInv
    <2>3. CASE ~(pc # cur_pc /\ Pass(pc))
      BY <1>9, <2>1, <2>3 DEF PassEnds, BpInv, BpOK
    <2> QED
      BY <2>2, <2>3
  <1> QED
    BY <1>1, <1>2, <1>3, <1>4, <1>5, <1>6, <1>7, <1>8, <1>9 DEF BpNext

(* However handlers change the list under the walk, it never comes to a breakpoint that
   has gone, and at the end of a pass all that was due has been called, but for the
   handlers that read memory past a watchpoint (breakpoint.c:76-97, 212-232).  It holds
   for any breakpoints at any addresses. *)
THEOREM WalkHears == BpSpec => []BreakpointsHeard
  <1>1. BpInv => BreakpointsHeard
    <2> SUFFICES ASSUME BpInv PROVE BreakpointsHeard
      OBVIOUS
    <2>1. ASSUME NEW b, On(instruction_list, b)
          PROVE  {b} \ {NoBp} \subseteq ToSet(instruction_list)
      BY <2>1 DEF On, ToSet, BpInv, Distinct
    <2>2. Onward(instruction_list, NoBp) = {}
      BY OnwardEnd DEF BpInv
    <2> QED
      BY <2>1, <2>2 DEF BpInv, BreakpointsHeard
  <1> QED
    BY <1>1, BpInitInv, BpNextInv, PTL DEF BpSpec


-----------------------------------------------------------------------------
(* Frames and the timer of the GIME *)

ActiveFrom == SyncLines + TopLines(vreg)
ActiveTo == ActiveFrom + ActiveLines(vreg)

(* A frame that keeps its shape has come to the line its counts say, and a top border
   is as long as the mode has it until the bottom border begins. *)
Latched ==
    /\ vert.lF = FrameLines[vreg.H50] /\ vert.lAA = ActiveLines(vreg)
    /\ vert.lTB \in {TopLines(vreg), Endless}
    /\ LinesDone \in 0..(vert.lF - 1) /\ vert.lcount <= LinesDone
    /\ (vert.sync <=> LinesDone < SyncLines) /\ (vert.fs <=> LinesDone >= 4)
    /\ vert.sync => vert.lcount = LinesDone

Bordered ==
    /\ LinesDone < ActiveTo => vert.lTB = TopLines(vreg) /\ shot.vbords = 0
    /\ LinesDone < ActiveFrom => ~vert.active_area
    /\ ~vert.sync /\ LinesDone < ActiveFrom => vert.lcount = LinesDone - SyncLines
    /\ LinesDone >= ActiveFrom /\ LinesDone < ActiveTo =>
          vert.active_area /\ vert.lcount = LinesDone - ActiveFrom
    /\ LinesDone >= ActiveTo =>
          ~vert.active_area /\ vert.lcount = LinesDone - ActiveTo /\ shot.vbords = 1

Unbordered ==
    LET ends == SyncLines + ActiveLines(vreg)
    IN  /\ LinesDone < ends => vert.active_area
        /\ ~vert.sync /\ LinesDone < ends => vert.lcount = LinesDone - SyncLines
        /\ LinesDone >= ends => ~vert.active_area /\ vert.lTB = Endless

(* After n lines of an active area whose first row is numbered first, e rows have ended
   and p lines of the next are shown; LPR 7 has one row. *)
Reached(first, mask, e, p, n) ==
    /\ IF mask = 16 THEN e = 0 ELSE p < LinesToEnd(IF e = 0 THEN first ELSE 0, mask)
    /\ n = IF e = 0 THEN p ELSE LinesToEnd(first, mask) + (e - 1) * LinesToEnd(0, mask) + p

(* The row of a line goes on at its end. *)
Shown(e, p, n) ==
    LET mask == Rowmask(vreg)
        start == IF e = 0 THEN FirstRow(vreg) ELSE 0
    IN  /\ Reached(FirstRow(vreg), mask, e, p, n)
        /\ vert.row = (start + p + (IF vert.next = "hb" THEN 0 ELSE 1)) % 16
        /\ vert.next # "hb" => vert.row_advance = Full(vert.row, mask)
        /\ vert.row_stride = RowStride(vreg)
        /\ vert.B = shot.base + RowStride(vreg) * e

Rowed ==
    /\ ~vert.sync /\ LinesDone < ActiveFrom => vert.B = shot.base
    /\ shot.rows =>
          /\ LinesDone >= ActiveFrom
          /\ LinesDone < ActiveTo => \E e, p \in Nat : Shown(e, p, LinesDone - ActiveFrom)
          /\ LinesDone >= ActiveTo =>
                vert.B = shot.base + RowStride(vreg)
                              * RowsEnded(FirstRow(vreg), Rowmask(vreg), ActiveLines(vreg))

FramesInv ==
    /\ vreg \in Settings /\ Y \in Offsets /\ vert \in Verts /\ shot \in Shots /\ tmr \in Timers
    /\ TimerCounts
    /\ shot.shape =>
          /\ Latched
          /\ shot.carried /\ ~shot.rewritten => Unbordered
          /\ ~shot.carried => Bordered /\ Rowed


(* What a mode comes to, in the bounds the tables have. *)
LEMMA ModeBounds ==
    ASSUME NEW r \in Settings
    PROVE  /\ r \in [COCO : BOOLEAN, H50 : BOOLEAN, BP : BOOLEAN, LPR : 0..7, LPF : 0..3,
                     HRES : 0..7, CRES : 0..3, VSC : 0..15, HVEN : BOOLEAN, GnA : BOOLEAN,
                     V : 0..7, F : 0..127]
           /\ TopLines(r) \in Nat \ {0} /\ ActiveLines(r) \in Nat \ {0}
           /\ FrameLines[r.H50] \in Nat /\ SyncLines < FrameLines[r.H50]
           /\ FrameLines[r.H50] < Endless /\ Endless \in Nat
           /\ \/ TopLines(r) >= FrameLines[r.H50]
              \/ LET end == SyncLines + TopLines(r) + ActiveLines(r)
                 IN  end < FrameLines[r.H50] /\ FrameLines[r.H50] - 1 - end < TopLines(r)
  <1>1. r \in [COCO : BOOLEAN, H50 : BOOLEAN, BP : BOOLEAN, LPR : 0..7, LPF : 0..3,
               HRES : 0..7, CRES : 0..3, VSC : 0..15, HVEN : BOOLEAN, GnA : BOOLEAN,
               V : 0..7, F : 0..127]
    BY GimeAssumption
  <1> DEFINE p == IF r.COCO THEN 0 ELSE r.LPF
  <1>2. r.H50 \in BOOLEAN /\ p \in 0..3 /\ (p # 2 => p \in {0, 1, 3})
    BY <1>1
  <1>3. Fits(Tables)
    BY GimeAssumption
  <1>4. /\ VRES_LPF_lTB \in [BOOLEAN -> [0..3 -> Nat]] /\ VRES_LPF_lAA \in [0..3 -> Nat \ {0}]
        /\ FrameLines \in [BOOLEAN -> 0..(Endless - 1)]
        /\ \A h \in BOOLEAN :
              /\ VRES_LPF_lTB[h][2] >= FrameLines[h]
              /\ \A q \in {0, 1, 3} :
                    LET end == SyncLines + VRES_LPF_lTB[h][q] + VRES_LPF_lAA[q]
                    IN  /\ end < FrameLines[h]
                        /\ FrameLines[h] - 1 - end < VRES_LPF_lTB[h][q]
    BY <1>3 DEF Fits, Tables
  <1>5. TopLines(r) = VRES_LPF_lTB[r.H50][p] /\ ActiveLines(r) = VRES_LPF_lAA[p]
    BY DEF TopLines, ActiveLines
  <1>6. /\ VRES_LPF_lTB[r.H50] \in [0..3 -> Nat] /\ TopLines(r) \in Nat
        /\ ActiveLines(r) \in Nat \ {0}
        /\ FrameLines[r.H50] \in Nat /\ FrameLines[r.H50] < Endless /\ Endless \in Nat
    <2>1. Endless \in Nat
      BY DEF Endless
    <2> HIDE DEF p
    <2> QED
      BY <1>2, <1>4, <1>5, <2>1
  <1> USE DEF SyncLines
  <1>9. FrameLines[r.H50] > 7
    <2>1. 7 + VRES_LPF_lTB[r.H50][0] + VRES_LPF_lAA[0] < FrameLines[r.H50]
      BY <1>2, <1>4
    <2>2. VRES_LPF_lTB[r.H50][0] \in Nat /\ VRES_LPF_lAA[0] \in Nat
      BY <1>4, <1>6
    <2> QED
      BY <1>6, <2>1, <2>2
  <1>7. CASE p = 2
    BY <1>1, <1>2, <1>4, <1>5, <1>6, <1>7, <1>9
  <1>8. CASE p # 2
    <2> HIDE DEF p
    <2>1. /\ SyncLines + TopLines(r) + ActiveLines(r) < FrameLines[r.H50]
          /\ FrameLines[r.H50] - 1 - (SyncLines + TopLines(r) + ActiveLines(r)) < TopLines(r)
      BY <1>2, <1>4, <1>5, <1>8
    <2> QED
      BY <1>1, <1>6, <1>9, <2>1
  <1> QED
    BY <1>7, <1>8

(* LPR 7 is the one whose mask no row number has. *)
LEMMA Masks ==
    ASSUME NEW r \in Settings
    PROVE  /\ Rowmask(r) \in 0..16 /\ FirstRow(r) \in 0..15 /\ RowStride(r) \in Nat
           /\ Rowmask(r) = 16 <=> ~r.COCO /\ r.LPR = 7
  <1>1. /\ r.COCO \in BOOLEAN /\ r.LPR \in 0..7 /\ r.V \in 0..7 /\ r.VSC \in 0..15
        /\ r.GnA \in BOOLEAN /\ r.BP \in BOOLEAN /\ r.HRES \in 0..7 /\ r.HVEN \in BOOLEAN
        /\ r.CRES \in 0..3
    BY ModeBounds
  <1>2. ~r.COCO => Rowmask(r) \in 0..16 /\ (Rowmask(r) = 16 <=> r.LPR = 7)
    <2>1. ~r.COCO => Rowmask(r) = <<0, 1, 2, 8, 9, 10, 11, 16>>[r.LPR + 1]
      BY <1>1 DEF Rowmask, LPR_rowmask
    <2> QED
      BY <1>1, <2>1
  <1>3. r.COCO /\ r.GnA => Rowmask(r) \in 0..15
    <2>1. r.COCO /\ r.GnA => Rowmask(r) = <<3, 3, 3, 2, 2, 1, 1, 1>>[r.V + 1]
      BY <1>1 DEF Rowmask, SAM_V_rowmask
    <2> QED
      BY <1>1, <2>1
  <1>4. r.COCO /\ ~r.GnA => Rowmask(r) \in 0..15
    <2>1. r.COCO /\ ~r.GnA => Rowmask(r) = VSC_rowmask[r.VSC]
      BY <1>1 DEF Rowmask
    <2>2. VSC_rowmask[r.VSC] \in 0..15
      BY <1>1 DEF VSC_rowmask
    <2> QED
      BY <2>1, <2>2
  <1>5. BPR(r) \in Nat
    <2>1. <<16, 20, 32, 40, 64, 80, 128, 160>>[r.HRES + 1] \in Nat
      BY <1>1
    <2>2. <<32, 40, 32, 40, 64, 80, 64, 80>>[r.HRES + 1] \in Nat
      BY <1>1
    <2> QED
      BY <1>1, <2>1, <2>2 DEF BPR
  <1>6. RowStride(r) \in Nat
    BY <1>1, <1>5 DEF RowStride
  <1>7. FirstRow(r) \in 0..15
    BY <1>1 DEF FirstRow
  <1> QED
    BY <1>1, <1>2, <1>3, <1>4, <1>6, <1>7

LEMMA Based ==
    ASSUME NEW r \in Settings, NEW y \in Offsets PROVE FrameBase(r, y) \in Nat
  <1>1. r.F \in 0..127 /\ r.COCO \in BOOLEAN /\ y \in Nat
    BY ModeBounds, GimeAssumption
  <1> QED
    BY <1>1 DEF FrameBase

(* A row number from 0 to 15 has every bit of a mask of four, and none has the fifth. *)
LEMMA LastRowFull == ASSUME NEW mask \in 0..15 PROVE Full(15, mask)
  BY DEF Full

LEMMA NoRowFull == ASSUME NEW row \in 0..15 PROVE ~Full(row, 16)
  BY DEF Full

LEMMA LeastOf16 ==
    ASSUME NEW S \in SUBSET (1..16), NEW x \in S
    PROVE  \E k \in S : \A j \in S : k <= j
  <1> SUFFICES ASSUME \A k \in S : \E j \in S : j < k PROVE FALSE
    OBVIOUS
  <1> DEFINE Above(n) == \A k \in S : k > n
  <1>1. ASSUME NEW n \in 0..15, Above(n) PROVE Above(n + 1)
    BY <1>1
  <1>2. Above(0)
    OBVIOUS
  <1>3. Above(16)
    <2> HIDE DEF Above
    <2>1. Above(1) /\ Above(2) /\ Above(3) /\ Above(4) /\ Above(5) /\ Above(6)
      BY <1>1, <1>2
    <2>2. Above(7) /\ Above(8) /\ Above(9) /\ Above(10) /\ Above(11)
      BY <1>1, <2>1
    <2> QED
      BY <1>1, <2>2
  <1> QED
    BY <1>3

(* A row ends at the first number that is full, within 16 lines. *)
LEMMA RowHasEnd ==
    ASSUME NEW row \in 0..15, NEW mask \in 0..15
    PROVE  /\ LinesToEnd(row, mask) \in 1..16 /\ Full((row + LinesToEnd(row, mask)) % 16, mask)
           /\ \A j \in 1..16 : Full((row + j) % 16, mask) => LinesToEnd(row, mask) <= j
  <1> DEFINE full == {k \in 1..16 : Full((row + k) % 16, mask)}
             x == IF row = 15 THEN 16 ELSE 15 - row
  <1>1. x \in 1..16 /\ (row + x) % 16 = 15
    OBVIOUS
  <1>2. x \in full
    BY <1>1, LastRowFull
  <1>3. \E k \in full : \A j \in full : k <= j
    <2> HIDE DEF x
    <2>1. full \in SUBSET (1..16)
      OBVIOUS
    <2> HIDE DEF full
    <2> QED
      BY <1>2, <2>1, LeastOf16
  <1>4. LinesToEnd(row, mask) \in full /\ \A j \in full : LinesToEnd(row, mask) <= j
    <2>1. LinesToEnd(row, mask) = CHOOSE k \in full : \A j \in full : k <= j
      BY DEF LinesToEnd
    <2> HIDE DEF full
    <2> QED
      BY <1>3, <2>1
  <1> QED
    BY <1>4


LEMMA RowGoesOn ==
    ASSUME NEW first \in 0..15, NEW mask \in 0..16, NEW e \in Nat, NEW p \in Nat, NEW n \in Nat,
           Reached(first, mask, e, p, n)
    PROVE  LET onto == ((IF e = 0 THEN first ELSE 0) + p + 1) % 16
           IN  IF Full(onto, mask) THEN mask # 16 /\ Reached(first, mask, e + 1, 0, n + 1)
               ELSE Reached(first, mask, e, p + 1, n + 1)
  <1> DEFINE start == IF e = 0 THEN first ELSE 0
             onto == (start + p + 1) % 16
             K == LinesToEnd(start, mask)
             K0 == LinesToEnd(0, mask)
             K1 == LinesToEnd(first, mask)
  <1>1. start \in 0..15 /\ onto \in 0..15
    OBVIOUS
  <1>2. CASE mask = 16
    <2>1. ~Full(onto, mask)
      BY <1>1, <1>2, NoRowFull
    <2> QED
      BY <1>2, <2>1 DEF Reached
  <1>3. CASE mask # 16
    <2>1. mask \in 0..15
      BY <1>3
    <2>2. /\ K \in 1..16 /\ Full((start + K) % 16, mask)
          /\ \A j \in 1..16 : Full((start + j) % 16, mask) => K <= j
      BY <1>1, <2>1, RowHasEnd
    <2>3. K0 \in 1..16 /\ K1 \in 1..16
      <3>1. 0 \in 0..15
        OBVIOUS
      <3> QED
        BY ONLY <3>1, <2>1, RowHasEnd, first \in 0..15
    <2>4. p < K /\ n = IF e = 0 THEN p ELSE K1 + (e - 1) * K0 + p
      BY <1>3 DEF Reached
    <2>5. p + 1 \in 1..16 /\ onto = (start + (p + 1)) % 16
      BY <1>1, <2>2, <2>4
    <2>6. CASE Full(onto, mask)
      <3>1. p + 1 = K
        BY <2>2, <2>4, <2>5, <2>6
      <3>2. n + 1 = K1 + e * K0
        <4>1. CASE e = 0
          BY <2>3, <2>4, <3>1, <4>1
        <4>2. CASE e # 0
          <5>1. K = K0
            BY <4>2
          <5> HIDE DEF K, K0, K1
          <5>2. e - 1 \in Nat /\ (e - 1) * K0 + K0 = e * K0
            BY <4>2, <2>3
          <5> QED
            BY <2>3, <2>4, <3>1, <4>2, <5>1, <5>2
        <4> QED
          BY <4>1, <4>2
      <3>3. Reached(first, mask, e + 1, 0, n + 1)
        <4>1. e + 1 # 0 /\ (e + 1) - 1 = e /\ 0 < K0 /\ e * K0 \in Nat
          BY <2>3
        <4>2. n + 1 = K1 + ((e + 1) - 1) * K0 + 0
          BY <2>3, <3>2, <4>1
        <4> QED
          BY <1>3, <4>1, <4>2 DEF Reached
      <3> QED
        BY <1>3, <2>6, <3>3
    <2>7. CASE ~Full(onto, mask)
      <3>1. p + 1 # K
        BY <2>2, <2>5, <2>7
      <3>2. p + 1 < K
        <4>1. K \in Nat /\ p < K
          BY <2>2, <2>4
        <4> HIDE DEF K
        <4> QED
          BY <3>1, <4>1
      <3>3. n + 1 = IF e = 0 THEN p + 1 ELSE K1 + (e - 1) * K0 + (p + 1)
        <4> HIDE DEF K, K0, K1
        <4>1. e # 0 => (e - 1) * K0 \in Nat
          BY <2>3
        <4> QED
          BY <2>3, <2>4, <4>1
      <3> QED
        BY <1>3, <2>7, <3>2, <3>3 DEF Reached
    <2> QED
      BY <2>6, <2>7
  <1> QED
    BY <1>2, <1>3

LEMMA DivUnique ==
    ASSUME NEW b \in Nat \ {0}, NEW a \in Nat, NEW q \in Nat, NEW r \in 0..(b - 1), a = q * b + r
    PROVE  a \div b = q
  <1>1. a \div b \in Nat /\ a % b \in 0..(b - 1) /\ a = b * (a \div b) + (a % b)
    OBVIOUS
  <1>2. ASSUME NEW x \in Nat, NEW y \in Nat, x < y PROVE b * y >= b * x + b
    <2>1. b * y >= b * (x + 1)
      BY <1>2
    <2> QED
      BY <2>1
  <1> QED
    BY <1>1, <1>2

LEMMA RowsAre ==
    ASSUME NEW first \in 0..15, NEW mask \in 0..16, NEW e \in Nat, NEW p \in Nat, NEW n \in Nat,
           Reached(first, mask, e, p, n)
    PROVE  RowsEnded(first, mask, n) = e
  <1>1. CASE mask = 16
    BY <1>1 DEF Reached, RowsEnded
  <1>2. CASE mask # 16
    <2> DEFINE K0 == LinesToEnd(0, mask)  K1 == LinesToEnd(first, mask)
    <2>1. K0 \in 1..16 /\ K1 \in 1..16
      <3>1. 0 \in 0..15 /\ mask \in 0..15
        BY <1>2
      <3> QED
        BY ONLY <3>1, RowHasEnd, first \in 0..15
    <2>2. CASE e = 0
      BY <1>2, <2>2 DEF Reached, RowsEnded
    <2>3. CASE e # 0
      <3>1. p < K0 /\ n = K1 + (e - 1) * K0 + p
        BY <1>2, <2>3 DEF Reached
      <3>2. RowsEnded(first, mask, n) = IF n < K1 THEN 0 ELSE 1 + (n - K1) \div K0
        BY <1>2 DEF RowsEnded
      <3> HIDE DEF K0, K1
      <3>3. e - 1 \in Nat /\ (e - 1) * K0 \in Nat
        BY <2>1, <2>3
      <3>4. n - K1 \in Nat /\ n - K1 = (e - 1) * K0 + p /\ p \in 0..(K0 - 1) /\ ~(n < K1)
        BY <2>1, <3>1, <3>3
      <3>5. (n - K1) \div K0 = e - 1
        <4> DEFINE a == n - K1  q == e - 1
        <4>1. K0 \in Nat \ {0} /\ a \in Nat /\ q \in Nat /\ a = q * K0 + p
          BY <2>1, <3>3, <3>4
        <4> HIDE DEF a, q
        <4>2. a \div K0 = q
          BY <3>4, <4>1, DivUnique
        <4> QED
          BY <4>2 DEF a, q
      <3> QED
        BY <3>2, <3>3, <3>4, <3>5
    <2> QED
      BY <2>2, <2>3
  <1> QED
    BY <1>1, <1>2


(* What the first half of the vertical border's point does to the counts. *)
LEMMA RowEndsTo ==
    ASSUME NEW v \in Verts, NEW r \in Settings
    PROVE  LET w == RowEnds(v, r)
               ends == v.active_area /\ Full(v.row, Rowmask(r))
               advances == v.active_area /\ (v.row_advance \/ ends) /\ (r.COCO \/ r.LPR # 7)
           IN  /\ w \in Verts /\ w.next = "hb"
               /\ w.lcount = v.lcount + 1 /\ w.row_stride = RowStride(r)
               /\ w.scanline = v.scanline /\ w.lF = v.lF /\ w.lTB = v.lTB /\ w.lAA = v.lAA
               /\ w.sync = v.sync /\ w.active_area = v.active_area /\ w.fs = v.fs
               /\ w.row = (IF ends THEN 0 ELSE v.row)
               /\ w.B = (IF advances THEN v.B + v.row_stride ELSE v.B)
  <1> DEFINE ends == v.active_area /\ Full(v.row, Rowmask(r))
             advances == v.active_area /\ (v.row_advance \/ ends) /\ (r.COCO \/ r.LPR # 7)
             row == IF ends THEN 0 ELSE v.row
             on == IF v.active_area THEN advances ELSE v.row_advance
             B == IF advances THEN v.B + v.row_stride ELSE v.B
  <1>1. RowEnds(v, r) = [v EXCEPT !.row = row, !.row_advance = on, !.B = B,
                                  !.row_stride = RowStride(r), !.lcount = @ + 1, !.next = "hb"]
    BY DEF RowEnds
  <1>2. RowStride(r) \in Nat
    BY Masks
  <1>3. ends \in BOOLEAN /\ advances \in BOOLEAN
    OBVIOUS
  <1>4. row \in 0..15 /\ on \in BOOLEAN /\ B \in Nat
    <2>1. v.row \in 0..15 /\ v.row_advance \in BOOLEAN /\ v.B \in Nat /\ v.row_stride \in Nat
      BY DEF Verts
    <2> HIDE DEF ends, advances
    <2> QED
      BY <1>3, <2>1
  <1> HIDE DEF row, on, B
  <1> DEFINE w == RowEnds(v, r)
  <1>5. w \in Verts
    <2>1. ASSUME NEW a \in 0..15, NEW o \in BOOLEAN, NEW b \in Nat, NEW s \in Nat, NEW l \in Nat
          PROVE  [v EXCEPT !.row = a, !.row_advance = o, !.B = b, !.row_stride = s,
                           !.lcount = l, !.next = "hb"] \in Verts
      BY DEF Verts
    <2>2. v.lcount + 1 \in Nat
      BY DEF Verts
    <2>3. [v EXCEPT !.row = row, !.row_advance = on, !.B = B, !.row_stride = RowStride(r),
                    !.lcount = v.lcount + 1, !.next = "hb"] \in Verts
      BY Zenon, <1>2, <1>4, <2>1, <2>2
    <2> QED
      BY <1>1, <2>3
  <1>6. /\ w.next = "hb" /\ w.row = row /\ w.B = B
        /\ w.lcount = v.lcount + 1 /\ w.row_stride = RowStride(r)
    BY <1>1 DEF Verts
  <1>7. /\ w.scanline = v.scanline /\ w.lF = v.lF /\ w.lTB = v.lTB /\ w.lAA = v.lAA
        /\ w.sync = v.sync /\ w.active_area = v.active_area /\ w.fs = v.fs
    BY <1>1 DEF Verts
  <1> HIDE DEF w
  <1>8. /\ w.row = (IF ends THEN 0 ELSE v.row)
        /\ w.B = (IF advances THEN v.B + v.row_stride ELSE v.B)
    BY <1>6 DEF row, B
  <1> QED
    BY <1>5, <1>6, <1>7, <1>8 DEF w

(* A line of the active area has been shown: the next is of the same row, or the first
   of the next one. *)
LEMMA LineShown ==
    ASSUME vreg \in Settings, vert \in Verts, vert.next = "vb", vert.active_area,
           vert' \in Verts, vert'.next = "hb", vreg' = vreg, shot'.base = shot.base,
           vert'.row = RowEnds(vert, vreg).row, vert'.B = RowEnds(vert, vreg).B,
           vert'.row_stride = RowEnds(vert, vreg).row_stride,
           NEW n \in Nat, shot.base \in Nat,
           \E e, p \in Nat : Shown(e, p, n)
    PROVE  \E e, p \in Nat : Shown(e, p, n + 1)'
  <1> DEFINE first == FirstRow(vreg)
             mask == Rowmask(vreg)
             stride == RowStride(vreg)
             full == Full(vert.row, mask)
  <1>1. PICK e \in Nat, p \in Nat : Shown(e, p, n)
    OBVIOUS
  <1> DEFINE start == IF e = 0 THEN first ELSE 0
  <1>2. /\ first \in 0..15 /\ mask \in 0..16 /\ stride \in Nat
        /\ mask = 16 <=> ~vreg.COCO /\ vreg.LPR = 7
    BY Masks
  <1>3. /\ Reached(first, mask, e, p, n) /\ vert.row = (start + p + 1) % 16
        /\ vert.row_advance = full
        /\ vert.row_stride = stride /\ vert.B = shot.base + stride * e
    BY <1>1 DEF Shown
  <1>4. /\ full => mask # 16 /\ Reached(first, mask, e + 1, 0, n + 1)
        /\ ~full => Reached(first, mask, e, p + 1, n + 1)
    <2>1. IF Full((start + p + 1) % 16, mask) THEN mask # 16 /\ Reached(first, mask, e + 1, 0, n + 1)
          ELSE Reached(first, mask, e, p + 1, n + 1)
      <3> HIDE DEF first, mask
      <3> QED
        BY <1>2, <1>3, RowGoesOn
    <2> HIDE DEF first, mask, start
    <2> QED
      BY <1>3, <2>1 DEF full
  <1>5. /\ vert'.row = IF full THEN 0 ELSE vert.row
        /\ vert'.B = IF full THEN vert.B + vert.row_stride ELSE vert.B
        /\ vert'.row_stride = stride
    <2>1. /\ RowEnds(vert, vreg).row = IF full THEN 0 ELSE vert.row
          /\ RowEnds(vert, vreg).B
               = (IF full /\ (vreg.COCO \/ vreg.LPR # 7) THEN vert.B + vert.row_stride ELSE vert.B)
          /\ RowEnds(vert, vreg).row_stride = stride
      <3> HIDE DEF stride
      <3> QED
        BY <1>3, RowEndsTo DEF stride
    <2> QED
      BY <1>2, <1>4, <2>1
  <1>6. first' = first /\ mask' = mask /\ stride' = stride
    OBVIOUS
  <1>7. CASE full
    <2>1. stride * (e + 1) = stride * e + stride /\ stride * e \in Nat
      BY <1>2
    <2>2. vert'.B = shot.base + stride * (e + 1)
      <3> DEFINE x == stride * e
      <3> HIDE DEF x, stride, full
      <3>1. vert'.B = (shot.base + x) + stride
        BY <1>3, <1>5, <1>7 DEF x
      <3>2. x \in Nat /\ stride \in Nat /\ stride * (e + 1) = x + stride
        BY <1>2, <2>1 DEF x
      <3> QED
        BY <3>1, <3>2
    <2>3. e + 1 # 0 /\ vert'.row = (0 + 0 + 0) % 16
      BY <1>5, <1>7
    <2>4. Shown(e + 1, 0, n + 1)'
      <3> HIDE DEF first, mask, stride, full
      <3> QED
        BY <1>4, <1>5, <1>6, <1>7, <2>2, <2>3 DEF Shown, first, mask, stride
    <2> QED
      BY <2>4
  <1>8. CASE ~full
    <2>1. vert'.row = (start + (p + 1) + 0) % 16 /\ vert'.B = shot.base + stride * e
      BY <1>2, <1>3, <1>5, <1>8
    <2>2. Shown(e, p + 1, n + 1)'
      <3> HIDE DEF mask, stride, full
      <3> QED
        BY <1>4, <1>5, <1>6, <1>8, <2>1 DEF Shown, mask, stride
    <2> QED
      BY <2>2
  <1> QED
    BY <1>7, <1>8


(* The four parts of the vertical border's point, each from the counts w of the line. *)
VbStep(w) ==
    /\ FramesInv /\ vert.next = "vb" /\ w = RowEnds(vert, vreg)
    /\ UNCHANGED <<vreg, Y, tmr>>

LEMMA FrameBeginsInv == ASSUME NEW w, VbStep(w), FrameBegins(w) PROVE FramesInv'
  <1>1. /\ vreg \in Settings /\ Y \in Offsets /\ vert \in Verts /\ shot \in Shots
        /\ tmr \in Timers /\ TimerCounts /\ w = RowEnds(vert, vreg)
        /\ vreg' = vreg /\ Y' = Y /\ tmr' = tmr
    BY DEF VbStep, FramesInv
  <1>2. w \in Verts /\ w.next = "hb" /\ w.active_area = vert.active_area
    BY <1>1, RowEndsTo
  <1>3. /\ TopLines(vreg) \in Nat \ {0} /\ ActiveLines(vreg) \in Nat \ {0}
        /\ FrameLines[vreg.H50] \in Nat /\ SyncLines < FrameLines[vreg.H50]
    BY <1>1, ModeBounds
  <1>4. /\ vert' = [w EXCEPT !.fs = FALSE, !.lAA = ActiveLines(vreg), !.lF = FrameLines[vreg.H50],
                             !.lTB = TopLines(vreg), !.sync = TRUE, !.lcount = 0, !.scanline = 0]
        /\ shot' = [shape |-> TRUE, rows |-> FALSE, carried |-> w.active_area,
                    rewritten |-> FALSE, base |-> 0, vbords |-> 0, writes |-> 0]
    BY DEF FrameBegins
  <1>5. FrameLines[vreg.H50] \in Nat /\ ActiveLines(vreg) \in Nat /\ TopLines(vreg) \in Nat
    BY <1>3 DEF SyncLines
  <1>6. vert' \in Verts
    BY <1>2, <1>4, <1>5 DEF Verts
  <1>7. shot' \in Shots
    <2>1. w.active_area \in BOOLEAN /\ 0 \in 0..LastWrite
      BY <1>2, GimeAssumption DEF Verts
    <2> QED
      BY <1>4, <2>1 DEF Shots
  <1>8. /\ vert'.next = "hb" /\ vert'.scanline = 0 /\ vert'.lcount = 0 /\ vert'.sync
        /\ ~vert'.fs /\ vert'.lAA = ActiveLines(vreg) /\ vert'.lF = FrameLines[vreg.H50]
        /\ vert'.lTB = TopLines(vreg) /\ vert'.active_area = w.active_area
        /\ shot'.carried = w.active_area /\ shot'.vbords = 0 /\ ~shot'.rows
    BY <1>2, <1>4 DEF Verts
  <1>9. LinesDone' = 0
    BY <1>8 DEF LinesDone
  <1>10. Latched'
    BY <1>1, <1>3, <1>8, <1>9 DEF Latched, SyncLines
  <1>11. shot'.carried => Unbordered'
    BY <1>1, <1>3, <1>8, <1>9 DEF Unbordered, SyncLines
  <1>12. ~shot'.carried => Bordered' /\ Rowed'
    <2>1. ActiveFrom' \in Nat /\ ActiveTo' \in Nat /\ ActiveFrom' > 0 /\ ActiveTo' > 0
      BY <1>1, <1>3 DEF ActiveFrom, ActiveTo, SyncLines
    <2>2. ~shot'.carried => Bordered'
      <3> SUFFICES ASSUME ~shot'.carried PROVE Bordered'
        OBVIOUS
      <3>1. ~vert'.active_area /\ vert'.lTB = TopLines(vreg)' /\ shot'.vbords = 0 /\ vert'.sync
        BY <1>1, <1>8
      <3>2. /\ LinesDone' < ActiveTo' /\ LinesDone' < ActiveFrom'
            /\ ~(LinesDone' >= ActiveTo') /\ ~(LinesDone' >= ActiveFrom')
        BY <1>9, <2>1
      <3> QED
        BY <3>1, <3>2 DEF Bordered
    <2>3. Rowed'
      BY <1>1, <1>8, <1>9, <2>1 DEF Rowed
    <2> QED
      BY <2>2, <2>3
  <1> QED
    BY <1>1, <1>6, <1>7, <1>10, <1>11, <1>12 DEF FramesInv, TimerCounts


(* Where the next line is, while the frame goes on. *)
LEMMA VbFacts ==
    ASSUME NEW w, VbStep(w)
    PROVE  /\ vreg \in Settings /\ Y \in Offsets /\ vert \in Verts /\ shot \in Shots
           /\ tmr \in Timers /\ TimerCounts /\ vreg' = vreg /\ Y' = Y /\ tmr' = tmr
           /\ TopLines(vreg) \in Nat \ {0} /\ ActiveLines(vreg) \in Nat \ {0}
           /\ SyncLines = 7 /\ ActiveFrom = 7 + TopLines(vreg)
           /\ ActiveTo = 7 + TopLines(vreg) + ActiveLines(vreg)
           /\ ActiveFrom' = ActiveFrom /\ ActiveTo' = ActiveTo
           /\ w \in Verts /\ w.next = "hb" /\ w.scanline = vert.scanline
           /\ w.lcount = vert.lcount + 1 /\ vert.lcount \in Nat /\ vert.scanline \in Nat
           /\ w.lF = vert.lF /\ w.lTB = vert.lTB /\ w.lAA = vert.lAA
           /\ w.sync = vert.sync /\ w.active_area = vert.active_area /\ w.fs = vert.fs
           /\ vert.sync \in BOOLEAN /\ vert.active_area \in BOOLEAN /\ vert.fs \in BOOLEAN
           /\ LinesDone = vert.scanline - 1
           /\ vert'.next = "hb" /\ vert'.scanline = w.scanline => LinesDone' = LinesDone + 1
           /\ shot.shape =>
                 /\ Latched /\ (shot.carried /\ ~shot.rewritten => Unbordered)
                 /\ (~shot.carried => Bordered /\ Rowed)
  <1>1. /\ vreg \in Settings /\ Y \in Offsets /\ vert \in Verts /\ shot \in Shots
        /\ tmr \in Timers /\ TimerCounts /\ vreg' = vreg /\ Y' = Y /\ tmr' = tmr
        /\ w = RowEnds(vert, vreg) /\ vert.next = "vb"
    BY DEF VbStep, FramesInv
  <1>2. TopLines(vreg) \in Nat \ {0} /\ ActiveLines(vreg) \in Nat \ {0}
    BY <1>1, ModeBounds
  <1>3. /\ SyncLines = 7 /\ ActiveFrom = 7 + TopLines(vreg)
        /\ ActiveTo = 7 + TopLines(vreg) + ActiveLines(vreg)
        /\ ActiveFrom' = ActiveFrom /\ ActiveTo' = ActiveTo
    BY <1>1 DEF SyncLines, ActiveFrom, ActiveTo
  <1>4. /\ w \in Verts /\ w.next = "hb" /\ w.scanline = vert.scanline
        /\ w.lcount = vert.lcount + 1
        /\ w.lF = vert.lF /\ w.lTB = vert.lTB /\ w.lAA = vert.lAA
        /\ w.sync = vert.sync /\ w.active_area = vert.active_area /\ w.fs = vert.fs
    BY <1>1, RowEndsTo
  <1>5. /\ vert.lcount \in Nat /\ vert.scanline \in Nat
        /\ vert.sync \in BOOLEAN /\ vert.active_area \in BOOLEAN /\ vert.fs \in BOOLEAN
    BY <1>1 DEF Verts
  <1>6. LinesDone = vert.scanline - 1
    BY <1>1 DEF LinesDone
  <1>7. ASSUME vert'.next = "hb", vert'.scanline = w.scanline PROVE LinesDone' = LinesDone + 1
    BY <1>4, <1>5, <1>6, <1>7 DEF LinesDone
  <1>8. shot.shape =>
           /\ Latched /\ (shot.carried /\ ~shot.rewritten => Unbordered)
           /\ (~shot.carried => Bordered /\ Rowed)
    BY DEF VbStep, FramesInv
  <1> QED
    BY <1>1, <1>2, <1>3, <1>4, <1>5, <1>6, <1>7, <1>8

LEMMA InSyncInv == ASSUME NEW w, VbStep(w), InSync(w) PROVE FramesInv'
  <1> DEFINE over == w.lcount >= SyncLines
             base == FrameBase(vreg, Y)
  <1>1. /\ vreg \in Settings /\ Y \in Offsets /\ vert \in Verts /\ shot \in Shots
        /\ tmr \in Timers /\ TimerCounts /\ vreg' = vreg /\ Y' = Y /\ tmr' = tmr
    BY VbFacts
  <1>2. base \in Nat
    BY <1>1, Based
  <1>3. /\ w \in Verts /\ w.next = "hb" /\ w.scanline = vert.scanline
        /\ w.lcount = vert.lcount + 1 /\ vert.lcount \in Nat
        /\ w.lF = vert.lF /\ w.lTB = vert.lTB /\ w.lAA = vert.lAA
        /\ w.sync = vert.sync /\ w.active_area = vert.active_area /\ w.fs = vert.fs
        /\ vert.sync \in BOOLEAN /\ vert.active_area \in BOOLEAN /\ vert.fs \in BOOLEAN
    BY VbFacts
  <1>4. /\ w.scanline < w.lF /\ w.sync
        /\ vert' = [w EXCEPT !.fs = @ \/ w.lcount = 4, !.B = IF over THEN base ELSE @,
                             !.sync = ~over, !.lcount = IF over THEN 0 ELSE @]
        /\ shot' = IF over THEN [shot EXCEPT !.base = base] ELSE shot
    BY DEF InSync
  <1> HIDE DEF base
  <1>5. vert' \in Verts
    <2> HIDE DEF over
    <2>1. ASSUME NEW f \in BOOLEAN, NEW b \in Nat, NEW s \in BOOLEAN, NEW l \in Nat
          PROVE  [w EXCEPT !.fs = f, !.B = b, !.sync = s, !.lcount = l] \in Verts
      BY <1>3 DEF Verts
    <2>2. /\ (w.fs \/ w.lcount = 4) \in BOOLEAN /\ (IF over THEN base ELSE w.B) \in Nat
          /\ (~over) \in BOOLEAN /\ (IF over THEN 0 ELSE w.lcount) \in Nat
      <3>1. w.B \in Nat /\ w.lcount \in Nat
        BY <1>3 DEF Verts
      <3>2. (w.fs \/ w.lcount = 4) \in BOOLEAN
        BY <1>3
      <3>3. (~over) \in BOOLEAN
        OBVIOUS
      <3> QED
        BY <1>2, <3>1, <3>2, <3>3
    <2>3. [w EXCEPT !.fs = w.fs \/ w.lcount = 4, !.B = IF over THEN base ELSE w.B,
                    !.sync = ~over, !.lcount = IF over THEN 0 ELSE w.lcount] \in Verts
      BY Zenon, <2>1, <2>2
    <2> QED
      BY <1>4, <2>3
  <1>6. shot' \in Shots
    BY <1>1, <1>2, <1>4 DEF Shots
  <1>7. /\ vert'.next = "hb" /\ vert'.scanline = w.scanline /\ vert'.lF = w.lF
        /\ vert'.lTB = w.lTB /\ vert'.lAA = w.lAA /\ vert'.active_area = w.active_area
        /\ (vert'.fs <=> w.fs \/ w.lcount = 4) /\ (vert'.sync <=> ~over)
        /\ vert'.lcount = (IF over THEN 0 ELSE w.lcount)
        /\ over => vert'.B = base
    BY <1>3, <1>4 DEF Verts
  <1>8. /\ shot'.shape = shot.shape /\ shot'.carried = shot.carried
        /\ shot'.rewritten = shot.rewritten /\ shot'.rows = shot.rows
        /\ shot'.vbords = shot.vbords /\ (over => shot'.base = base)
    BY <1>1, <1>4 DEF Shots
  <1> SUFFICES ASSUME shot.shape
               PROVE  /\ Latched' /\ (shot.carried /\ ~shot.rewritten => Unbordered')
                      /\ (~shot.carried => Bordered' /\ Rowed')
    BY <1>1, <1>5, <1>6, <1>8 DEF FramesInv, TimerCounts
  <1> DEFINE L == LinesDone
  <1>9. /\ LinesDone' = L + 1 /\ L = vert.scanline - 1
        /\ TopLines(vreg) \in Nat \ {0} /\ ActiveLines(vreg) \in Nat \ {0}
        /\ SyncLines = 7 /\ ActiveFrom = 7 + TopLines(vreg)
        /\ ActiveTo = 7 + TopLines(vreg) + ActiveLines(vreg)
        /\ ActiveFrom' = ActiveFrom /\ ActiveTo' = ActiveTo
        /\ Latched /\ (shot.carried /\ ~shot.rewritten => Unbordered)
        /\ (~shot.carried => Bordered /\ Rowed)
    BY <1>7, VbFacts
  <1>10. /\ L \in 0..6 /\ vert.lcount = L /\ (over <=> L = 6) /\ L + 1 < vert.lF
         /\ vert.lF \in Nat
    BY <1>1, <1>3, <1>4, <1>9 DEF Latched, Verts
  <1>11. Latched'
    <2>1. /\ vert'.lF = FrameLines[vreg'.H50] /\ vert'.lAA = ActiveLines(vreg)'
          /\ vert'.lTB \in {TopLines(vreg)', Endless}
      BY <1>1, <1>3, <1>7, <1>9 DEF Latched
    <2>2. LinesDone' \in 0..(vert'.lF - 1) /\ vert'.lcount <= LinesDone'
      BY <1>3, <1>7, <1>9, <1>10
    <2>3. /\ vert'.sync <=> LinesDone' < SyncLines
          /\ vert'.sync => vert'.lcount = LinesDone'
      BY <1>3, <1>7, <1>9, <1>10
    <2>4. vert'.fs <=> LinesDone' >= 4
      <3>1. vert.fs <=> L >= 4
        BY <1>9 DEF Latched
      <3> QED
        BY <1>3, <1>7, <1>9, <1>10, <3>1
    <2> QED
      BY <2>1, <2>2, <2>3, <2>4 DEF Latched
  <1>12. ASSUME shot.carried, ~shot.rewritten PROVE Unbordered'
    <2>1. vert'.active_area
      BY <1>3, <1>7, <1>9, <1>10, <1>12 DEF Unbordered
    <2>2. LinesDone' < SyncLines + ActiveLines(vreg)' /\ ~(LinesDone' >= SyncLines + ActiveLines(vreg)')
      BY <1>1, <1>9, <1>10
    <2>3. ~vert'.sync => vert'.lcount = LinesDone' - SyncLines
      BY <1>7, <1>9, <1>10
    <2> QED
      BY <2>1, <2>2, <2>3 DEF Unbordered
  <1>13. ASSUME ~shot.carried PROVE Bordered' /\ Rowed'
    <2>1. /\ LinesDone' < ActiveTo' /\ LinesDone' < ActiveFrom'
          /\ ~(LinesDone' >= ActiveTo') /\ ~(LinesDone' >= ActiveFrom')
      <3>1. LinesDone' \in 1..7
        BY <1>9, <1>10
      <3>2. /\ ActiveFrom' \in Nat /\ ActiveTo' \in Nat
            /\ ActiveFrom' > 7 /\ ActiveTo' > 7
        BY <1>9
      <3> QED
        BY <3>1, <3>2
    <2>2. L < ActiveTo /\ L < ActiveFrom /\ ~(L >= ActiveFrom)
      BY <1>9, <1>10
    <2>3. ~vert'.active_area /\ vert'.lTB = TopLines(vreg)' /\ shot'.vbords = 0 /\ ~shot'.rows
      BY <1>1, <1>3, <1>7, <1>8, <1>9, <1>13, <2>2 DEF Bordered, Rowed
    <2>4. ~vert'.sync => vert'.lcount = LinesDone' - SyncLines /\ vert'.B = shot'.base
      BY <1>7, <1>8, <1>9, <1>10
    <2>5. Bordered'
      BY <2>1, <2>3, <2>4 DEF Bordered
    <2>6. Rowed'
      BY <2>1, <2>3, <2>4 DEF Rowed
    <2> QED
      BY <2>5, <2>6
  <1> QED
    BY <1>11, <1>12, <1>13


LEMMA InBorderInv == ASSUME NEW w, VbStep(w), InBorder(w) PROVE FramesInv'
  <1> DEFINE begins == w.lcount >= w.lTB
             first == FirstRow(vreg)
             L == LinesDone
  <1>1. /\ vreg \in Settings /\ Y \in Offsets /\ vert \in Verts /\ shot \in Shots
        /\ tmr \in Timers /\ TimerCounts /\ vreg' = vreg /\ Y' = Y /\ tmr' = tmr
    BY VbFacts
  <1>2. /\ w \in Verts /\ w.next = "hb" /\ w.scanline = vert.scanline
        /\ w.lcount = vert.lcount + 1 /\ vert.lcount \in Nat
        /\ w.lF = vert.lF /\ w.lTB = vert.lTB /\ w.lAA = vert.lAA
        /\ w.sync = vert.sync /\ w.active_area = vert.active_area /\ w.fs = vert.fs
    BY VbFacts
  <1>3. /\ w.scanline < w.lF /\ ~vert.sync /\ ~vert.active_area
        /\ begins => /\ vert' = [w EXCEPT !.row = first, !.active_area = TRUE, !.lcount = 0]
                     /\ shot' = [shot EXCEPT !.rows = TRUE]
        /\ ~begins => vert' = w /\ shot' = shot
    BY <1>2 DEF InBorder
  <1>4. first \in 0..15
    BY <1>1, Masks
  <1>5. /\ w.row_stride = RowStride(vreg) /\ w.B = vert.B
    BY <1>3, RowEndsTo DEF VbStep, FramesInv
  <1> HIDE DEF begins, first
  <1>6. vert' \in Verts
    <2>1. [w EXCEPT !.row = first, !.active_area = TRUE, !.lcount = 0] \in Verts
      BY <1>2, <1>4 DEF Verts
    <2> QED
      BY <1>2, <1>3, <2>1
  <1>7. shot' \in Shots
    BY <1>1, <1>3 DEF Shots
  <1>8. /\ vert'.next = "hb" /\ vert'.scanline = w.scanline /\ vert'.lF = vert.lF
        /\ vert'.lTB = vert.lTB /\ vert'.lAA = vert.lAA /\ vert'.sync = vert.sync
        /\ vert'.fs = vert.fs /\ vert'.row_stride = RowStride(vreg) /\ vert'.B = vert.B
        /\ begins => vert'.active_area /\ vert'.lcount = 0 /\ vert'.row = first
        /\ ~begins => ~vert'.active_area /\ vert'.lcount = vert.lcount + 1
    BY <1>2, <1>3, <1>5 DEF Verts
  <1>9. /\ shot'.shape = shot.shape /\ shot'.carried = shot.carried
        /\ shot'.rewritten = shot.rewritten /\ shot'.vbords = shot.vbords
        /\ shot'.base = shot.base /\ shot.base \in Nat /\ (~begins => shot'.rows = shot.rows)
    BY <1>1, <1>3 DEF Shots
  <1> SUFFICES ASSUME shot.shape
               PROVE  /\ Latched' /\ (shot.carried /\ ~shot.rewritten => Unbordered')
                      /\ (~shot.carried => Bordered' /\ Rowed')
    BY <1>1, <1>6, <1>7, <1>9 DEF FramesInv, TimerCounts
  <1>10. /\ LinesDone' = L + 1 /\ L = vert.scanline - 1
         /\ TopLines(vreg) \in Nat \ {0} /\ ActiveLines(vreg) \in Nat \ {0}
         /\ SyncLines = 7 /\ ActiveFrom = 7 + TopLines(vreg)
         /\ ActiveTo = 7 + TopLines(vreg) + ActiveLines(vreg)
         /\ ActiveFrom' = ActiveFrom /\ ActiveTo' = ActiveTo
         /\ Latched /\ (shot.carried /\ ~shot.rewritten => Unbordered)
         /\ (~shot.carried => Bordered /\ Rowed)
    BY <1>8, VbFacts
  <1>11. /\ L \in Nat /\ L >= 7 /\ L + 1 < vert.lF /\ vert.lcount <= L
         /\ vert.lF = FrameLines[vreg.H50] /\ vert.lF \in Nat /\ vert.fs
         /\ vert.lF < Endless /\ Endless \in Nat
    BY <1>1, <1>2, <1>3, <1>10, ModeBounds DEF Latched, Verts
  <1>12. Latched'
    <2>1. /\ vert'.lF = FrameLines[vreg'.H50] /\ vert'.lAA = ActiveLines(vreg)'
          /\ vert'.lTB \in {TopLines(vreg)', Endless}
      BY <1>1, <1>8, <1>10 DEF Latched
    <2>2. LinesDone' \in 0..(vert'.lF - 1) /\ vert'.lcount <= LinesDone'
      BY <1>2, <1>8, <1>10, <1>11
    <2>3. ~vert'.sync /\ ~(LinesDone' < SyncLines) /\ vert'.fs /\ LinesDone' >= 4
      BY <1>3, <1>8, <1>10, <1>11
    <2> QED
      BY <2>1, <2>2, <2>3 DEF Latched
  <1>13. ASSUME shot.carried, ~shot.rewritten PROVE Unbordered'
    <2>1. L >= 7 + ActiveLines(vreg) /\ vert.lTB = Endless
      BY <1>3, <1>10, <1>11, <1>13 DEF Unbordered
    <2>2. ~begins
      BY <1>2, <1>11, <2>1 DEF begins
    <2>3. ~(LinesDone' < SyncLines + ActiveLines(vreg)')
      BY <1>1, <1>10, <1>11, <2>1
    <2> QED
      BY <1>8, <2>1, <2>2, <2>3 DEF Unbordered
  <1>14. ASSUME ~shot.carried PROVE Bordered' /\ Rowed'
    <2>1. Bordered /\ Rowed
      BY <1>10, <1>14
    <2>2. /\ ActiveFrom \in Nat /\ ActiveTo \in Nat /\ 7 < ActiveFrom /\ ActiveFrom < ActiveTo
          /\ TopLines(vreg)' = TopLines(vreg)
      BY <1>1, <1>10
    <2>3. CASE L < ActiveFrom
      <3>1. /\ vert.lTB = TopLines(vreg) /\ shot.vbords = 0 /\ vert.lcount = L - 7
            /\ vert.B = shot.base /\ ~shot.rows
        BY <1>3, <1>10, <1>11, <2>1, <2>2, <2>3 DEF Bordered, Rowed
      <3>2. begins <=> L + 1 = ActiveFrom
        BY <1>2, <1>10, <1>11, <2>3, <3>1 DEF begins
      <3>3. CASE begins
        <4>1. /\ LinesDone' = ActiveFrom' /\ LinesDone' < ActiveTo'
              /\ ~(LinesDone' < ActiveFrom') /\ LinesDone' >= ActiveFrom'
              /\ ~(LinesDone' >= ActiveTo') /\ LinesDone' - ActiveFrom' = 0
          BY <1>10, <2>2, <3>2, <3>3
        <4>2. Bordered'
          BY <1>8, <1>9, <2>2, <3>1, <3>3, <4>1 DEF Bordered
        <4>3. Shown(0, 0, 0)'
          <5>1. Rowmask(vreg) \in 0..16 /\ RowStride(vreg) \in Nat
            BY <1>1, Masks
          <5>2. Rowmask(vreg) # 16 => LinesToEnd(first, Rowmask(vreg)) \in 1..16
            <6>1. Rowmask(vreg) # 16 => Rowmask(vreg) \in 0..15
              BY <5>1
            <6> QED
              BY <1>4, <6>1, RowHasEnd
          <5>3. Reached(first, Rowmask(vreg), 0, 0, 0)
            BY <5>2 DEF Reached
          <5>4. vert'.row = (first + 0 + 0) % 16
            BY <1>4, <1>8, <3>3
          <5>5. vert'.B = shot'.base + RowStride(vreg) * 0
            BY <1>8, <1>9, <3>1, <5>1
          <5> QED
            BY <1>1, <1>8, <5>3, <5>4, <5>5 DEF Shown, first
        <4>4. \E e, p \in Nat : Shown(e, p, 0)'
          BY <4>3
        <4>5. Rowed'
          BY <4>1, <4>4 DEF Rowed
        <4> QED
          BY <4>2, <4>5
      <3>4. CASE ~begins
        <4>1. /\ LinesDone' < ActiveFrom' /\ LinesDone' < ActiveTo'
              /\ ~(LinesDone' >= ActiveFrom') /\ ~(LinesDone' >= ActiveTo')
              /\ vert'.lcount = LinesDone' - SyncLines
          BY <1>8, <1>10, <1>11, <2>2, <2>3, <3>1, <3>2, <3>4
        <4>2. Bordered'
          BY <1>8, <1>9, <2>2, <3>1, <3>4, <4>1 DEF Bordered
        <4>3. Rowed'
          BY <1>8, <1>9, <3>1, <3>4, <4>1 DEF Rowed
        <4> QED
          BY <4>2, <4>3
      <3> QED
        BY <3>3, <3>4
    <2>4. CASE L >= ActiveFrom
      <3>1. L >= ActiveTo
        BY <1>3, <1>11, <2>1, <2>2, <2>4 DEF Bordered
      <3>2. vert.lcount = L - ActiveTo /\ shot.vbords = 1
        BY <2>1, <3>1 DEF Bordered
      <3>3. ~begins
        <4>1. CASE vert.lTB = Endless
          BY <1>2, <1>11, <4>1 DEF begins
        <4>2. CASE vert.lTB = TopLines(vreg)
          <5>1. \/ TopLines(vreg) >= FrameLines[vreg.H50]
                \/ FrameLines[vreg.H50] - 1 - (SyncLines + TopLines(vreg) + ActiveLines(vreg))
                     < TopLines(vreg)
            BY <1>1, ModeBounds
          <5>2. L + 1 - ActiveTo < TopLines(vreg)
            BY <1>10, <1>11, <3>1, <5>1
          <5> QED
            BY <1>2, <1>10, <1>11, <2>2, <3>2, <4>2, <5>2 DEF begins
        <4> QED
          BY <1>10, <4>1, <4>2 DEF Latched
      <3>4. /\ LinesDone' >= ActiveTo' /\ LinesDone' >= ActiveFrom'
            /\ ~(LinesDone' < ActiveTo') /\ ~(LinesDone' < ActiveFrom')
            /\ vert'.lcount = LinesDone' - ActiveTo'
        BY <1>8, <1>10, <1>11, <2>2, <3>1, <3>2, <3>3
      <3>5. Bordered'
        BY <1>8, <1>9, <3>2, <3>3, <3>4 DEF Bordered
      <3>6. Rowed'
        BY <1>1, <1>8, <1>9, <2>1, <3>1, <3>3, <3>4 DEF Rowed
      <3> QED
        BY <3>5, <3>6
    <2> QED
      BY <1>11, <2>2, <2>3, <2>4
  <1> QED
    BY <1>12, <1>13, <1>14


LEMMA InActiveAreaInv == ASSUME NEW w, VbStep(w), InActiveArea(w) PROVE FramesInv'
  <1> DEFINE ends == w.lcount >= w.lAA
             L == LinesDone
  <1>1. /\ vreg \in Settings /\ Y \in Offsets /\ vert \in Verts /\ shot \in Shots
        /\ tmr \in Timers /\ TimerCounts /\ vreg' = vreg /\ Y' = Y /\ tmr' = tmr
        /\ w = RowEnds(vert, vreg) /\ vert.next = "vb"
    BY VbFacts DEF VbStep
  <1>2. /\ w \in Verts /\ w.next = "hb" /\ w.scanline = vert.scanline
        /\ w.lcount = vert.lcount + 1 /\ vert.lcount \in Nat
        /\ w.lF = vert.lF /\ w.lTB = vert.lTB /\ w.lAA = vert.lAA
        /\ w.sync = vert.sync /\ w.active_area = vert.active_area /\ w.fs = vert.fs
    BY VbFacts
  <1>3. /\ w.scanline < w.lF /\ ~vert.sync /\ vert.active_area
        /\ ends => /\ vert' = [w EXCEPT !.lTB = Endless, !.active_area = FALSE, !.lcount = 0]
                   /\ shot' = [shot EXCEPT !.vbords = @ + 1]
        /\ ~ends => vert' = w /\ shot' = shot
    BY <1>2 DEF InActiveArea
  <1> HIDE DEF ends
  <1>4. Endless \in Nat
    BY <1>1, ModeBounds
  <1>5. vert' \in Verts
    <2>1. [w EXCEPT !.lTB = Endless, !.active_area = FALSE, !.lcount = 0] \in Verts
      BY <1>2, <1>4 DEF Verts
    <2> QED
      BY <1>2, <1>3, <2>1
  <1>6. shot' \in Shots
    BY <1>1, <1>3 DEF Shots
  <1>7. /\ vert'.next = "hb" /\ vert'.scanline = w.scanline /\ vert'.lF = vert.lF
        /\ vert'.lAA = vert.lAA /\ vert'.sync = vert.sync /\ vert'.fs = vert.fs
        /\ vert'.row_stride = w.row_stride /\ vert'.B = w.B /\ vert'.row = w.row
        /\ ends => ~vert'.active_area /\ vert'.lcount = 0 /\ vert'.lTB = Endless
        /\ ~ends => vert'.active_area /\ vert'.lcount = vert.lcount + 1 /\ vert'.lTB = vert.lTB
    BY <1>2, <1>3 DEF Verts
  <1>8. /\ shot'.shape = shot.shape /\ shot'.carried = shot.carried
        /\ shot'.rewritten = shot.rewritten /\ shot'.rows = shot.rows
        /\ shot'.base = shot.base /\ shot.base \in Nat
        /\ shot'.vbords = (IF ends THEN shot.vbords + 1 ELSE shot.vbords)
    BY <1>1, <1>3 DEF Shots
  <1> SUFFICES ASSUME shot.shape
               PROVE  /\ Latched' /\ (shot.carried /\ ~shot.rewritten => Unbordered')
                      /\ (~shot.carried => Bordered' /\ Rowed')
    BY <1>1, <1>5, <1>6, <1>8 DEF FramesInv, TimerCounts
  <1>9. /\ LinesDone' = L + 1 /\ L = vert.scanline - 1
        /\ TopLines(vreg) \in Nat \ {0} /\ ActiveLines(vreg) \in Nat \ {0}
        /\ SyncLines = 7 /\ ActiveFrom = 7 + TopLines(vreg)
        /\ ActiveTo = 7 + TopLines(vreg) + ActiveLines(vreg)
        /\ ActiveFrom' = ActiveFrom /\ ActiveTo' = ActiveTo
        /\ Latched /\ (shot.carried /\ ~shot.rewritten => Unbordered)
        /\ (~shot.carried => Bordered /\ Rowed)
    BY <1>7, VbFacts
  <1>10. /\ L \in Nat /\ L >= 7 /\ L + 1 < vert.lF /\ vert.lcount <= L
         /\ vert.lAA = ActiveLines(vreg) /\ vert.lF \in Nat /\ vert.fs
    BY <1>1, <1>2, <1>3, <1>9 DEF Latched, Verts
  <1>11. Latched'
    <2>1. /\ vert'.lF = FrameLines[vreg'.H50] /\ vert'.lAA = ActiveLines(vreg)'
          /\ vert'.lTB \in {TopLines(vreg)', Endless}
      BY <1>1, <1>7, <1>9 DEF Latched
    <2>2. LinesDone' \in 0..(vert'.lF - 1) /\ vert'.lcount <= LinesDone'
      BY <1>2, <1>7, <1>9, <1>10
    <2>3. ~vert'.sync /\ ~(LinesDone' < SyncLines) /\ vert'.fs /\ LinesDone' >= 4
      BY <1>3, <1>7, <1>9, <1>10
    <2> QED
      BY <2>1, <2>2, <2>3 DEF Latched
  <1>12. ASSUME shot.carried, ~shot.rewritten PROVE Unbordered'
    <2>1. L < 7 + ActiveLines(vreg) /\ vert.lcount = L - 7
      BY <1>3, <1>9, <1>10, <1>12 DEF Unbordered
    <2>2. ends <=> L + 1 = 7 + ActiveLines(vreg)
      BY <1>2, <1>9, <1>10, <2>1 DEF ends
    <2>3. CASE ends
      <3>1. ~(LinesDone' < SyncLines + ActiveLines(vreg)')
        BY <1>1, <1>9, <2>2, <2>3
      <3> QED
        BY <1>7, <2>3, <3>1 DEF Unbordered
    <2>4. CASE ~ends
      <3>1. /\ ~(LinesDone' >= SyncLines + ActiveLines(vreg)')
            /\ vert'.lcount = LinesDone' - SyncLines
        BY <1>1, <1>7, <1>9, <1>10, <2>1, <2>2, <2>4
      <3> QED
        BY <1>7, <2>4, <3>1 DEF Unbordered
    <2> QED
      BY <2>3, <2>4
  <1>13. ASSUME ~shot.carried PROVE Bordered' /\ Rowed'
    <2>1. Bordered /\ Rowed
      BY <1>9, <1>13
    <2>2. /\ ActiveFrom \in Nat /\ ActiveTo \in Nat /\ 7 < ActiveFrom /\ ActiveFrom < ActiveTo
          /\ ActiveTo = ActiveFrom + ActiveLines(vreg)
          /\ TopLines(vreg)' = TopLines(vreg) /\ ActiveLines(vreg)' = ActiveLines(vreg)
      BY <1>1, <1>9
    <2>3. L >= ActiveFrom /\ L < ActiveTo
      BY <1>3, <1>10, <2>1, <2>2 DEF Bordered
    <2>4. /\ vert.lTB = TopLines(vreg) /\ shot.vbords = 0 /\ vert.lcount = L - ActiveFrom
          /\ shot.rows => \E e, p \in Nat : Shown(e, p, L - ActiveFrom)
      BY <2>1, <2>3 DEF Bordered, Rowed
    <2>5. ends <=> L + 1 = ActiveTo
      BY <1>2, <1>9, <1>10, <2>2, <2>3, <2>4 DEF ends
    <2>6. PICK n \in Nat : n = L - ActiveFrom
      BY <1>10, <2>2, <2>3
    <2>7. ASSUME shot.rows PROVE \E e, p \in Nat : Shown(e, p, n + 1)'
      <3>1. \E e, p \in Nat : Shown(e, p, n)
        BY <2>4, <2>6, <2>7
      <3> QED
        BY <1>1, <1>3, <1>5, <1>7, <1>8, <3>1, LineShown
    <2>8. CASE ends
      <3>1. /\ LinesDone' = ActiveTo' /\ LinesDone' >= ActiveTo' /\ LinesDone' >= ActiveFrom'
            /\ ~(LinesDone' < ActiveTo') /\ ~(LinesDone' < ActiveFrom')
            /\ vert'.lcount = LinesDone' - ActiveTo' /\ shot'.vbords = 1
        BY <1>7, <1>8, <1>9, <2>2, <2>4, <2>5, <2>8
      <3>2. Bordered'
        BY <1>7, <2>8, <3>1 DEF Bordered
      <3>3. ASSUME shot.rows
            PROVE  vert'.B = shot'.base + RowStride(vreg')
                      * RowsEnded(FirstRow(vreg'), Rowmask(vreg'), ActiveLines(vreg'))
        <4>1. n + 1 = ActiveLines(vreg') /\ ActiveLines(vreg') \in Nat
          BY <1>1, <1>9, <1>10, <2>2, <2>5, <2>6, <2>8
        <4>2. PICK e \in Nat, p \in Nat : Shown(e, p, n + 1)'
          BY <2>7, <3>3
        <4>3. /\ Reached(FirstRow(vreg'), Rowmask(vreg'), e, p, ActiveLines(vreg'))
              /\ vert'.B = shot'.base + RowStride(vreg') * e
          BY <4>1, <4>2 DEF Shown
        <4>4. FirstRow(vreg') \in 0..15 /\ Rowmask(vreg') \in 0..16 /\ ActiveLines(vreg') \in Nat
          BY <1>1, <4>1, Masks
        <4>5. RowsEnded(FirstRow(vreg'), Rowmask(vreg'), ActiveLines(vreg')) = e
          BY <4>3, <4>4, RowsAre
        <4> QED
          BY <4>3, <4>5
      <3>4. Rowed'
        BY <1>7, <1>8, <3>1, <3>3 DEF Rowed
      <3> QED
        BY <3>2, <3>4
    <2>9. CASE ~ends
      <3>1. /\ LinesDone' < ActiveTo' /\ LinesDone' >= ActiveFrom'
            /\ ~(LinesDone' >= ActiveTo') /\ ~(LinesDone' < ActiveFrom')
            /\ LinesDone' - ActiveFrom' = n + 1
            /\ vert'.lcount = LinesDone' - ActiveFrom'
        BY <1>7, <1>9, <1>10, <2>2, <2>3, <2>4, <2>5, <2>6, <2>9
      <3>2. Bordered'
        BY <1>7, <1>8, <2>2, <2>4, <2>9, <3>1 DEF Bordered
      <3>3. shot.rows => \E e, p \in Nat : Shown(e, p, LinesDone - ActiveFrom)'
        BY <2>7, <3>1
      <3>4. Rowed'
        BY <1>7, <1>8, <3>1, <3>3 DEF Rowed
      <3> QED
        BY <3>2, <3>4
    <2> QED
      BY <2>8, <2>9
  <1> QED
    BY <1>11, <1>12, <1>13


(* The horizontal border's point: the row of a line goes on. *)
LEMMA HbInv == ASSUME FramesInv, GimeHbIrq PROVE FramesInv'
  <1> DEFINE onto == (vert.row + 1) % 16
             full == Full(onto, Rowmask(vreg))
  <1>1. /\ vreg \in Settings /\ Y \in Offsets /\ vert \in Verts /\ shot \in Shots
        /\ tmr \in Timers /\ TimerCounts
        /\ vreg' = vreg /\ Y' = Y /\ tmr' = tmr /\ shot' = shot
        /\ vert.next = "hb" /\ vert' = [RowOn(vert, vreg) EXCEPT !.next = "hs"]
    BY DEF FramesInv, GimeHbIrq
  <1>2. vert.row \in 0..15 /\ onto \in 0..15 /\ full \in BOOLEAN
    BY <1>1 DEF Verts, Full
  <1>3. vert' = IF vert.active_area THEN [vert EXCEPT !.row = onto, !.row_advance = full,
                                                      !.next = "hs"]
                ELSE [vert EXCEPT !.row_advance = FALSE, !.next = "hs"]
    BY <1>1 DEF RowOn, Verts
  <1> HIDE DEF onto, full
  <1>4. vert' \in Verts
    <2>1. [vert EXCEPT !.row = onto, !.row_advance = full, !.next = "hs"] \in Verts
      BY <1>1, <1>2 DEF Verts
    <2>2. [vert EXCEPT !.row_advance = FALSE, !.next = "hs"] \in Verts
      BY <1>1 DEF Verts
    <2> QED
      BY <1>3, <2>1, <2>2
  <1>5. /\ vert'.next = "hs" /\ vert'.scanline = vert.scanline /\ vert'.lcount = vert.lcount
        /\ vert'.lF = vert.lF /\ vert'.lTB = vert.lTB /\ vert'.lAA = vert.lAA
        /\ vert'.sync = vert.sync /\ vert'.active_area = vert.active_area /\ vert'.fs = vert.fs
        /\ vert'.B = vert.B /\ vert'.row_stride = vert.row_stride
        /\ vert.active_area => vert'.row = onto /\ vert'.row_advance = full
    <2>1. CASE vert.active_area
      <3>1. vert' = [vert EXCEPT !.row = onto, !.row_advance = full, !.next = "hs"]
        BY <1>3, <2>1
      <3> QED
        BY <1>1, <3>1 DEF Verts
    <2>2. CASE ~vert.active_area
      <3>1. vert' = [vert EXCEPT !.row_advance = FALSE, !.next = "hs"]
        BY <1>3, <2>2
      <3> QED
        BY <1>1, <2>2, <3>1 DEF Verts
    <2> QED
      BY <2>1, <2>2
  <1>6. LinesDone' = LinesDone
    BY <1>1, <1>5 DEF LinesDone
  <1>7. ActiveFrom' = ActiveFrom /\ ActiveTo' = ActiveTo
    BY <1>1 DEF ActiveFrom, ActiveTo
  <1>8. /\ Latched => Latched'
        /\ Unbordered => Unbordered'
        /\ Bordered => Bordered'
    <2>1. Latched => Latched'
      BY <1>1, <1>5, <1>6 DEF Latched
    <2>2. Unbordered => Unbordered'
      BY <1>1, <1>5, <1>6 DEF Unbordered
    <2>3. Bordered => Bordered'
      BY <1>1, <1>5, <1>6, <1>7 DEF Bordered
    <2> QED
      BY <2>1, <2>2, <2>3
  <1>9. ASSUME Bordered, Rowed PROVE Rowed'
    <2>1. ASSUME NEW n \in Nat, NEW e \in Nat, NEW p \in Nat, Shown(e, p, n), vert.active_area
          PROVE  Shown(e, p, n)'
      <3> DEFINE start == IF e = 0 THEN FirstRow(vreg) ELSE 0
      <3>1. start \in 0..15
        BY <1>1, Masks
      <3>2. vert.row = (start + p + 0) % 16
        BY <1>1, <2>1 DEF Shown
      <3> HIDE DEF start
      <3>3. onto = (start + p + 1) % 16
        BY <3>1, <3>2 DEF onto
      <3>4. /\ vert'.row = (start + p + 1) % 16
            /\ vert'.row_advance = Full(vert'.row, Rowmask(vreg))
        BY <1>5, <2>1, <3>3 DEF full
      <3> QED
        BY <1>1, <1>5, <2>1, <3>4 DEF Shown, start
    <2>2. CASE shot.rows /\ LinesDone >= ActiveFrom /\ LinesDone < ActiveTo
      <3>1. vert.active_area /\ \E e, p \in Nat : Shown(e, p, LinesDone - ActiveFrom)
        BY <1>9, <2>2 DEF Bordered, Rowed
      <3>2. PICK e \in Nat, p \in Nat : Shown(e, p, LinesDone - ActiveFrom)
        BY <3>1
      <3>3. PICK n \in Nat : n = LinesDone - ActiveFrom
        <4>1. ActiveFrom \in Nat /\ LinesDone \in Nat
          <5>1. /\ TopLines(vreg) \in Nat /\ vert.scanline \in Nat
            BY <1>1, ModeBounds DEF Verts
          <5> QED
            BY <1>1, <5>1 DEF ActiveFrom, LinesDone, SyncLines
        <4> QED
          BY <2>2, <4>1
      <3>4. Shown(e, p, n)'
        BY <2>1, <3>1, <3>2, <3>3
      <3>5. \E a, b \in Nat : Shown(a, b, LinesDone - ActiveFrom)'
        BY <1>6, <1>7, <3>3, <3>4
      <3> QED
        BY <1>1, <1>5, <1>6, <1>7, <1>9, <2>2, <3>5 DEF Rowed
    <2>3. CASE ~(shot.rows /\ LinesDone >= ActiveFrom /\ LinesDone < ActiveTo)
      BY <1>1, <1>5, <1>6, <1>7, <1>9, <2>3 DEF Rowed
    <2> QED
      BY <2>2, <2>3
  <1> QED
    BY <1>1, <1>4, <1>8, <1>9 DEF FramesInv, TimerCounts

(* What the frame has is not touched by the timer, nor by HS. *)
LEMMA TimerInv ==
    ASSUME FramesInv, UNCHANGED <<vreg, Y, vert, shot>>, tmr' \in Timers, TimerCounts'
    PROVE  FramesInv'
  <1>1. LinesDone' = LinesDone /\ ActiveFrom' = ActiveFrom /\ ActiveTo' = ActiveTo
    BY DEF LinesDone, ActiveFrom, ActiveTo
  <1>2. ASSUME NEW e, NEW p, NEW n PROVE Shown(e, p, n)' <=> Shown(e, p, n)
    BY DEF Shown
  <1>3. Rowed => Rowed'
    BY <1>1, <1>2 DEF Rowed
  <1> QED
    BY <1>1, <1>3 DEF FramesInv, Latched, Bordered, Unbordered


(* The timer counts, once it is scheduled. *)
LEMMA Scheduled ==
    ASSUME NEW t \in Timers, t.pending => t.enabled
    PROVE  LET x == ScheduleTimer(t)
           IN  /\ x \in Timers /\ x.queued = (x.TINS /\ x.counter > 0)
               /\ x.lines = 0 /\ (x.pending => x.enabled)
               /\ x.counter = (IF x.value = 0 THEN 0 ELSE x.value + x.timer_offset)
               /\ ~t.TINS => ~x.queued
  <1> DEFINE reset == t.high * LowSize + t.low
             counter == IF reset = 0 THEN 0 ELSE reset + t.timer_offset
             queued == t.TINS /\ reset > 0
             x == ScheduleTimer(t)
  <1>1. /\ t.TINS \in BOOLEAN /\ t.high \in 0..1 /\ t.low \in Nat /\ t.timer_offset \in 1..2
        /\ LowSize \in Nat
    BY GimeAssumption DEF Timers
  <1>2. reset \in Nat /\ counter \in Nat /\ queued \in BOOLEAN
    <2>1. t.high * LowSize \in Nat
      BY <1>1
    <2> QED
      BY <1>1, <2>1
  <1>3. x = [t EXCEPT !.counter = counter, !.queued = queued, !.value = reset, !.lines = 0]
    BY DEF ScheduleTimer
  <1> HIDE DEF reset
  <1>4. queued = (t.TINS /\ counter > 0)
    BY <1>1, <1>2
  <1> HIDE DEF counter, queued
  <1>5. x \in Timers
    <2>1. ASSUME NEW c \in Nat, NEW q \in BOOLEAN, NEW v \in Nat
          PROVE  [t EXCEPT !.counter = c, !.queued = q, !.value = v, !.lines = 0] \in Timers
      BY DEF Timers
    <2> HIDE DEF x
    <2> QED
      BY <1>2, <1>3, <2>1
  <1>6. /\ x.TINS = t.TINS /\ x.counter = counter /\ x.queued = queued /\ x.value = reset
        /\ x.lines = 0 /\ x.timer_offset = t.timer_offset
        /\ x.pending = t.pending /\ x.enabled = t.enabled
    BY <1>3 DEF Timers
  <1> HIDE DEF x
  <1>7. /\ x.counter = (IF x.value = 0 THEN 0 ELSE x.value + x.timer_offset)
        /\ ~t.TINS => ~x.queued
    BY <1>6 DEF counter, queued
  <1> QED
    BY <1>4, <1>5, <1>6, <1>7 DEF x

LEMMA ScheduledCounts ==
    ASSUME NEW t \in Timers, t.pending => t.enabled, tmr' = ScheduleTimer(t)
    PROVE  tmr' \in Timers /\ TimerCounts'
  <1>1. /\ tmr' \in Timers /\ tmr'.queued = (tmr'.TINS /\ tmr'.counter > 0)
        /\ tmr'.lines = 0 /\ (tmr'.pending => tmr'.enabled)
        /\ tmr'.counter = (IF tmr'.value = 0 THEN 0 ELSE tmr'.value + tmr'.timer_offset)
    BY Scheduled
  <1>2. tmr'.value \in Nat /\ tmr'.timer_offset \in 1..2
    BY <1>1 DEF Timers
  <1> QED
    BY <1>1, <1>2 DEF TimerCounts

LEMMA UpdateCounts ==
    ASSUME NEW t \in Timers, t.pending => t.enabled, tmr' = UpdateTimer(t)
    PROVE  tmr' \in Timers /\ TimerCounts'
  <1> DEFINE u == [t EXCEPT !.pending = @ \/ t.enabled]
  <1>1. u \in Timers /\ (u.pending => u.enabled)
    BY DEF Timers
  <1>2. tmr' = ScheduleTimer(u)
    BY DEF UpdateTimer
  <1> QED
    BY <1>1, <1>2, ScheduledCounts

LEMMA CountedCounts ==
    ASSUME tmr \in Timers, TimerCounts, tmr' = Counted(tmr)
    PROVE  tmr' \in Timers /\ TimerCounts'
  <1> DEFINE c == [tmr EXCEPT !.counter = @ - 1, !.lines = @ + 1]
  <1>1. CASE tmr.TINS \/ tmr.counter = 0
    <2>1. tmr' = tmr
      BY <1>1 DEF Counted
    <2> QED
      BY <2>1 DEF TimerCounts
  <1>2. CASE ~tmr.TINS /\ tmr.counter > 1
    <2>1. tmr' = c
      BY <1>2 DEF Counted
    <2>2. tmr.counter \in Nat /\ tmr.lines \in Nat /\ tmr.value \in Nat /\ tmr.timer_offset \in 1..2
      BY DEF Timers
    <2>3. tmr.counter - 1 \in Nat /\ tmr.lines + 1 \in Nat
      BY <1>2, <2>2
    <2>4. tmr' \in Timers
      BY <2>1, <2>3 DEF Timers
    <2>5. /\ tmr'.TINS = tmr.TINS /\ tmr'.counter = tmr.counter - 1 /\ tmr'.lines = tmr.lines + 1
          /\ tmr'.value = tmr.value /\ tmr'.timer_offset = tmr.timer_offset
          /\ tmr'.queued = tmr.queued /\ tmr'.pending = tmr.pending /\ tmr'.enabled = tmr.enabled
      BY <2>1 DEF Timers
    <2>6. /\ tmr.queued = (tmr.TINS /\ tmr.counter > 0) /\ (tmr.pending => tmr.enabled)
          /\ tmr.counter = IF tmr.value = 0 THEN 0
                           ELSE tmr.value + tmr.timer_offset - tmr.lines
      BY DEF TimerCounts
    <2>7. /\ tmr'.queued = (tmr'.TINS /\ tmr'.counter > 0) /\ (tmr'.pending => tmr'.enabled)
          /\ tmr'.counter = (IF tmr'.value = 0 THEN 0
                             ELSE tmr'.value + tmr'.timer_offset - tmr'.lines)
          /\ tmr'.counter > 0
      BY <1>2, <2>2, <2>5, <2>6
    <2> QED
      BY <2>4, <2>7 DEF TimerCounts
  <1>3. CASE ~tmr.TINS /\ tmr.counter = 1
    <2>1. tmr' = UpdateTimer(c)
      BY <1>3 DEF Counted
    <2>2. tmr.counter - 1 \in Nat /\ tmr.lines + 1 \in Nat
      BY <1>3 DEF Timers
    <2>3. c \in Timers
      BY <2>2 DEF Timers
    <2>4. c.pending => c.enabled
      BY DEF TimerCounts, Timers
    <2> QED
      BY <2>1, <2>3, <2>4, UpdateCounts
  <1> QED
    <2>1. tmr.counter \in Nat
      BY DEF Timers
    <2> QED
      BY <1>1, <1>2, <1>3, <2>1


LEMMA HsInv == ASSUME FramesInv, GimeHsFall PROVE FramesInv'
  <1>1. /\ vreg \in Settings /\ Y \in Offsets /\ vert \in Verts /\ shot \in Shots
        /\ tmr \in Timers /\ TimerCounts
        /\ vreg' = vreg /\ Y' = Y /\ shot' = shot /\ vert.next = "hs"
        /\ vert' = [vert EXCEPT !.scanline = @ + 1, !.next = "vb"] /\ tmr' = Counted(tmr)
    BY DEF FramesInv, GimeHsFall
  <1>2. tmr' \in Timers /\ TimerCounts'
    BY <1>1, CountedCounts
  <1>3. vert' \in Verts
    <2>1. vert.scanline + 1 \in Nat
      BY <1>1 DEF Verts
    <2> QED
      BY <1>1, <2>1 DEF Verts
  <1>4. /\ vert'.next = "vb" /\ vert'.scanline = vert.scanline + 1
        /\ vert'.lcount = vert.lcount
        /\ vert'.lF = vert.lF /\ vert'.lTB = vert.lTB /\ vert'.lAA = vert.lAA
        /\ vert'.sync = vert.sync /\ vert'.active_area = vert.active_area /\ vert'.fs = vert.fs
        /\ vert'.B = vert.B /\ vert'.row_stride = vert.row_stride
        /\ vert'.row = vert.row /\ vert'.row_advance = vert.row_advance
        /\ vert.scanline \in Nat
    BY <1>1 DEF Verts
  <1>5. LinesDone' = LinesDone
    BY <1>1, <1>4 DEF LinesDone
  <1>6. ActiveFrom' = ActiveFrom /\ ActiveTo' = ActiveTo
    BY <1>1 DEF ActiveFrom, ActiveTo
  <1>7. ASSUME NEW e, NEW p, NEW n, Shown(e, p, n) PROVE Shown(e, p, n)'
    BY <1>1, <1>4, <1>7 DEF Shown
  <1>8. Latched => Latched'
    BY <1>1, <1>4, <1>5 DEF Latched
  <1>9. (Unbordered => Unbordered') /\ (Bordered => Bordered')
    BY <1>1, <1>4, <1>5, <1>6 DEF Unbordered, Bordered
  <1>10. Rowed => Rowed'
    BY <1>1, <1>4, <1>5, <1>6, <1>7 DEF Rowed
  <1> QED
    BY <1>1, <1>2, <1>3, <1>8, <1>9, <1>10 DEF FramesInv

(* A register that is written: the top border is as long again as the mode has it. *)
LEMMA WriteInv ==
    ASSUME FramesInv, NEW r \in Settings, vreg' = r, Y' = Y, tmr' = tmr,
           vert' = [vert EXCEPT !.lTB = TopLines(r)], shot' \in Shots,
           shot'.shape => shot.shape /\ r.COCO = vreg.COCO /\ r.H50 = vreg.H50 /\ r.LPF = vreg.LPF,
           shot'.rows => shot.rows /\ r = vreg,
           shot'.carried = shot.carried, shot'.rewritten,
           shot'.base = shot.base, shot'.vbords = shot.vbords
    PROVE  FramesInv'
  <1>1. /\ vreg \in Settings /\ Y \in Offsets /\ vert \in Verts /\ shot \in Shots
        /\ tmr \in Timers /\ TimerCounts
    BY DEF FramesInv
  <1>2. TopLines(r) \in Nat
    BY ModeBounds
  <1>3. vert' \in Verts
    BY <1>1, <1>2 DEF Verts
  <1>4. FramesInv' <=>
           (shot'.shape => Latched' /\ (~shot'.carried => Bordered' /\ Rowed'))
    BY <1>1, <1>3 DEF FramesInv, TimerCounts
  <1> SUFFICES ASSUME shot'.shape
               PROVE  Latched' /\ (~shot'.carried => Bordered' /\ Rowed')
    BY <1>4
  <1>5. /\ vert'.next = vert.next /\ vert'.scanline = vert.scanline
        /\ vert'.lcount = vert.lcount /\ vert'.lTB = TopLines(r)
        /\ vert'.lF = vert.lF /\ vert'.lAA = vert.lAA
        /\ vert'.sync = vert.sync /\ vert'.active_area = vert.active_area /\ vert'.fs = vert.fs
        /\ vert'.B = vert.B /\ vert'.row_stride = vert.row_stride
        /\ vert'.row = vert.row /\ vert'.row_advance = vert.row_advance
    BY <1>1 DEF Verts
  <1>6. /\ TopLines(vreg)' = TopLines(vreg) /\ ActiveLines(vreg)' = ActiveLines(vreg)
        /\ FrameLines[vreg.H50]' = FrameLines[vreg.H50] /\ TopLines(r) = TopLines(vreg)
    BY DEF TopLines, ActiveLines
  <1>7. LinesDone' = LinesDone
    BY <1>5 DEF LinesDone
  <1>8. ActiveFrom' = ActiveFrom /\ ActiveTo' = ActiveTo
    BY <1>6 DEF ActiveFrom, ActiveTo
  <1>9. Latched /\ (~shot.carried => Bordered /\ Rowed)
    BY DEF FramesInv
  <1>10. Latched'
    BY <1>5, <1>6, <1>7, <1>9 DEF Latched
  <1>11. ASSUME ~shot'.carried PROVE Bordered' /\ Rowed'
    <2>1. Bordered /\ Rowed
      BY <1>9, <1>11
    <2>2. Bordered'
      BY <1>5, <1>6, <1>7, <1>8, <2>1 DEF Bordered
    <2>3. ~vert'.sync /\ LinesDone' < ActiveFrom' => vert'.B = shot'.base
      BY <1>5, <1>7, <1>8, <2>1 DEF Rowed
    <2>4. CASE shot'.rows
      <3>1. shot.rows /\ vreg' = vreg
        BY <2>4
      <3>2. ASSUME NEW e, NEW p, NEW n, Shown(e, p, n) PROVE Shown(e, p, n)'
        BY <1>5, <3>1, <3>2 DEF Shown
      <3>3. /\ LinesDone' >= ActiveFrom'
            /\ LinesDone' < ActiveTo' =>
                  \E e, p \in Nat : Shown(e, p, LinesDone - ActiveFrom)'
        BY <1>7, <1>8, <2>1, <3>1, <3>2 DEF Rowed
      <3>4. LinesDone' >= ActiveTo' =>
               vert'.B = shot'.base + RowStride(vreg')
                           * RowsEnded(FirstRow(vreg'), Rowmask(vreg'), ActiveLines(vreg'))
        BY <1>5, <1>7, <1>8, <2>1, <3>1 DEF Rowed
      <3> QED
        BY ONLY <2>2, <2>3, <3>3, <3>4 DEF Rowed
    <2>5. CASE ~shot'.rows
      BY ONLY <2>2, <2>3, <2>5 DEF Rowed
    <2> QED
      BY <2>2, <2>4, <2>5
  <1> QED
    BY <1>10, <1>11

LEMMA GimeInitInv == GimeInit => FramesInv
  <1> SUFFICES ASSUME GimeInit PROVE FramesInv
    OBVIOUS
  <1>1. TopLines(Zeroed) \in Nat /\ Zeroed \in Settings /\ 0 \in Offsets
    BY ModeBounds, GimeAssumption
  <1>2. vert \in Verts
    BY SMT, <1>1 DEF GimeInit, Verts
  <1>3. shot \in Shots /\ ~shot.shape
    BY SMT, GimeAssumption DEF GimeInit, Shots
  <1>4. 0 \in 0..(LowSize - 1)
    BY GimeAssumption
  <1>5. TimerInit
    BY SMT DEF GimeInit
  <1>6. tmr \in Timers /\ TimerCounts
    <2>1. PICK offset \in 1..2 :
             tmr = [TINS |-> FALSE, high |-> 0, low |-> 0, timer_offset |-> offset,
                    counter |-> 0, queued |-> FALSE, enabled |-> FALSE, pending |-> FALSE,
                    value |-> 0, lines |-> 0]
      BY <1>5 DEF TimerInit
    <2>2. tmr \in Timers
      BY <1>4, <2>1 DEF Timers
    <2>3. /\ tmr.queued = FALSE /\ tmr.counter = 0 /\ tmr.value = 0 /\ tmr.pending = FALSE
      BY <2>1
    <2>4. ~(tmr.counter > 0)
      BY <2>3
    <2> QED
      BY <2>2, <2>3, <2>4 DEF TimerCounts
  <1>7. vreg = Zeroed /\ Y = 0
    BY SMT DEF GimeInit
  <1> QED
    BY <1>1, <1>2, <1>3, <1>6, <1>7 DEF FramesInv


LEMMA VbInv == ASSUME FramesInv, GimeVbIrq PROVE FramesInv'
  <1> DEFINE w == RowEnds(vert, vreg)
  <1>1. VbStep(w)
    BY DEF VbStep, GimeVbIrq
  <1>2. FrameBegins(w) \/ InSync(w) \/ InBorder(w) \/ InActiveArea(w)
    BY DEF GimeVbIrq
  <1> HIDE DEF w
  <1>3. PICK v : v = w
    OBVIOUS
  <1> QED
    BY <1>1, <1>2, <1>3, FrameBeginsInv, InSyncInv, InBorderInv, InActiveAreaInv

LEMMA ResetInv == ASSUME FramesInv, GimeReset PROVE FramesInv'
  <1> DEFINE t == [tmr EXCEPT !.TINS = FALSE, !.high = 0]
             x == ScheduleTimer(t)
  <1>1. /\ vert \in Verts /\ shot \in Shots /\ tmr \in Timers /\ TimerCounts
        /\ shot.writes < LastWrite /\ vreg' = Zeroed /\ Y' = 0
        /\ vert' = [vert EXCEPT !.scanline = 0, !.sync = TRUE, !.lcount = 0, !.row = 0,
                                !.lTB = TopLines(Zeroed)]
        /\ shot' = [shot EXCEPT !.writes = @ + 1, !.shape = FALSE, !.rows = FALSE]
        /\ tmr' = [x EXCEPT !.low = 0, !.enabled = FALSE, !.pending = FALSE]
    BY DEF FramesInv, GimeReset
  <1>2. Zeroed \in Settings /\ 0 \in Offsets /\ LastWrite \in Nat /\ 0 \in 0..(LowSize - 1)
    BY GimeAssumption
  <1>3. TopLines(Zeroed) \in Nat
    BY <1>2, ModeBounds
  <1>4. vert' \in Verts
    <2>1. ASSUME NEW l \in Nat, NEW n \in Nat, NEW b \in BOOLEAN, NEW o \in 0..15
          PROVE  [vert EXCEPT !.scanline = n, !.sync = b, !.lcount = n, !.row = o,
                              !.lTB = l] \in Verts
      BY <1>1 DEF Verts
    <2>2. 0 \in Nat /\ TRUE \in BOOLEAN /\ 0 \in 0..15
      OBVIOUS
    <2> QED
      BY <1>1, <1>3, <2>1, <2>2
  <1>5. shot' \in Shots /\ ~shot'.shape
    <2>1. shot.writes + 1 \in 0..LastWrite
      BY <1>1, <1>2 DEF Shots
    <2> QED
      BY <1>1, <2>1 DEF Shots
  <1>6. t \in Timers
    <2>1. ASSUME NEW b \in BOOLEAN, NEW h \in 0..1
          PROVE  [tmr EXCEPT !.TINS = b, !.high = h] \in Timers
      BY <1>1 DEF Timers
    <2>2. FALSE \in BOOLEAN /\ 0 \in 0..1
      OBVIOUS
    <2> QED
      BY <2>1, <2>2
  <1>7. t.pending = tmr.pending /\ t.enabled = tmr.enabled
    BY <1>1 DEF Timers
  <1>8. t.pending => t.enabled
    BY <1>1, <1>7 DEF TimerCounts
  <1> HIDE DEF t
  <1>9. /\ x \in Timers /\ x.queued = (x.TINS /\ x.counter > 0) /\ x.lines = 0
        /\ x.counter = (IF x.value = 0 THEN 0 ELSE x.value + x.timer_offset)
    BY <1>6, <1>8, Scheduled
  <1> HIDE DEF x
  <1>10. tmr' \in Timers
    BY <1>1, <1>2, <1>9 DEF Timers
  <1>11. /\ tmr'.queued = x.queued /\ tmr'.TINS = x.TINS /\ tmr'.counter = x.counter
         /\ tmr'.value = x.value /\ tmr'.timer_offset = x.timer_offset /\ tmr'.lines = 0
         /\ tmr'.pending = FALSE /\ x.value \in Nat /\ x.timer_offset \in 1..2
    BY <1>1, <1>9 DEF Timers
  <1>12. TimerCounts'
    BY <1>9, <1>11 DEF TimerCounts
  <1> QED
    BY <1>1, <1>2, <1>4, <1>5, <1>10, <1>12 DEF FramesInv

LEMMA OffsetInv == ASSUME FramesInv, NEW y \in Offsets, WriteOffset(y) PROVE FramesInv'
  <1>1. /\ vreg' = vreg /\ vert' = vert /\ tmr' = tmr /\ Y' = y /\ shot \in Shots
        /\ shot.writes < LastWrite /\ shot' = [shot EXCEPT !.writes = @ + 1]
        /\ LastWrite \in Nat
    BY GimeAssumption DEF FramesInv, WriteOffset
  <1>2. shot' \in Shots
    <2>1. shot.writes + 1 \in 0..LastWrite
      BY <1>1 DEF Shots
    <2> QED
      BY <1>1, <2>1 DEF Shots
  <1>3. /\ shot'.shape = shot.shape /\ shot'.rows = shot.rows /\ shot'.carried = shot.carried
        /\ shot'.rewritten = shot.rewritten /\ shot'.base = shot.base
        /\ shot'.vbords = shot.vbords
    BY <1>1 DEF Shots
  <1>4. LinesDone' = LinesDone /\ ActiveFrom' = ActiveFrom /\ ActiveTo' = ActiveTo
    BY <1>1 DEF LinesDone, ActiveFrom, ActiveTo
  <1>5. ASSUME NEW e, NEW p, NEW n PROVE Shown(e, p, n)' <=> Shown(e, p, n)
    BY <1>1, <1>3 DEF Shown
  <1>6. Rowed => Rowed'
    BY <1>1, <1>3, <1>4, <1>5 DEF Rowed
  <1>7. Latched => Latched'
    BY <1>1, <1>4 DEF Latched
  <1>8. (Bordered => Bordered') /\ (Unbordered => Unbordered')
    BY <1>1, <1>3, <1>4 DEF Bordered, Unbordered
  <1>9. FramesInv
    OBVIOUS
  <1>10. Y' \in Offsets /\ TimerCounts'
    BY <1>1, <1>9 DEF FramesInv, TimerCounts
  <1> QED
    BY <1>1, <1>2, <1>3, <1>6, <1>7, <1>8, <1>9, <1>10 DEF FramesInv

LEMMA TimerStep ==
    ASSUME FramesInv, TimerNext, ~LineNext PROVE FramesInv'
  <1>1. tmr \in Timers /\ TimerCounts /\ (tmr.pending => tmr.enabled)
    BY DEF FramesInv, TimerCounts
  <1> SUFFICES UNCHANGED <<vreg, Y, vert, shot>> /\ tmr' \in Timers /\ TimerCounts'
    BY TimerInv
  <1>2. CASE DoUpdateTimer
    BY <1>1, <1>2, UpdateCounts DEF DoUpdateTimer
  <1>3. CASE AcknowledgeTimer
    <2>1. tmr' = [tmr EXCEPT !.pending = FALSE] /\ UNCHANGED <<vreg, Y, vert, shot>>
      BY <1>3 DEF AcknowledgeTimer
    <2> QED
      BY <1>1, <2>1 DEF Timers, TimerCounts
  <1>4. ASSUME NEW high \in 0..1, WriteHigh(high)
        PROVE  UNCHANGED <<vreg, Y, vert, shot>> /\ tmr' \in Timers /\ TimerCounts'
    <2> DEFINE t == [tmr EXCEPT !.high = high]
    <2>1. t \in Timers /\ (t.pending => t.enabled)
      BY <1>1 DEF Timers
    <2>2. tmr' = ScheduleTimer(t) /\ UNCHANGED <<vreg, Y, vert, shot>>
      BY <1>4 DEF WriteHigh
    <2> QED
      BY <2>1, <2>2, ScheduledCounts
  <1>5. ASSUME NEW low \in 0..(LowSize - 1), WriteLow(low)
        PROVE  UNCHANGED <<vreg, Y, vert, shot>> /\ tmr' \in Timers /\ TimerCounts'
    <2>1. tmr' = [tmr EXCEPT !.low = low] /\ UNCHANGED <<vreg, Y, vert, shot>>
      BY <1>5 DEF WriteLow
    <2> QED
      BY <1>1, <2>1 DEF Timers, TimerCounts
  <1>6. ASSUME NEW on \in BOOLEAN, WriteRate(on)
        PROVE  UNCHANGED <<vreg, Y, vert, shot>> /\ tmr' \in Timers /\ TimerCounts'
    <2> DEFINE t == [tmr EXCEPT !.TINS = on]
    <2>1. t \in Timers /\ (t.pending => t.enabled)
      BY <1>1 DEF Timers
    <2>2. UNCHANGED <<vreg, Y, vert, shot>> /\ (tmr' = tmr \/ tmr' = ScheduleTimer(t))
      BY <1>6 DEF WriteRate
    <2>3. CASE tmr' = tmr
      BY <1>1, <2>2, <2>3 DEF TimerCounts
    <2>4. CASE tmr' = ScheduleTimer(t)
      BY <2>1, <2>2, <2>4, ScheduledCounts
    <2> QED
      BY <2>2, <2>3, <2>4
  <1>7. ASSUME NEW on \in BOOLEAN, EnableTimer(on)
        PROVE  UNCHANGED <<vreg, Y, vert, shot>> /\ tmr' \in Timers /\ TimerCounts'
    <2> DEFINE raised == on /\ (tmr.pending \/ (~tmr.enabled /\ tmr.counter = 0))
    <2>1. /\ tmr' = [tmr EXCEPT !.enabled = on, !.pending = raised]
          /\ UNCHANGED <<vreg, Y, vert, shot>>
      BY <1>7 DEF EnableTimer
    <2>2. raised \in BOOLEAN /\ (raised => on)
      OBVIOUS
    <2> HIDE DEF raised
    <2>3. tmr' \in Timers
      BY <1>1, <2>1, <2>2 DEF Timers
    <2>4. /\ tmr'.queued = tmr.queued /\ tmr'.TINS = tmr.TINS /\ tmr'.counter = tmr.counter
          /\ tmr'.value = tmr.value /\ tmr'.timer_offset = tmr.timer_offset
          /\ tmr'.lines = tmr.lines /\ tmr'.pending = raised /\ tmr'.enabled = on
      BY <1>1, <2>1 DEF Timers
    <2>5. TimerCounts'
      BY <1>1, <2>2, <2>4 DEF TimerCounts
    <2> QED
      BY <2>1, <2>3, <2>5
  <1> QED
    BY <1>2, <1>3, <1>4, <1>5, <1>6, <1>7 DEF TimerNext

LEMMA GimeNextInv == ASSUME FramesInv, [FramesNext \/ TimerNext]_gimeVars PROVE FramesInv'
  <1>1. CASE GimeHsFall
    BY <1>1, HsInv
  <1>2. CASE GimeVbIrq
    BY <1>2, VbInv
  <1>3. CASE GimeHbIrq
    BY <1>3, HbInv
  <1>4. CASE GimeReset
    BY <1>4, ResetInv
  <1>5. CASE Rewrite
    <2>1. PICK r \in Settings : r = vreg
      BY DEF FramesInv
    <2>2. /\ vreg' = r /\ Y' = Y /\ tmr' = tmr /\ vert' = [vert EXCEPT !.lTB = TopLines(r)]
          /\ shot' = [shot EXCEPT !.rewritten = TRUE] /\ shot \in Shots
      BY <1>5, <2>1 DEF Rewrite, FramesInv
    <2>3. /\ shot' \in Shots /\ shot'.shape = shot.shape /\ shot'.rows = shot.rows
          /\ shot'.carried = shot.carried /\ shot'.rewritten /\ shot'.base = shot.base
          /\ shot'.vbords = shot.vbords
      BY <2>2 DEF Shots
    <2> QED
      BY <2>1, <2>2, <2>3, WriteInv
  <1>6. ASSUME NEW r \in Settings, Write(r) PROVE FramesInv'
    <2> DEFINE shape == shot.shape /\ r.COCO = vreg.COCO /\ r.H50 = vreg.H50 /\ r.LPF = vreg.LPF
    <2>1. /\ vreg' = r /\ Y' = Y /\ tmr' = tmr /\ vert' = [vert EXCEPT !.lTB = TopLines(r)]
          /\ shot' = [shot EXCEPT !.writes = @ + 1, !.rewritten = TRUE, !.rows = FALSE,
                                  !.shape = shape]
          /\ shot \in Shots /\ shot.writes < LastWrite /\ LastWrite \in Nat
      BY <1>6, GimeAssumption DEF Write, FramesInv
    <2>2. shot.writes + 1 \in 0..LastWrite /\ shape \in BOOLEAN
      BY <2>1 DEF Shots
    <2> HIDE DEF shape
    <2>3. /\ shot' \in Shots /\ shot'.shape = shape /\ ~shot'.rows
          /\ shot'.carried = shot.carried /\ shot'.rewritten /\ shot'.base = shot.base
          /\ shot'.vbords = shot.vbords
      BY <2>1, <2>2 DEF Shots
    <2> QED
      BY <2>1, <2>3, WriteInv DEF shape
  <1>7. ASSUME NEW y \in Offsets, WriteOffset(y) PROVE FramesInv'
    BY <1>7, OffsetInv
  <1>8. CASE TimerNext /\ ~LineNext
    BY <1>8, TimerStep
  <1>9. CASE UNCHANGED gimeVars
    <2>1. UNCHANGED <<vreg, Y, vert, shot>> /\ tmr' = tmr
      BY <1>9 DEF gimeVars
    <2>2. tmr' \in Timers /\ TimerCounts'
      BY <2>1 DEF FramesInv, TimerCounts
    <2> QED
      BY <2>1, <2>2, TimerInv
  <1> QED
    BY <1>1, <1>2, <1>3, <1>4, <1>5, <1>6, <1>7, <1>8, <1>9 DEF FramesNext, LineNext

LEMMA FramesInvWhole == FramesInv => FramesWhole
  <1> SUFFICES ASSUME FramesInv PROVE FramesWhole
    OBVIOUS
  <1> DEFINE L == LinesDone
             A == ActiveLines(vreg)
  <1>1. /\ vreg \in Settings /\ vert \in Verts /\ shot \in Shots /\ tmr \in Timers
        /\ TimerCounts
        /\ shot.shape =>
              /\ Latched /\ (shot.carried /\ ~shot.rewritten => Unbordered)
              /\ (~shot.carried => Bordered /\ Rowed)
    BY DEF FramesInv
  <1>2. /\ TopLines(vreg) \in Nat \ {0} /\ A \in Nat \ {0} /\ FrameLines[vreg.H50] \in Nat
        /\ SyncLines = 7 /\ ActiveFrom = SyncLines + TopLines(vreg) /\ ActiveTo = ActiveFrom + A
        /\ vert.sync \in BOOLEAN /\ vert.fs \in BOOLEAN /\ vert.active_area \in BOOLEAN
    BY <1>1, ModeBounds DEF ActiveFrom, ActiveTo, SyncLines, Verts
  <1>3. ASSUME shot.shape
        PROVE  /\ L \in Nat /\ L < FrameLines[vreg.H50]
               /\ vert.sync = (L < SyncLines) /\ vert.fs = (L >= 4)
    BY <1>1, <1>2, <1>3 DEF Latched
  <1>4. ASSUME shot.shape, ~shot.carried
        PROVE  /\ vert.active_area = (L >= ActiveFrom /\ L < ActiveTo)
               /\ shot.vbords = IF L >= ActiveTo THEN 1 ELSE 0
    <2>1. Bordered /\ L \in Nat
      BY <1>1, <1>3, <1>4
    <2>2. CASE L < ActiveFrom
      BY <1>2, <2>1, <2>2 DEF Bordered
    <2>3. CASE L >= ActiveFrom /\ L < ActiveTo
      BY <1>2, <2>1, <2>3 DEF Bordered
    <2>4. CASE L >= ActiveTo
      BY <1>2, <2>1, <2>4 DEF Bordered
    <2> QED
      BY <1>2, <2>1, <2>2, <2>3, <2>4
  <1>5. ASSUME shot.shape, shot.carried, ~shot.rewritten
        PROVE  vert.active_area = (L < SyncLines + A)
    <2>1. Unbordered /\ L \in Nat
      BY <1>1, <1>3, <1>5
    <2>2. L < SyncLines + A \/ L >= SyncLines + A
      BY <1>2, <2>1
    <2> QED
      BY <1>2, <2>1, <2>2 DEF Unbordered
  <1>6. ASSUME shot.shape PROVE FrameShape
    BY <1>2, <1>3, <1>4, <1>5, <1>6 DEF FrameShape
  <1>7. ASSUME shot.shape, shot.rows, ~shot.carried PROVE RowsInPlace
    <2> DEFINE n == L - ActiveFrom
               lines_ == IF n < A THEN n ELSE A
               ended == RowsEnded(FirstRow(vreg), Rowmask(vreg), lines_)
    <2>1. Rowed /\ L \in Nat
      BY <1>1, <1>3, <1>7
    <2>2. vert.B = shot.base + RowStride(vreg) * ended
      <3>1. CASE L < ActiveTo
        <4>1. PICK e \in Nat, p \in Nat : Shown(e, p, n)
          BY <1>7, <2>1, <3>1 DEF Rowed
        <4>2. n \in Nat /\ lines_ = n
          BY <1>2, <1>7, <2>1, <3>1 DEF Rowed
        <4>3. FirstRow(vreg) \in 0..15 /\ Rowmask(vreg) \in 0..16
          BY <1>1, Masks
        <4>4. /\ Reached(FirstRow(vreg), Rowmask(vreg), e, p, n)
              /\ vert.B = shot.base + RowStride(vreg) * e
          BY <4>1 DEF Shown
        <4>5. RowsEnded(FirstRow(vreg), Rowmask(vreg), n) = e
          <5> HIDE DEF n
          <5> QED
            BY <4>2, <4>3, <4>4, RowsAre
        <4> QED
          BY <4>2, <4>4, <4>5
      <3>2. CASE L >= ActiveTo
        <4>1. lines_ = A
          BY <1>2, <2>1, <3>2
        <4> QED
          BY <1>7, <2>1, <3>2, <4>1 DEF Rowed
      <3> QED
        BY <1>2, <2>1, <3>1, <3>2
    <2> QED
      BY <1>2, <2>2 DEF RowsInPlace
  <1> QED
    BY <1>1, <1>6, <1>7 DEF FramesWhole

(* Whatever registers are written in the middle of frames, and however often it is reset,
   a frame that keeps its shape has its sync, its active area and its interrupt where the
   mode has them, one that keeps its mode shows each row from its place, and the timer is
   on time (tcc1014.c:1020-1243, 1535-1602).  It holds for any tables that fit. *)
THEOREM FramesAreWhole == GimeSpec => []FramesWhole
  BY GimeInitInv, GimeNextInv, FramesInvWhole, PTL DEF GimeSpec

-----------------------------------------------------------------------------
(* The MC6803's timer *)

\* What holds of the timer in the middle of an instruction too.
McuTiming(s) ==
    /\ s \in Mcus
    /\ s.owed \subseteq s.flags \intersect s.enabled
    /\ s.owed \ s.dropped # {} => s.irq2_latch
    /\ s.irq2_latch => s.owed # {} \/ s.stale
    /\ s.unseen \subseteq s.flags
    /\ s.read \subseteq s.flags \ s.unseen
    /\ ~s.halved

\* The program may push one more frame.
McuRoom(s) == Len(s.stack) < Nested

\* An active interrupt has its cause or is masked, and so is the program at the bound.
McuCaused(s) == s.irq2_active => s.owed # {} \/ s.stale \/ (s.I /\ s.itmp)
McuMasked(s) == (s.I /\ s.itmp) \/ McuRoom(s)

McuInv ==
    /\ McuTiming(mcu) /\ McuCaused(mcu)
    /\ Len(mcu.stack) <= Nested
    /\ mcu.state \in {"label_a", "next_instruction"} => McuMasked(mcu)
    /\ mcu.state = "dispatch_irq" => mcu.owed # {} \/ mcu.stale

LEMMA McuLastCount ==
    /\ LastCount \in Nat /\ LastCount >= 3
    /\ Preset \in 0..LastCount
    /\ \A high, low \in 0..(ByteSize - 1) : high * ByteSize + low \in 0..LastCount
  <1>1. /\ ByteSize \in Nat /\ ByteSize >= 2
    BY Mc6801Assumption
  <1>2. ByteSize * ByteSize >= 2 * ByteSize
    BY <1>1, SMT
  <1>3. ByteSize * ByteSize \in Nat
    BY <1>1, SMT
  <1>4. ASSUME NEW high \in 0..(ByteSize - 1), NEW low \in 0..(ByteSize - 1)
        PROVE  high * ByteSize + low \in 0..LastCount
    <2>1. /\ high * ByteSize \in Nat
          /\ high * ByteSize <= (ByteSize - 1) * ByteSize
      BY <1>1, SMT
    <2>2. (ByteSize - 1) * ByteSize = ByteSize * ByteSize - ByteSize
      BY <1>1, SMT
    <2> HIDE DEF LastCount
    <2> QED
      BY <1>1, <1>3, <2>1, <2>2, SMT DEF LastCount
  <1> QED
    BY <1>1, <1>2, <1>3, <1>4, Mc6801Assumption, SMT DEF LastCount

\* What of the processor the cycles leave alone.
McuKept(s, t) ==
    /\ t.state = s.state /\ t.I = s.I /\ t.itmp = s.itmp /\ t.stack = s.stack
    /\ t.irq2_active = s.irq2_active /\ t.enabled = s.enabled /\ t.stale = s.stale
    /\ s.owed \subseteq t.owed

(* However many cycles pass, and whatever is met in them. *)
LEMMA McuPassed ==
    ASSUME NEW s, McuTiming(s), NEW n \in Nat
    PROVE  McuTiming(McuCycles(s, n)) /\ McuKept(s, McuCycles(s, n))
  <1> DEFINE after(k) == (s.counter + k) % (LastCount + 1)
             met == {f \in TimerFlags : \E k \in 1..n :
                        /\ after(k) = IF f = "TOF" THEN LastCount ELSE s.output_compare
                        /\ f = "OCF" /\ k = 1 => ~s.output_compare_inhibit}
             counter == after(n)
             t == McuCycles(s, n)
  <1>1. counter \in 0..LastCount
    BY McuLastCount DEF McuTiming, Mcus
  <1>2. met \subseteq TimerFlags
    OBVIOUS
  <1>3. t = [s EXCEPT !.counter = counter, !.output_compare_inhibit = @ /\ n = 0,
                  !.flags = @ \union met, !.unseen = @ \union (met \ s.flags),
                  !.irq2_latch = @ \/ met \intersect s.enabled # {},
                  !.owed = @ \union (met \intersect s.enabled),
                  !.dropped = @ \ (met \intersect s.enabled)]
    BY DEF McuCycles
  <1> HIDE DEF counter, met, t
  <1>4. /\ t.flags = s.flags \union met /\ t.unseen = s.unseen \union (met \ s.flags)
        /\ t.irq2_latch = (s.irq2_latch \/ met \intersect s.enabled # {})
        /\ t.owed = s.owed \union (met \intersect s.enabled)
        /\ t.dropped = s.dropped \ (met \intersect s.enabled)
        /\ t.enabled = s.enabled /\ t.stale = s.stale /\ t.read = s.read /\ t.halved = s.halved
    BY <1>3 DEF McuTiming, Mcus
  <1>5. t \in Mcus
    BY <1>1, <1>2, <1>3 DEF McuTiming, Mcus
  <1>6. McuTiming(t)
    BY <1>4, <1>5 DEF McuTiming
  <1>7. McuKept(s, t)
    BY <1>3, <1>4 DEF McuTiming, Mcus, McuKept
  <1> QED
    BY <1>6, <1>7 DEF t

LEMMA McuPassedOne ==
    ASSUME NEW s, McuTiming(s)
    PROVE  McuTiming(McuCycle(s)) /\ McuKept(s, McuCycle(s))
  BY McuPassed DEF McuCycle

(* The latch is put out. *)
LEMMA McuUnlatched ==
    ASSUME NEW s, McuTiming(s)
    PROVE  LET t == Unlatched(s)
           IN  McuTiming(t) /\ McuKept(s, t) /\ ~t.irq2_latch
  BY DEF McuTiming, Mcus, Unlatched, McuKept

(* The registers are pushed, and I with them. *)
LEMMA McuPushed ==
    ASSUME NEW s, McuTiming(s)
    PROVE  LET t == McuStacked(s)
           IN  /\ McuTiming(t) /\ t.I = s.I /\ t.itmp = s.itmp /\ t.irq2_active = s.irq2_active
               /\ t.stale = s.stale /\ s.owed \subseteq t.owed
               /\ t.stack = Append(s.stack, s.I) /\ Len(t.stack) = Len(s.stack) + 1
  <1> DEFINE c == McuCycles(s, 7)
             t == McuStacked(s)
  <1>1. McuTiming(c) /\ McuKept(s, c)
    BY McuPassed
  <1>2. t = [c EXCEPT !.stack = Append(s.stack, s.I)]
    BY <1>1 DEF McuStacked, McuKept, McuTiming, Mcus
  <1> HIDE DEF c, t
  <1>3. Append(s.stack, s.I) \in Seq(BOOLEAN) /\ Len(Append(s.stack, s.I)) = Len(s.stack) + 1
    BY DEF McuTiming, Mcus
  <1>4. /\ t.stack = Append(s.stack, s.I) /\ t \in Mcus
        /\ t.flags = c.flags /\ t.unseen = c.unseen /\ t.irq2_latch = c.irq2_latch
        /\ t.owed = c.owed /\ t.dropped = c.dropped /\ t.enabled = c.enabled
        /\ t.stale = c.stale /\ t.read = c.read /\ t.halved = c.halved
    BY <1>1, <1>2, <1>3 DEF McuTiming, Mcus
  <1>5. McuTiming(t)
    BY <1>1, <1>4 DEF McuTiming
  <1>6. t.I = c.I /\ t.itmp = c.itmp /\ t.irq2_active = c.irq2_active
    BY <1>1, <1>2 DEF McuTiming, Mcus
  <1> QED
    BY <1>1, <1>3, <1>4, <1>5, <1>6 DEF t, McuKept

(* An interrupt is taken: what it served is not owed, and what else was latched is not
   latched any more. *)
LEMMA McuTaken ==
    ASSUME NEW s, McuTiming(s), NEW served
    PROVE  LET t == TakeInterrupt(s, served)
           IN  /\ McuTiming(t) /\ t.I /\ t.itmp /\ t.state = "label_a"
               /\ t.stack = s.stack
  <1> DEFINE u == Unlatched([s EXCEPT !.I = TRUE, !.itmp = TRUE, !.stale = FALSE,
                                      !.owed = @ \ served, !.dropped = @ \ served])
             c == McuCycles(u, 2)
             t == TakeInterrupt(s, served)
  <1>1. McuTiming(u) /\ u.I /\ u.itmp /\ u.stack = s.stack
    BY DEF McuTiming, Mcus, Unlatched
  <1>2. t = [c EXCEPT !.state = "label_a"]
    BY DEF TakeInterrupt
  <1> HIDE DEF u
  <1>3. McuTiming(c) /\ McuKept(u, c)
    BY <1>1, McuPassed
  <1> HIDE DEF c, t
  <1> QED
    BY <1>1, <1>2, <1>3 DEF McuKept, McuTiming, Mcus, t

(* A flag that rose since TCSR was read has not been read, and so is not cleared. *)
LEMMA McuFlagCleared ==
    ASSUME NEW s, McuTiming(s), NEW flag \in TimerFlags
    PROVE  LET t == FlagCleared(s, flag)
           IN  /\ McuTiming(t) /\ t.stack = s.stack /\ t.I = s.I /\ t.itmp = s.itmp
               /\ t.output_compare_inhibit = s.output_compare_inhibit
  <1>1. CASE flag \in s.read
    <2> DEFINE stale == s.stale \/ flag \in s.owed
               t == [s EXCEPT !.flags = @ \ {flag}, !.read = @ \ {flag}, !.owed = @ \ {flag},
                              !.dropped = @ \ {flag}, !.stale = stale]
    <2>1. FlagCleared(s, flag) = t
      BY <1>1 DEF FlagCleared
    <2>2. stale \in BOOLEAN
      BY DEF McuTiming, Mcus
    <2> HIDE DEF stale
    <2>3. /\ t \in Mcus /\ t.flags = s.flags \ {flag} /\ t.read = s.read \ {flag}
          /\ t.owed = s.owed \ {flag} /\ t.dropped = s.dropped \ {flag} /\ t.stale = stale
          /\ t.enabled = s.enabled /\ t.unseen = s.unseen /\ t.irq2_latch = s.irq2_latch
          /\ t.halved = s.halved
      BY <2>2 DEF McuTiming, Mcus
    <2>4. t.irq2_latch => t.owed # {} \/ t.stale
      BY <2>3 DEF McuTiming, stale
    <2>5. McuTiming(t)
      BY <1>1, <2>3, <2>4 DEF McuTiming
    <2> QED
      BY <2>1, <2>5
  <1>2. CASE flag \notin s.read
    BY <1>2 DEF FlagCleared
  <1> QED
    BY <1>1, <1>2

LEMMA McuStoredOC ==
    ASSUME NEW s, McuTiming(s), NEW msb \in BOOLEAN, NEW byte \in 0..(ByteSize - 1)
    PROVE  LET t == StoreOC(s, msb, byte)
           IN  /\ McuTiming(t) /\ t.stack = s.stack /\ t.I = s.I /\ t.itmp = s.itmp
               /\ msb => t.output_compare_inhibit
  <1> DEFINE c == McuCycle(s)
             h == IF msb THEN [c EXCEPT !.OCMSB = byte, !.output_compare_inhibit = TRUE]
                  ELSE [c EXCEPT !.OCLSB = byte]
             u == [h EXCEPT !.output_compare = h.OCMSB * ByteSize + h.OCLSB]
  <1>1. McuTiming(c) /\ McuKept(s, c)
    BY McuPassedOne
  <1> HIDE DEF c
  <1>2. McuTiming(h) /\ h.stack = s.stack /\ h.I = s.I /\ h.itmp = s.itmp
    BY <1>1 DEF McuTiming, Mcus, McuKept
  <1>3. msb => h.output_compare_inhibit
    BY <1>1 DEF McuTiming, Mcus
  <1>4. h.OCMSB * ByteSize + h.OCLSB \in 0..LastCount
    <2>1. h.OCMSB \in 0..(ByteSize - 1) /\ h.OCLSB \in 0..(ByteSize - 1)
      BY <1>2 DEF McuTiming, Mcus
    <2> QED
      BY <2>1, McuLastCount
  <1>5. StoreOC(s, msb, byte) = FlagCleared(u, "OCF")
    BY DEF StoreOC, c
  <1> DEFINE value == h.OCMSB * ByteSize + h.OCLSB
  <1> HIDE DEF h, value
  <1>6. McuTiming([h EXCEPT !.output_compare = value])
    BY <1>2, <1>4 DEF McuTiming, Mcus, value
  <1>7. u = [h EXCEPT !.output_compare = value]
    BY DEF value
  <1>8. /\ McuTiming(u) /\ u.stack = s.stack /\ u.I = s.I /\ u.itmp = s.itmp
        /\ msb => u.output_compare_inhibit
    BY <1>2, <1>3, <1>6, <1>7 DEF McuTiming, Mcus
  <1> HIDE DEF u
  <1>9. "OCF" \in TimerFlags
    BY DEF TimerFlags
  <1> QED
    BY <1>5, <1>8, <1>9, McuFlagCleared

(* An instruction ends: an interrupt that is latched is active from here on. *)
LEMMA McuEnds ==
    ASSUME NEW s, McuTiming(s), Len(s.stack) <= Nested, McuMasked(s), Ends(s)
    PROVE  McuInv'
  <1>1. mcu' = [s EXCEPT !.irq2_active = s.irq2_latch, !.state = "label_a"]
    BY DEF Ends
  <1>2. /\ mcu' \in Mcus /\ mcu'.state = "label_a" /\ mcu'.irq2_active = s.irq2_latch
        /\ mcu'.stack = s.stack /\ mcu'.I = s.I /\ mcu'.itmp = s.itmp
        /\ mcu'.flags = s.flags /\ mcu'.unseen = s.unseen /\ mcu'.read = s.read
        /\ mcu'.owed = s.owed /\ mcu'.dropped = s.dropped /\ mcu'.enabled = s.enabled
        /\ mcu'.irq2_latch = s.irq2_latch /\ mcu'.stale = s.stale /\ mcu'.halved = s.halved
    BY <1>1 DEF McuTiming, Mcus
  <1>3. McuTiming(mcu)'
    BY <1>2 DEF McuTiming
  <1>4. McuCaused(mcu)' /\ McuMasked(mcu)'
    BY <1>2 DEF McuTiming, McuCaused, McuMasked, McuRoom
  <1> QED
    BY <1>2, <1>3, <1>4 DEF McuInv

(* An interrupt that is taken masks the next. *)
LEMMA McuTakes ==
    ASSUME NEW s, McuTiming(s), Len(s.stack) <= Nested, NEW served,
           mcu' = TakeInterrupt(s, served)
    PROVE  McuInv'
  BY McuTaken DEF McuInv, McuCaused, McuMasked

(* A program that begins an instruction has its registers as they were. *)
LEMMA McuBegun ==
    ASSUME McuInv, mcu.state = "next_instruction", NEW span \in Nat
    PROVE  /\ McuTiming(Begun(span)) /\ McuKept(mcu, Begun(span))
           /\ Len(Begun(span).stack) <= Nested /\ McuMasked(Begun(span))
  <1>1. McuTiming(Begun(span)) /\ McuKept(mcu, Begun(span))
    BY McuPassed DEF McuInv, Begun
  <1> QED
    BY <1>1 DEF McuInv, McuKept, McuMasked, McuRoom

LEMMA McuLabelA ==
    ASSUME McuInv, LabelA
    PROVE  McuInv'
  <1> DEFINE s == [mcu EXCEPT !.I = mcu.itmp]
  <1>1. CASE Pending(mcu)
    <2> DEFINE c == McuCycles(s, 2)
               p == McuStacked(c)
               r == McuCycle(p)
    <2>1. McuTiming(s) /\ s.stack = mcu.stack /\ s.owed = mcu.owed /\ s.stale = mcu.stale
      BY DEF McuInv, McuTiming, Mcus
    <2>2. McuRoom(mcu) /\ (mcu.owed # {} \/ mcu.stale)
      BY <1>1 DEF LabelA, McuInv, Pending, McuMasked, McuCaused
    <2>3. mcu' = [r EXCEPT !.state = "dispatch_irq"]
      BY <1>1 DEF LabelA
    <2>4. McuTiming(c) /\ McuKept(s, c)
      BY <2>1, McuPassed
    <2> HIDE DEF s, c
    <2>5. /\ McuTiming(p) /\ (p.owed # {} \/ p.stale)
          /\ Len(p.stack) = Len(mcu.stack) + 1
          /\ p.irq2_active => p.owed # {} \/ p.stale
      BY <2>1, <2>2, <2>4, McuPushed DEF McuKept
    <2> HIDE DEF p
    <2>6. McuTiming(r) /\ McuKept(p, r)
      BY <2>5, McuPassedOne
    <2> HIDE DEF r
    <2>7. McuTiming(mcu)'
      BY <2>3, <2>6 DEF McuTiming, Mcus
    <2>8. /\ mcu'.state = "dispatch_irq" /\ mcu'.owed = r.owed /\ mcu'.stale = r.stale
          /\ mcu'.stack = r.stack /\ mcu'.irq2_active = r.irq2_active
      BY <2>3, <2>6 DEF McuTiming, Mcus
    <2>9. mcu'.owed # {} \/ mcu'.stale
      BY <2>5, <2>6, <2>8 DEF McuKept
    <2>10. Len(mcu'.stack) <= Nested
      <3>1. Len(mcu.stack) \in Nat
        BY DEF McuInv, McuTiming, Mcus
      <3> QED
        BY <2>2, <2>5, <2>6, <2>8, <3>1, Mc6801Assumption DEF McuKept, McuRoom
    <2> QED
      BY <2>7, <2>8, <2>9, <2>10 DEF McuInv, McuCaused
  <1>2. CASE ~Pending(mcu)
    <2>1. mcu' = [s EXCEPT !.state = "next_instruction"]
      BY <1>2 DEF LabelA
    <2>2. /\ McuTiming(mcu)' /\ mcu'.state = "next_instruction" /\ mcu'.stack = mcu.stack
          /\ mcu'.I = mcu.itmp /\ mcu'.itmp = mcu.itmp
          /\ mcu'.irq2_active = mcu.irq2_active /\ mcu'.owed = mcu.owed /\ mcu'.stale = mcu.stale
      BY <2>1 DEF McuInv, McuTiming, Mcus
    <2>3. McuMasked(mcu)
      BY DEF LabelA, McuInv
    <2> QED
      BY <1>2, <2>2, <2>3 DEF McuInv, McuCaused, McuMasked, McuRoom, Pending
  <1> QED
    BY <1>1, <1>2

LEMMA McuWaits ==
    ASSUME McuInv, Waits
    PROVE  McuInv'
  <1> DEFINE s == McuCycle(mcu)
  <1>1. McuTiming(s) /\ McuKept(mcu, s)
    BY McuPassedOne DEF McuInv
  <1>2. mcu' = IF Pending(s) THEN [s EXCEPT !.I = s.itmp, !.state = "dispatch_irq"] ELSE s
    BY DEF Waits
  <1> HIDE DEF s
  <1>3. McuCaused(s) /\ Len(s.stack) <= Nested
    BY <1>1 DEF McuInv, McuCaused, McuKept
  <1>4. CASE Pending(s)
    <2>1. s.owed # {} \/ s.stale
      BY <1>3, <1>4 DEF Pending, McuCaused
    <2>2. /\ McuTiming(mcu)' /\ mcu'.state = "dispatch_irq" /\ mcu'.stack = s.stack
          /\ mcu'.owed = s.owed /\ mcu'.stale = s.stale
      BY <1>1, <1>2, <1>4 DEF McuTiming, Mcus
    <2> QED
      BY <1>3, <2>1, <2>2 DEF McuInv, McuCaused
  <1>5. CASE ~Pending(s)
    BY <1>1, <1>2, <1>3, <1>5 DEF McuInv, Waits, McuKept
  <1> QED
    BY <1>4, <1>5

LEMMA McuTAP ==
    ASSUME McuInv, mcu.state = "next_instruction", NEW masks \in BOOLEAN, TAP(masks),
           ~masks => McuRoom(mcu)
    PROVE  McuInv'
  <1> DEFINE b == Begun(1)
             s == [b EXCEPT !.I = TRUE, !.itmp = masks]
             u == IF masks THEN Unlatched(s) ELSE s
             r == McuCycle(u)
  <1>1. McuTiming(b) /\ McuKept(mcu, b) /\ Len(b.stack) <= Nested
    BY McuBegun
  <1>2. Ends(r)
    BY DEF TAP
  <1> HIDE DEF b
  <1>3. McuTiming(s) /\ s.stack = b.stack /\ s.I /\ s.itmp = masks
    BY <1>1 DEF McuTiming, Mcus
  <1> HIDE DEF s
  <1>4. McuTiming(u) /\ u.stack = b.stack /\ u.I /\ u.itmp = masks
    BY <1>3, McuUnlatched DEF McuKept
  <1> HIDE DEF u
  <1>5. McuTiming(r) /\ r.stack = b.stack /\ r.I /\ r.itmp = masks
    BY <1>4, McuPassedOne DEF McuKept
  <1> QED
    BY <1>1, <1>2, <1>5, McuEnds DEF McuMasked, McuRoom, McuKept

LEMMA McuCLI ==
    ASSUME McuInv, mcu.state = "next_instruction", CLI, McuRoom(mcu)
    PROVE  McuInv'
  <1> DEFINE b == Begun(1)
             s == [b EXCEPT !.itmp = FALSE]
             r == McuCycle(s)
  <1>1. McuTiming(b) /\ McuKept(mcu, b) /\ Len(b.stack) <= Nested
    BY McuBegun
  <1>2. Ends(r)
    BY DEF CLI
  <1> HIDE DEF b
  <1>3. McuTiming(s) /\ s.stack = b.stack
    BY <1>1 DEF McuTiming, Mcus
  <1> HIDE DEF s
  <1>4. McuTiming(r) /\ r.stack = b.stack
    BY <1>3, McuPassedOne DEF McuKept
  <1> QED
    BY <1>1, <1>2, <1>4, McuEnds DEF McuMasked, McuRoom, McuKept

LEMMA McuSEI ==
    ASSUME McuInv, mcu.state = "next_instruction", SEI
    PROVE  McuInv'
  <1> DEFINE b == Begun(1)
             s == [b EXCEPT !.I = TRUE, !.itmp = TRUE]
             u == Unlatched(s)
             r == McuCycle(u)
  <1>1. McuTiming(b) /\ Len(b.stack) <= Nested
    BY McuBegun
  <1>2. Ends(r)
    BY DEF SEI
  <1> HIDE DEF b
  <1>3. McuTiming(s) /\ s.stack = b.stack /\ s.I /\ s.itmp
    BY <1>1 DEF McuTiming, Mcus
  <1> HIDE DEF s
  <1>4. McuTiming(u) /\ u.stack = b.stack /\ u.I /\ u.itmp
    BY <1>3, McuUnlatched DEF McuKept
  <1> HIDE DEF u
  <1>5. McuTiming(r) /\ r.stack = b.stack /\ r.I /\ r.itmp
    BY <1>4, McuPassedOne DEF McuKept
  <1> QED
    BY <1>1, <1>2, <1>5, McuEnds DEF McuMasked

LEMMA McuRTI ==
    ASSUME McuInv, mcu.state = "next_instruction", ReturnRTI
    PROVE  McuInv'
  <1> DEFINE b == Begun(1)
             s == McuCycles(b, 9)
             I == Last(s.stack)
             r == [s EXCEPT !.I = I, !.itmp = I, !.stack = Front(@)]
  <1>1. McuTiming(b) /\ McuKept(mcu, b) /\ Len(b.stack) <= Nested
    BY McuBegun
  <1>2. Ends(r)
    BY DEF ReturnRTI
  <1> HIDE DEF b
  <1>3. McuTiming(s) /\ s.stack = mcu.stack
    BY <1>1, McuPassed DEF McuKept
  <1> HIDE DEF s
  <1>4. s.stack \in Seq(BOOLEAN) /\ s.stack # <<>>
    BY <1>3 DEF McuTiming, Mcus, ReturnRTI
  <1>5. I \in BOOLEAN /\ Front(s.stack) \in Seq(BOOLEAN) /\ Len(Front(s.stack)) = Len(s.stack) - 1
    BY <1>4 DEF Last, Front
  <1> HIDE DEF I
  <1>6. McuTiming(r) /\ r.stack = Front(s.stack)
    BY <1>3, <1>5 DEF McuTiming, Mcus
  <1>7. Len(s.stack) <= Nested /\ Len(s.stack) \in Nat
    BY <1>3, <1>4 DEF McuInv
  <1>8. McuRoom(r) /\ Len(r.stack) <= Nested
    BY <1>5, <1>6, <1>7, Mc6801Assumption DEF McuRoom
  <1> QED
    BY <1>2, <1>6, <1>8, McuEnds DEF McuMasked

LEMMA McuSaved ==
    ASSUME McuInv, mcu.state = "next_instruction", McuRoom(mcu)
    PROVE  LET s == McuStacked([Begun(2) EXCEPT !.I = mcu.itmp])
           IN  /\ McuTiming(s) /\ Len(s.stack) <= Nested
               /\ s.I = s.itmp /\ McuCaused(s)
  <1> DEFINE b == Begun(2)
             c == [b EXCEPT !.I = mcu.itmp]
             s == McuStacked(c)
  <1>1. McuTiming(b) /\ McuKept(mcu, b)
    BY McuBegun
  <1> HIDE DEF b
  <1>2. /\ McuTiming(c) /\ c.stack = mcu.stack /\ c.I = mcu.itmp /\ c.itmp = mcu.itmp
        /\ c.irq2_active = mcu.irq2_active /\ c.stale = mcu.stale /\ mcu.owed \subseteq c.owed
    BY <1>1 DEF McuInv, McuTiming, Mcus, McuKept
  <1> HIDE DEF c
  <1>3. /\ McuTiming(s) /\ Len(s.stack) = Len(mcu.stack) + 1 /\ s.I = mcu.itmp /\ s.itmp = mcu.itmp
        /\ s.irq2_active = mcu.irq2_active /\ s.stale = mcu.stale /\ mcu.owed \subseteq s.owed
    BY <1>2, McuPushed
  <1> HIDE DEF s
  <1>4. McuCaused(s)
    BY <1>3 DEF McuInv, McuCaused
  <1>5. Len(s.stack) <= Nested
    <2>1. Len(mcu.stack) \in Nat
      BY DEF McuInv, McuTiming, Mcus
    <2> QED
      BY <1>3, <2>1, Mc6801Assumption DEF McuRoom
  <1> QED
    BY <1>3, <1>4, <1>5 DEF s, c, b

LEMMA McuWAI ==
    ASSUME McuInv, mcu.state = "next_instruction", WAI, McuRoom(mcu)
    PROVE  McuInv'
  <1> DEFINE s == McuStacked([Begun(2) EXCEPT !.I = mcu.itmp])
  <1>1. McuTiming(s) /\ Len(s.stack) <= Nested /\ McuCaused(s)
    BY McuSaved
  <1>2. mcu' = [s EXCEPT !.state = "wai"]
    BY DEF WAI
  <1> HIDE DEF s
  <1>3. /\ McuTiming(mcu)' /\ mcu'.state = "wai" /\ mcu'.stack = s.stack
        /\ mcu'.I = s.I /\ mcu'.itmp = s.itmp /\ mcu'.irq2_active = s.irq2_active
        /\ mcu'.owed = s.owed /\ mcu'.stale = s.stale
    BY <1>1, <1>2 DEF McuTiming, Mcus
  <1> QED
    BY <1>1, <1>3 DEF McuInv, McuCaused

LEMMA McuSWI ==
    ASSUME McuInv, mcu.state = "next_instruction", SWI6801, McuRoom(mcu)
    PROVE  McuInv'
  <1> DEFINE p == McuStacked([Begun(2) EXCEPT !.I = mcu.itmp])
  <1>1. McuTiming(p) /\ Len(p.stack) <= Nested
    BY McuSaved
  <1>2. McuTiming(McuCycle(p)) /\ McuCycle(p).stack = p.stack
    BY <1>1, McuPassedOne DEF McuKept
  <1>3. mcu' = TakeInterrupt(McuCycle(p), {})
    BY DEF SWI6801
  <1> HIDE DEF p
  <1> QED
    BY <1>1, <1>2, <1>3, McuTakes

(* What an instruction does after its cycles have passed. *)
LEMMA McuAccess ==
    ASSUME McuInv, mcu.state = "next_instruction", NEW span \in Nat
    PROVE  LET s == McuCycle(Begun(span))
           IN  McuTiming(s) /\ Len(s.stack) <= Nested /\ McuMasked(s)
  <1> DEFINE b == Begun(span)
             s == McuCycle(b)
  <1>1. McuTiming(b) /\ Len(b.stack) <= Nested /\ McuMasked(b)
    BY McuBegun
  <1> HIDE DEF b
  <1>2. McuTiming(s) /\ McuKept(b, s)
    BY <1>1, McuPassedOne
  <1> HIDE DEF s
  <1>3. Len(s.stack) <= Nested /\ McuMasked(s)
    BY <1>1, <1>2 DEF McuKept, McuMasked, McuRoom
  <1> QED
    BY <1>2, <1>3 DEF s, b

LEMMA McuReadTCSR ==
    ASSUME McuInv, mcu.state = "next_instruction", NEW span \in Nat, ReadTCSR(span)
    PROVE  McuInv'
  <1> DEFINE s == McuCycle(Begun(span))
             t == [s EXCEPT !.read = s.flags, !.unseen = {}]
  <1>1. McuTiming(s) /\ Len(s.stack) <= Nested /\ McuMasked(s)
    BY McuAccess
  <1>2. Ends(t)
    BY DEF ReadTCSR
  <1> HIDE DEF s
  <1>3. McuTiming(t) /\ t.stack = s.stack /\ t.I = s.I /\ t.itmp = s.itmp
    BY <1>1 DEF McuTiming, Mcus
  <1> HIDE DEF t
  <1> QED
    BY <1>1, <1>2, <1>3, McuEnds DEF McuMasked, McuRoom

LEMMA McuWriteTCSR ==
    ASSUME McuInv, mcu.state = "next_instruction", NEW span \in Nat,
           NEW enabled \in SUBSET TimerFlags, WriteTCSR(span, enabled)
    PROVE  McuInv'
  <1> DEFINE s == McuCycle(Begun(span))
             stale == s.stale \/ s.owed \ enabled # {}
             t == [s EXCEPT !.enabled = enabled, !.stale = stale,
                       !.owed = @ \intersect enabled, !.dropped = @ \intersect enabled]
  <1>1. McuTiming(s) /\ Len(s.stack) <= Nested /\ McuMasked(s)
    BY McuAccess
  <1>2. Ends(t)
    BY <1>1 DEF WriteTCSR, McuTiming, Mcus
  <1> HIDE DEF s
  <1>3. stale \in BOOLEAN /\ (s.irq2_latch => s.owed \intersect enabled # {} \/ stale)
    BY <1>1 DEF McuTiming, Mcus
  <1> HIDE DEF stale
  <1>4. McuTiming(t) /\ t.stack = s.stack /\ t.I = s.I /\ t.itmp = s.itmp
    BY <1>1, <1>3 DEF McuTiming, Mcus
  <1> HIDE DEF t
  <1> QED
    BY <1>1, <1>2, <1>4, McuEnds DEF McuMasked, McuRoom

LEMMA McuReadCounter ==
    ASSUME McuInv, mcu.state = "next_instruction", NEW span \in Nat, ReadCounter(span)
    PROVE  McuInv'
  <1> DEFINE s == McuCycle(Begun(span))
             t == FlagCleared(s, "TOF")
  <1>1. McuTiming(s) /\ Len(s.stack) <= Nested /\ McuMasked(s)
    BY McuAccess
  <1>2. Ends(t) /\ "TOF" \in TimerFlags
    BY DEF ReadCounter, TimerFlags
  <1> HIDE DEF s
  <1>3. McuTiming(t) /\ t.stack = s.stack /\ t.I = s.I /\ t.itmp = s.itmp
    BY <1>1, <1>2, McuFlagCleared
  <1> HIDE DEF t
  <1> QED
    BY <1>1, <1>2, <1>3, McuEnds DEF McuMasked, McuRoom

LEMMA McuWriteCounter ==
    ASSUME McuInv, mcu.state = "next_instruction", NEW span \in Nat, WriteCounter(span)
    PROVE  McuInv'
  <1> DEFINE s == McuCycle(Begun(span))
             t == [s EXCEPT !.counter = Preset]
  <1>1. McuTiming(s) /\ Len(s.stack) <= Nested /\ McuMasked(s)
    BY McuAccess
  <1>2. Ends(t)
    BY DEF WriteCounter
  <1> HIDE DEF s
  <1>3. McuTiming(t) /\ t.stack = s.stack /\ t.I = s.I /\ t.itmp = s.itmp
    BY <1>1, McuLastCount DEF McuTiming, Mcus
  <1> HIDE DEF t
  <1> QED
    BY <1>1, <1>2, <1>3, McuEnds DEF McuMasked, McuRoom

LEMMA McuWriteOC ==
    ASSUME McuInv, mcu.state = "next_instruction", NEW span \in Nat,
           NEW msb \in BOOLEAN, NEW byte \in 0..(ByteSize - 1), WriteOC(span, msb, byte)
    PROVE  McuInv'
  <1> DEFINE s == Begun(span)
             t == StoreOC(s, msb, byte)
  <1>1. McuTiming(s) /\ Len(s.stack) <= Nested /\ McuMasked(s)
    BY McuBegun
  <1>2. Ends(t)
    BY DEF WriteOC
  <1> HIDE DEF s
  <1>3. McuTiming(t) /\ t.stack = s.stack /\ t.I = s.I /\ t.itmp = s.itmp
    BY <1>1, McuStoredOC
  <1> HIDE DEF t
  <1> QED
    BY <1>1, <1>2, <1>3, McuEnds DEF McuMasked, McuRoom

(* The compare register is not looked at between its two bytes. *)
LEMMA McuInhibited ==
    ASSUME NEW s, McuTiming(s), s.output_compare_inhibit
    PROVE  "OCF" \notin McuCycle(s).flags \ s.flags
  <1> DEFINE after(k) == (s.counter + k) % (LastCount + 1)
             met == {f \in TimerFlags : \E k \in 1..1 :
                        /\ after(k) = IF f = "TOF" THEN LastCount ELSE s.output_compare
                        /\ f = "OCF" /\ k = 1 => ~s.output_compare_inhibit}
  <1>1. "OCF" \notin met
    OBVIOUS
  <1>2. McuCycle(s).flags = s.flags \union met
    BY DEF McuCycle, McuCycles, McuTiming, Mcus
  <1> HIDE DEF met
  <1> QED
    BY <1>1, <1>2

LEMMA McuWriteOC16 ==
    ASSUME McuInv, mcu.state = "next_instruction", NEW span \in Nat,
           NEW high \in 0..(ByteSize - 1), NEW low \in 0..(ByteSize - 1),
           WriteOC16(span, high, low)
    PROVE  McuInv'
  <1> DEFINE s == Begun(span)
             half == StoreOC(s, TRUE, high)
             met == "OCF" \in McuCycle(half).flags \ half.flags
             u == StoreOC(half, FALSE, low)
             t == [u EXCEPT !.halved = @ \/ met]
  <1>1. McuTiming(s) /\ Len(s.stack) <= Nested /\ McuMasked(s)
    BY McuBegun
  <1>2. Ends(t)
    BY DEF WriteOC16
  <1> HIDE DEF s
  <1>3. /\ McuTiming(half) /\ half.stack = s.stack /\ half.I = s.I /\ half.itmp = s.itmp
        /\ half.output_compare_inhibit
    BY <1>1, McuStoredOC
  <1> HIDE DEF half
  <1>4. ~met
    BY <1>3, McuInhibited
  <1>5. McuTiming(u) /\ u.stack = s.stack /\ u.I = s.I /\ u.itmp = s.itmp
    BY <1>3, McuStoredOC
  <1> HIDE DEF met, u
  <1>6. McuTiming(t) /\ t.stack = s.stack /\ t.I = s.I /\ t.itmp = s.itmp
    BY <1>4, <1>5 DEF McuTiming, Mcus
  <1> HIDE DEF t
  <1> QED
    BY <1>1, <1>2, <1>6, McuEnds DEF McuMasked, McuRoom

LEMMA McuReset ==
    ASSUME McuInv, ResetMcu
    PROVE  McuInv'
  <1> DEFINE s == [mcu EXCEPT !.itmp = TRUE, !.I = TRUE, !.irq2_latch = FALSE,
                       !.irq2_active = FALSE, !.flags = {}, !.read = {}, !.unseen = {},
                       !.counter = 0, !.output_compare = LastCount, !.stack = <<>>,
                       !.owed = {}, !.dropped = {}]
  <1>1. s \in Mcus
    <2>1. 0 \in 0..LastCount /\ LastCount \in 0..LastCount
      BY McuLastCount
    <2>2. <<>> \in Seq(BOOLEAN)
      BY EmptySeq
    <2> HIDE DEF LastCount
    <2> QED
      BY <2>1, <2>2 DEF McuInv, McuTiming, Mcus
  <1>2. McuTiming(s) /\ s.stack = <<>> /\ Len(s.stack) = 0
    BY <1>1 DEF McuInv, McuTiming, Mcus
  <1>3. mcu' = TakeInterrupt(s, {})
    BY DEF ResetMcu
  <1> HIDE DEF s
  <1> QED
    BY <1>2, <1>3, McuTakes, Mc6801Assumption

(* However the timer runs against its program, it keeps what McuInv asks. *)
THEOREM TimerKept == Mc6801Spec => []McuInv
  <1>1. Mc6801Init => McuInv
    <2> SUFFICES ASSUME Mc6801Init PROVE McuInv
      OBVIOUS
    <2>1. /\ mcu.counter = 2 /\ mcu.output_compare = LastCount /\ mcu.stack = <<>>
          /\ mcu.OCMSB = 0 /\ mcu.OCLSB = 0
      BY DEF Mc6801Init
    <2>2. <<>> \in Seq(BOOLEAN) /\ Len(<<>>) = 0 /\ 0 <= Nested
      BY EmptySeq, Mc6801Assumption
    <2>3. 2 \in 0..LastCount /\ LastCount \in 0..LastCount /\ 0 \in 0..(ByteSize - 1)
      BY McuLastCount, Mc6801Assumption
    <2> HIDE DEF LastCount
    <2>4. mcu \in Mcus
      BY <2>2, <2>3 DEF Mc6801Init, Mcus
    <2>5. McuTiming(mcu)
      BY <2>4 DEF Mc6801Init, McuTiming
    <2> QED
      BY <2>2, <2>5 DEF Mc6801Init, McuInv, McuCaused, McuMasked
  <1>2. ASSUME McuInv, [Mc6801Next]_mcu
        PROVE  McuInv'
    <2>1. CASE LabelA
      BY <1>2, <2>1, McuLabelA
    <2>2. CASE Waits
      BY <1>2, <2>2, McuWaits
    <2>3. CASE DispatchIrq2
      <3>1. McuTiming(mcu) /\ Len(mcu.stack) <= Nested
        BY <1>2 DEF McuInv
      <3>2. \E served : mcu' = TakeInterrupt(mcu, served)
        BY <2>3 DEF DispatchIrq2
      <3> QED
        BY <3>1, <3>2, McuTakes
    <2>4. CASE ResetMcu
      BY <1>2, <2>4, McuReset
    <2>5. ASSUME mcu.state = "next_instruction", Len(mcu.stack) < Nested,
                 CLI \/ TAP(FALSE) \/ WAI \/ SWI6801
          PROVE  McuInv'
      BY <1>2, <2>5, McuCLI, McuTAP, McuWAI, McuSWI DEF McuRoom
    <2>6. ASSUME mcu.state = "next_instruction", ReturnRTI \/ SEI \/ TAP(TRUE)
          PROVE  McuInv'
      BY <1>2, <2>6, McuRTI, McuSEI, McuTAP
    <2>7. ASSUME mcu.state = "next_instruction", NEW span \in Spans,
                 \/ ReadTCSR(span) \/ ReadCounter(span) \/ WriteCounter(span) \/ Other(span)
          PROVE  McuInv'
      <3>1. span \in Nat
        BY Mc6801Assumption
      <3>2. CASE Other(span)
        BY <1>2, <2>7, <3>1, <3>2, McuBegun, McuEnds DEF Other
      <3> QED
        BY <1>2, <2>7, <3>1, <3>2, McuReadTCSR, McuReadCounter, McuWriteCounter
    <2>8. ASSUME mcu.state = "next_instruction", NEW span \in Spans,
                 \/ \E enabled \in SUBSET TimerFlags : WriteTCSR(span, enabled)
                 \/ \E msb \in BOOLEAN, byte \in 0..(ByteSize - 1) : WriteOC(span, msb, byte)
                 \/ \E high, low \in 0..(ByteSize - 1) : WriteOC16(span, high, low)
          PROVE  McuInv'
      <3>1. span \in Nat
        BY Mc6801Assumption
      <3> QED
        BY <1>2, <2>8, <3>1, McuWriteTCSR, McuWriteOC, McuWriteOC16
    <2>9. CASE UNCHANGED mcu
      BY <1>2, <2>9 DEF McuInv, McuTiming, McuCaused, McuMasked, McuRoom
    <2> QED
      BY <1>2, <2>1, <2>2, <2>3, <2>4, <2>5, <2>6, <2>7, <2>8, <2>9 DEF Mc6801Next
  <1> QED
    BY <1>1, <1>2, PTL DEF Mc6801Spec

(* The timer is heard: whatever the program does with TCSR, the counter and the compare
   register, and however long its instructions are, what rose while it was enabled stays
   latched but for the two ways mc6801.c has of putting out the latch, an interrupt taken
   has its cause, a flag that rose after TCSR was read survives the clearing of what was
   seen, and a compare value is not met by halves: for a byte of any size. *)
THEOREM TimerIsHeard == Mc6801Spec => []TimerHeard
  <1>1. McuInv => TimerHeard
    BY DEF McuInv, McuTiming, TimerHeard
  <1> QED
    BY <1>1, TimerKept, PTL
===============================================================================
