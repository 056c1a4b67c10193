------------------------- MODULE MemoryMultiplexer --------------------------
(***************************************************************************)
(* memory_multiplexer.sv: gives the SDRAM controller to one of the masters *)
(* at a time.  current is a ring of bits of which one is set; it moves on  *)
(* when the master it points at does not request, and when the controller  *)
(* finishes a burst (switch).  A register is a set: the ports whose bit is *)
(* one.  There is no reset.                                                *)
(***************************************************************************)
EXTENDS Naturals

CONSTANT PORT_COUNT

ASSUME PortAssumption == PORT_COUNT \in Nat /\ PORT_COUNT >= 1

VARIABLES current, last_current

muxVars == <<current, last_current>>

Port == 0 .. PORT_COUNT - 1

MuxInit == current = {0} /\ last_current = {0}

\* Wired or of a one-bit wire of the ports in s.
AnyOf(s, wire) == \E i \in s : wire[i]

\* Wired or of a bus when one port is in s.
Selected(s, wire) == wire[CHOOSE i \in s : TRUE]

\* Mutant: the ring keeps the bit it moves.
RotateKeeping(s) == s \cup {(i + 1) % PORT_COUNT : i \in s}

Rotate(s) == {(i + 1) % PORT_COUNT : i \in s}

\* Mutant: every port that requests is told "ready".
PortReadyToAll(i, ready, requests) == ready /\ requests[i]

\* ready of port i, given the controller's.
PortReady(i, ready, requests) == i \in current /\ ready /\ requests[i]

MuxClock(requests, switch) ==
  /\ current' = IF ~AnyOf(current, requests) \/ switch THEN Rotate(current)
                                                       ELSE current
  /\ last_current' = current

(***************************************************************************)
(* The controller and the data pins always belong to one master: no two    *)
(* addresses are or-ed together on the bus, and it is never left to nobody.*)
(***************************************************************************)
OneMaster == /\ \E i \in Port : current = {i}
             /\ \E i \in Port : last_current = {i}
=============================================================================
