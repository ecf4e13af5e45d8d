---------------------------- MODULE MCHostProbe ----------------------------
(***************************************************************************)
(* Destinations and exit nodes for the host probe.                         *)
(***************************************************************************)
EXTENDS HostProbe

\* A socket without a destination, 10.0.0.1:9001, 1.2.3.4:443 and 7.7.7.7:443.
MCDests ==
  {[addr |-> <<0, 0, 0, 0>>, port |-> <<0, 0>>],
   [addr |-> <<10, 0, 0, 1>>, port |-> <<35, 41>>],
   [addr |-> <<1, 2, 3, 4>>, port |-> <<1, 187>>],
   [addr |-> <<7, 7, 7, 7>>, port |-> <<1, 187>>]}
MCExitNodes == {<<1, 2, 3, 4>>, <<7, 7, 7, 7>>}
=============================================================================
