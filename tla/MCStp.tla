------------------------------- MODULE MCStp -------------------------------
(* The ring of four_node_ring.py.                                          *)
EXTENDS Stp

RingSwitches == 1..4
RingPeer == << << <<2, 1>>, <<3, 1>> >>, << <<1, 1>>, <<4, 1>> >>,
               << <<1, 2>>, <<4, 2>> >>, << <<2, 2>>, <<3, 2>> >> >>
=============================================================================
