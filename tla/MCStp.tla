------------------------------- MODULE MCStp -------------------------------
(* The ring of four_node_ring.py, a row and a star. *)
EXTENDS Stp
MCRing == {{1, 2}, {1, 3}, {2, 4}, {3, 4}}
MCTopology == {MCRing, {{1, 2}, {2, 4}, {3, 4}}, {{1, 4}, {2, 4}, {3, 4}}}
MCLab == {MCRing}
=============================================================================
