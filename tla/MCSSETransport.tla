---------------------------- MODULE MCSSETransport ----------------------------
(***************************************************************************)
(* Two sessions; for the first of them a message of a tool and one of a    *)
(* POST, and a message for everyone.                                       *)
(***************************************************************************)
EXTENDS SSETransport

CONSTANTS s1, s2, m1, m2, m3

TwoSessions == {s1, s2}
ThreeMessages == {m1, m2, m3}
Addresses == [m \in ThreeMessages |-> IF m = m3 THEN Everyone ELSE s1]
OnePosted == {m2}

=============================================================================
