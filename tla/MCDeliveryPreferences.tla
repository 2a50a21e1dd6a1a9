------------------------ MODULE MCDeliveryPreferences ------------------------
(* Small instances of DeliveryPreferences for TLC. *)
EXTENDS DeliveryPreferences, TLC

CONSTANTS api, w1, w2, digest, brief

\* What the user saves: no kind (which means all) with quiet hours set, or one kind only.
MCSaved == {[kinds |-> {}, window |-> TRUE, suppress |-> TRUE],
            [kinds |-> {digest}, window |-> FALSE, suppress |-> TRUE]}
=============================================================================
