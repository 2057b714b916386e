--------------------------- MODULE MCDeliveryQueue ---------------------------
(* Small instances of DeliveryQueue: entries are model values.             *)
EXTENDS DeliveryQueue

CONSTANTS e1, e2
=============================================================================
