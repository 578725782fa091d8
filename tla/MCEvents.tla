------------------------------ MODULE MCEvents ------------------------------
(* Three requests; delays below a tick, between two ticks, above the        *)
(* largest count and above the wrap of the product.                         *)
EXTENDS Events
============================================================================
