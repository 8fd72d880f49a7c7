------------------------ MODULE MCPersistentDelivery ------------------------
(* Small instances of PersistentDelivery for TLC.                          *)
EXTENDS PersistentDelivery

CONSTANT r1

MCSpecs == {[deadline |-> 2, version |-> 1]}

=============================================================================
