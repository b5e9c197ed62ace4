----------------------- MODULE MCInventoryCoordinator -----------------------
(* Small instances of InventoryCoordinator for TLC. *)
EXTENDS InventoryCoordinator
=============================================================================
