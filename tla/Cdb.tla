-------------------------------- MODULE Cdb --------------------------------
(***************************************************************************)
(* The common data bus, src/include/tomasulo/cdb.hpp: one broadcast a      *)
(* cycle.  It is not double-buffered either: what writeback publishes is   *)
(* heard by the stations in the next cycle.                                *)
(***************************************************************************)
EXTENDS Isa

VARIABLE cdb

CdbEntry == [valid: BOOLEAN, rob_tag: Nat, val: Word, is_branch: BOOLEAN,
             branch_actual_taken: BOOLEAN, branch_target: Word]

EmptyBus == [valid |-> FALSE, rob_tag |-> 0, val |-> 0, is_branch |-> FALSE,
             branch_actual_taken |-> FALSE, branch_target |-> 0]

CdbInit == cdb = EmptyBus

CdbInvalidateSquashed(n, surviving_tag) ==
  IF n.valid /\ n.rob_tag > surviving_tag THEN EmptyBus ELSE n

CdbTypeOK == cdb \in CdbEntry
============================================================================
