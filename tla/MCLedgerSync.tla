---------------------------- MODULE MCLedgerSync ----------------------------
(***************************************************************************)
(* Instance of LedgerSync for TLC: the version number is cut off at        *)
(* MaxVersion, the devices and the edits are interchangeable.              *)
(***************************************************************************)
EXTENDS LedgerSync, TLC

CONSTANTS MaxVersion

VersionBound == ledger.version <= MaxVersion

Interchangeable == Permutations(Device) \cup Permutations(Edit)
=============================================================================
