---------------------------- MODULE MCDriveSync ----------------------------
(* Small instances of DriveSync. The rank of a content's hash has nothing to *)
(* do with the order in which the contents were made.                        *)
EXTENDS DriveSync, TLC

MCRank == [doc \in Docs |-> (3 * doc) % 7]
DeviceSymmetry == Permutations(Devices)
=============================================================================
