---------------------------- MODULE MCSyncService ----------------------------
(* Two tabs on a laptop; a phone that syncs with the same account.           *)
EXTENDS SyncService, TLC

MCRank == [doc \in Docs |-> doc]
MCDeviceOf == [p \in Pages |-> "laptop"]
=============================================================================
