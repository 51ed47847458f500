---------------------------- MODULE MirroredSync ----------------------------
(***************************************************************************)
(* CommerceSync with what the shop had when each sync was asked for, which *)
(* no row keeps and the promise of ShopMirror is about.                    *)
(***************************************************************************)
EXTENDS CommerceSync

VARIABLE since     \* no program state: the shop at the request of each sync

mirroredVars == <<vars, since>>

MirroredInit ==
    /\ SyncInit
    /\ since = [j \in Jobs |-> shop]

MirroredNext ==
    /\ SyncNext
    /\ since' = [j \in Jobs |-> IF RequestSync(j) THEN shop ELSE since[j]]

MirroredSpec == MirroredInit /\ [][MirroredNext]_mirroredVars

FairMirroredSpec == MirroredSpec /\ SyncFairness

(* However attempts are retried, overlap each other and webhooks, and are  *)
(* rolled back: every step of a job or a request is one step of the mirror *)
(* or none.  A sync that is a success has what the shop had when it was    *)
(* asked for, in every row; nothing of a sync that was not committed is    *)
(* seen; and whoever finds a disconnected integration connected again      *)
(* finds the copy of the sync that did it.                                 *)
InWork == {j \in Jobs : job[j].pc \notin {"none", "completed", "dead"}}
Mirror == INSTANCE ShopMirror WITH Syncs <- Jobs, asking <- InWork, asked <- since
KeepsMirror == Mirror!MirrorSpec
=============================================================================
