--------------------------- MODULE ServicesProofs --------------------------
(***************************************************************************)
(* Proofs about the services beside each other (MCServices).  A step is a  *)
(* step of the service whose turn it is and leaves the tables of all the   *)
(* others alone, so that a behaviour of them all is one of each; what each *)
(* promises is then a promise of all, without another invariant.           *)
(***************************************************************************)
EXTENDS MCServices, RecordsProofs, ReportsProofs

-----------------------------------------------------------------------------
(* They begin where each begins: the tables of storeStats are empty, with  *)
(* orders of no particular customers, when it is another's turn.           *)
LEMMA EachBegins ==
    ASSUME Init
    PROVE  /\ ReportsInit /\ FilesInit /\ TokenInit /\ EmbeddingsInit
           /\ RecommendationsInit /\ SegmentationInit /\ ForecastInit /\ TenantRowsInit
           /\ BootstrapInit /\ LoginInit /\ InvitationLinksInit /\ ForecastRunsInit
           /\ BasketsInit
<1>1. BasketsInit
  BY DEF Init, BasketsInit
<1> QED
  BY <1>1 DEF Init

(* A step is one of each service, or leaves it alone.                      *)
LEMMA EachMoves ==
    ASSUME [Next]_vars
    PROVE  /\ [ReportsNext]_reportVars /\ [FilesNext]_fileVars
           /\ [TokenNext]_tokenVars /\ [EmbeddingsNext]_embedVars
           /\ [RecommendationsNext]_recVars /\ [SegmentationNext]_buyers
           /\ [BasketsNext]_basketVars /\ [ForecastNext]_forecastVars
           /\ [TenantRowsNext]_rowVars /\ [BootstrapNext]_bootVars
           /\ [LoginNext]_loginVars /\ [InvitationLinksNext]_inviteVars
           /\ [ForecastRunsNext]_runVars
<1>1. CASE Next
  BY <1>1 DEF Next
<1>2. CASE UNCHANGED vars
  BY <1>2 DEF vars
<1> QED
  BY <1>1, <1>2

(* So each service, whoever else has tables, behaves as it does alone.     *)
LEMMA EachBehaves ==
    Spec => /\ ReportsSpec /\ FilesSpec /\ ShopTokenSpec
            /\ EmbeddingsSpec /\ RecommendationsSpec /\ SegmentationSpec
            /\ BasketsSpec /\ ForecastSpec /\ TenantRowsSpec
            /\ BootstrapSpec /\ LoginSpec /\ InvitationLinksSpec
            /\ ForecastRunsSpec
BY EachBegins, EachMoves, PTL
   DEF Spec, ReportsSpec, FilesSpec, ShopTokenSpec, EmbeddingsSpec, RecommendationsSpec,
       SegmentationSpec, BasketsSpec, ForecastSpec, TenantRowsSpec,
       BootstrapSpec, LoginSpec, InvitationLinksSpec, ForecastRunsSpec

-----------------------------------------------------------------------------
(* The types of all services, for any number of requests, jobs, runs and   *)
(* rows of each: what a lock, a link, a cached token or a saved list may   *)
(* hold, with the bounds that are stated with them.                        *)
THEOREM ServicesTypeCorrect == Spec => []ServicesTypeOK
<1>1. LoginSpec => []LoginTypeOK
  <2>1. LoginInv => LoginTypeOK
    BY DEF LoginInv
  <2> QED BY <2>1, LoginInvInit, LoginInvNext, PTL DEF LoginSpec
<1>2. InvitationLinksSpec => []InvitationLinksTypeOK
  <2>1. InviteInv => InvitationLinksTypeOK
    BY DEF InviteInv
  <2> QED BY <2>1, InviteInvInit, InviteInvNext, PTL DEF InvitationLinksSpec
<1>3. TenantRowsSpec => []TenantRowsTypeOK
  <2>1. PolicyInv => TenantRowsTypeOK
    BY DEF PolicyInv
  <2> QED BY <2>1, PolicyInvHolds, PTL
<1>4. FilesSpec => []FilesTypeOK
  <2>1. FilesInv => FilesTypeOK
    BY DEF FilesInv
  <2> QED BY <2>1, FilesInvInit, FilesInvNext, PTL DEF FilesSpec
<1>5. ShopTokenSpec => []TokenCacheTypeOK
  <2>1. TokenInv => TokenCacheTypeOK
    BY DEF TokenInv
  <2> QED BY <2>1, TokenInvInit, TokenInvNext, PTL DEF ShopTokenSpec
<1>6. ForecastSpec => []ForecastTypeOK
  BY WhatRunsSay, ForecastInvHolds, PTL
<1>7. BootstrapSpec => []BootstrapTypeOK
  <2>1. BootInv => BootstrapTypeOK
    BY DEF BootInv
  <2> QED BY <2>1, BootInvInit, BootInvNext, PTL DEF BootstrapSpec
<1>8. ForecastRunsSpec => []ForecastRunsTypeOK
  <2>1. RunsFoundInv => ForecastRunsTypeOK
    BY DEF RunsFoundInv
  <2> QED BY <2>1, RunsFoundInit, RunsFoundNext, PTL DEF ForecastRunsSpec
<1> QED
  BY <1>1, <1>2, <1>3, <1>4, <1>5, <1>6, <1>7, <1>8, EachBehaves,
     ReportsTypeCorrect, EmbeddingsTypeCorrect, RecommendationsTypeCorrect, PTL
     DEF ServicesTypeOK

(* Beside each other the services keep what each promises alone: locks are *)
(* earned and pending links were mailed, no statement comes across a row   *)
(* of others, and what is shown of files, lists, sales, customers and      *)
(* forecasts follows from the rows it was made of.                         *)
THEOREM ServicesKeepPromises ==
    Spec => [](/\ LockIsEarned /\ PendingIsReachable
               /\ NoRowOfOthers /\ PoliciesHideNothing
               /\ OfferedWasUploaded /\ NoOrphanWithoutCause /\ TokenOutlivesListing
               /\ AloneJobIsExact /\ ListsAreWhole /\ OrdersAreCounted
               /\ RollupNeverInvents /\ ReportsAgree /\ PastIsKept
               /\ SegmentsFollowSpending /\ ForecastAgrees /\ RecencyIsRight /\ RunsAreFound)
BY EachBehaves, LocksAreEarned, LinksReachable, RequestsAreApart, BackstopIsTransparent,
   OffersHold, RemovalsClean, TokensOutlive, AloneJobsAreExact, SavedListsAreWhole,
   PairsAreCounted, RollupsInventNothing, EndpointsAgree, PastStays, SegmentsFollow,
   ForecastsAgree, RecencyHolds, ForecastsAreFound, PTL
=============================================================================
