----------------------------- MODULE MCServices -----------------------------
(* The services that keep to tables of their own, one at a time: `part`    *)
(* says which of them moves in a behaviour, and never changes, so that the *)
(* states of one are not multiplied by the states of another.              *)
EXTENDS MCReports, Files, ShopToken, Embeddings, Recommendations, Segmentation,
        Baskets, Forecast, TenantRows, ShopBootstrap, LoginLockout,
        InvitationLinks, ForecastRuns

VARIABLE part

vars == <<reportVars, fileVars, tokenVars, embedVars, recVars, buyers, basketVars,
          forecastVars, rowVars, bootVars, loginVars, inviteVars, runVars, part>>

Parts == {"reports", "files", "token", "embeddings", "recommendations", "segmentation",
          "baskets", "forecast", "rows", "bootstrap",
          "login", "invitations", "runs"}

Init ==
    /\ part \in Parts
    /\ ReportsInit /\ FilesInit /\ TokenInit /\ SegmentationInit /\ ForecastInit
    /\ RecommendationsInit /\ TenantRowsInit /\ BootstrapInit /\ LoginInit
    /\ InvitationLinksInit /\ ForecastRunsInit
    /\ part # "runs" => ~redis
    /\ EmbeddingsInit
    /\ part # "embeddings" => \A p \in Products : text[p] = CHOOSE t \in Texts : TRUE
    /\ IF part = "baskets" THEN BasketsInit
       ELSE shopper = [b \in Baskets |-> Guest] /\ lines = <<>>

Next ==
    /\ \/ part = "reports" /\ ReportsNext
       \/ part = "files" /\ FilesNext
       \/ part = "token" /\ TokenNext
       \/ part = "embeddings" /\ EmbeddingsNext
       \/ part = "recommendations" /\ RecommendationsNext
       \/ part = "segmentation" /\ SegmentationNext
       \/ part = "baskets" /\ BasketsNext
       \/ part = "forecast" /\ ForecastNext
       \/ part = "rows" /\ TenantRowsNext
       \/ part = "bootstrap" /\ BootstrapNext
       \/ part = "login" /\ LoginNext
       \/ part = "invitations" /\ InvitationLinksNext
       \/ part = "runs" /\ ForecastRunsNext
    /\ UNCHANGED part
    /\ part # "reports" => UNCHANGED reportVars
    /\ part # "files" => UNCHANGED fileVars
    /\ part # "token" => UNCHANGED tokenVars
    /\ part # "embeddings" => UNCHANGED embedVars
    /\ part # "recommendations" => UNCHANGED recVars
    /\ part # "segmentation" => UNCHANGED buyers
    /\ part # "baskets" => UNCHANGED basketVars
    /\ part # "forecast" => UNCHANGED forecastVars
    /\ part # "rows" => UNCHANGED rowVars
    /\ part # "bootstrap" => UNCHANGED bootVars
    /\ part # "login" => UNCHANGED loginVars
    /\ part # "invitations" => UNCHANGED inviteVars
    /\ part # "runs" => UNCHANGED runVars

Spec == Init /\ [][Next]_vars

(* Each component keeps its types, and the bounds that are stated with them. *)
ServicesTypeOK ==
    /\ ReportsTypeOK /\ FilesTypeOK /\ TokenCacheTypeOK
    /\ EmbeddingsTypeOK /\ RecommendationsTypeOK /\ ForecastTypeOK
    /\ TenantRowsTypeOK /\ BootstrapTypeOK /\ LoginTypeOK
    /\ InvitationLinksTypeOK /\ ForecastRunsTypeOK
=============================================================================
