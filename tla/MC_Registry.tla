----------------------------- MODULE MC_Registry -----------------------------
(* Model-checking instance of Registry: one service "app" with containers  *)
(* web and db, one path without a slash, two manifests.                     *)
EXTENDS Registry, TLC

CONSTANTS appWeb, appDb, bare, m1, m2, h1, h2

MC_Repos == {appWeb, appDb, bare}
MC_RepoService == (appWeb :> "app") @@ (appDb :> "app") @@ (bare :> Invalid)
MC_Blobs == {m1, m2}
MC_DigestRef == (m1 :> "sha256:m1") @@ (m2 :> "sha256:m2")
MC_OneHandler == {h1}
MC_Handlers == {h1, h2}
=============================================================================
