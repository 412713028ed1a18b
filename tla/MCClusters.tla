----------------------------- MODULE MCClusters -----------------------------
(* Two threads; two kubeconfig clusters that share the library's default    *)
(* Configuration, and one EKS cluster.                                      *)
EXTENDS Clusters, TLC
CONSTANTS aks, gke, eks, ns

MCMode == (aks :> "context") @@ (gke :> "context") @@ (eks :> "eks")
MCAllowed == (aks :> {ns}) @@ (gke :> {}) @@ (eks :> {ns})

=============================================================================
