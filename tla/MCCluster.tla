------------------------------ MODULE MCCluster -----------------------------
\* Instances of Cluster for TLC.
EXTENDS Cluster, TLC
=============================================================================
