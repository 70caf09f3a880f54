--------------------------- MODULE MCNetworkPool ---------------------------
(***************************************************************************)
(* Small instances of NetworkPool for TLC: the backoff constants are those  *)
(* of http.rs, the pool sizes are scaled down.                              *)
(***************************************************************************)
EXTENDS NetworkPool

MCRuns == {<<1, 2>>, <<0, 2>>}
MCBoth == {TRUE, FALSE}
MCConfigs == {0, 2}
MCGrants == {0, 1, 9}
=============================================================================
