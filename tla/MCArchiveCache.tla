--------------------------- MODULE MCArchiveCache ---------------------------
(***************************************************************************)
(* A small instance of ArchiveCache for TLC: a run that may write the cache *)
(* beside a --no-cache run, and one archive with its marker, a license file *)
(* and an SBOM.                                                             *)
(***************************************************************************)
EXTENDS ArchiveCache

CONSTANTS p1, p2, metadata, license, sbom

MCProcs == {p1, p2}
MCOne == {p1}
MCMembers == {metadata, license, sbom}
MCBoth == {"wheel", "conda"}
MCDefault == {"default"}
=============================================================================
