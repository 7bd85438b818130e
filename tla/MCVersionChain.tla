--------------------------- MODULE MCVersionChain ---------------------------
(* Small instances of VersionChain. *)
EXTENDS VersionChain

DraftOnly == {"DRAFT"}
UpToTwo == 0..2
=============================================================================
