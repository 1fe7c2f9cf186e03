--------------------------- MODULE MCAssetCommit ----------------------------
(* Instances of AssetCommit for TLC; its constants are set in the cfg files. *)
EXTENDS AssetCommit
=============================================================================
