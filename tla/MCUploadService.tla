--------------------------- MODULE MCUploadService ---------------------------
(* Instances of UploadService for TLC. *)
EXTENDS UploadService, TLC

CONSTANTS a1, k1, s1

OnePublish == (a1 :> "publish")
OneDraft   == (a1 :> "draft")
OneTarget  == (k1 :> <<a1>>)
OneSource  == (k1 :> s1)
=============================================================================
