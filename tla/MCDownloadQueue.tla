--------------------------- MODULE MCDownloadQueue --------------------------
(* Instances of DownloadQueue for TLC. *)
EXTENDS DownloadQueue, TLC

CONSTANTS s1, s2, s3

SamePlatform == [j \in Jobs |-> "x"]
OneWorker    == [s \in Slots |-> "w1"]
TwoWorkers   == [s \in Slots |-> IF s = s3 THEN "w2" ELSE "w1"]

\* The two slots of the first Worker are alike.
SlotSymmetry == Permutations({s1, s2})
=============================================================================
