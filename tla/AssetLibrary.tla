---------------------------- MODULE AssetLibrary ----------------------------
(***************************************************************************)
(* What the download side promises the asset library for one job: nothing, *)
(* or at one instant the complete result of one attempt, for ever.  The    *)
(* docstring of finalize_asset_commit_intents: "Publish and register every *)
(* intent for one attempt atomically".                                     *)
(***************************************************************************)
EXTENDS Integers

CONSTANTS Items,        \* the media items of the source
          MaxAttempts   \* bound on the attempts of the job

VARIABLE visible        \* assets with a row in media_assets and their files

Init == visible = {}

Publish(n) == visible = {} /\ visible' = {n} \X Items

Next == \E n \in 1..MaxAttempts : Publish(n)

Spec == Init /\ [][Next]_visible
=============================================================================
