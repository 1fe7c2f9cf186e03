--------------------------- MODULE MCRootAndTools ---------------------------
(* The data root a backup copies, that is the files and rows of one job      *)
(* (AssetBackup) and the graph of jobs (DiscoveryGraph), one operation of    *)
(* the upload tools (UploadBridge), the databases as processes open them     *)
(* (SchemaFiles) and as a migration rewrites them (LegacyRows), and the      *)
(* directories setups install (RuntimeSetup), for TLC.  They share no        *)
(* variable and every property is about one of them, so a behaviour moves    *)
(* one part and leaves the others at their beginning.                        *)
EXTENDS AssetBackup, DiscoveryGraph, UploadBridge, SchemaFiles, LegacyRows, RuntimeSetup, TLC

CONSTANTS i1, i2

VARIABLE part  \* the part that moves

\* Two attachments of the post have the same child source, as when the post
\* was edited between two probes.
PostItem     == [t \in Targets |-> IF t = "b1" THEN "b" ELSE "a"]
PostResults  == {{"a1", "b1"}, {"a2"}}
FailedBeside == [i \in Inputs |-> {"failed"}]

RootSymmetry == Permutations(Inputs)

NoDatabase == CHOOSE l \in Owners : l.state = "draft" /\ l.auth = "none" /\ l.code = "none"

RootInit ==
    /\ part \in {"files", "graph", "bridge", "schema", "rows", "setup"}
    /\ part # "bridge" => session = "none"
    /\ part # "schema" => kind = "uploads" /\ base = None
    /\ part # "rows" => legacy = NoDatabase
    /\ part # "setup" => what = "upload"
    /\ BackupInit /\ GraphInit /\ BridgeInit /\ SchemaInit /\ LegacyInit /\ SetupInit

RootNext ==
    /\ part' = part
    /\ \/ /\ part = "files" /\ BackupNext
          /\ UNCHANGED <<graphVars, bridgeVars, schemaVars, legacyVars, setupVars>>
       \/ /\ part = "graph" /\ GraphNext
          /\ UNCHANGED <<backupVars, bridgeVars, schemaVars, legacyVars, setupVars>>
       \/ /\ part = "bridge" /\ BridgeNext
          /\ UNCHANGED <<backupVars, graphVars, schemaVars, legacyVars, setupVars>>
       \/ /\ part = "schema" /\ SchemaNext
          /\ UNCHANGED <<backupVars, graphVars, bridgeVars, legacyVars, setupVars>>
       \/ /\ part = "rows" /\ LegacyNext
          /\ UNCHANGED <<backupVars, graphVars, bridgeVars, schemaVars, setupVars>>
       \/ /\ part = "setup" /\ SetupNext
          /\ UNCHANGED <<backupVars, graphVars, bridgeVars, schemaVars, legacyVars>>

RootSpec ==
    RootInit /\ [][RootNext]_<<backupVars, graphVars, bridgeVars, schemaVars, legacyVars, setupVars, part>>
=============================================================================
