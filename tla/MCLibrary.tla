----------------------------- MODULE MCLibrary -----------------------------
(* The components of the library that compute something from what they are   *)
(* given.  They share no state, and a behaviour of the model is one of       *)
(* exactly one of them; the others stay in one of their initial states.      *)
EXTENDS MCRoleConfig, MCVersionedCrds, MCQuantities, MCNames, MCTelemetry,
        MCPodBuilder, MCLogPipeline, MCGitSync, MCControllerReports

VARIABLE part

\* a resource without role groups
RoleIdle ==
    /\ spec = Resource(Layer, <<>>)
    /\ merged = [g \in GroupNames |-> [logging |-> NotYet, jvm |-> NotYet]]
    /\ validated = [g \in GroupNames |-> NotYet]

BuilderIdle == kind = "probe" /\ builder = (CHOOSE b \in New["probe"] : TRUE) /\ history = <<>>

LibraryInit ==
    /\ part \in {"role", "versioned", "quantity", "names", "telemetry", "builder",
                 "pipeline", "connection", "git_sync", "report"}
    /\ IF part = "role" THEN RoleInit ELSE RoleIdle
    /\ IF part = "builder" THEN BuilderInit ELSE BuilderIdle
    /\ VersionedInit /\ QuantityInit /\ NamesInit /\ TelemetryInit /\ PipelineInit
    /\ ConnectionInit /\ GitSyncInit /\ ReportInit

LibraryNext ==
    /\ \/ part = "role" /\ RoleNext
       \/ part # "role" /\ UNCHANGED roleVars
    /\ \/ part = "versioned" /\ VersionedNext
       \/ part # "versioned" /\ UNCHANGED versionedVars
    /\ \/ part = "quantity" /\ QuantityNext
       \/ part # "quantity" /\ UNCHANGED quantityVars
    /\ \/ part = "names" /\ NamesNext
       \/ part # "names" /\ UNCHANGED namesVars
    /\ \/ part = "telemetry" /\ TelemetryNext
       \/ part # "telemetry" /\ UNCHANGED telemetryVars
    /\ \/ part = "builder" /\ BuilderNext
       \/ part # "builder" /\ UNCHANGED builderVars
    /\ \/ part = "pipeline" /\ PipelineNext
       \/ part # "pipeline" /\ UNCHANGED logged
    /\ \/ part = "connection" /\ ConnectionNext
       \/ part # "connection" /\ UNCHANGED connectionVars
    /\ \/ part = "git_sync" /\ GitSyncNext
       \/ part # "git_sync" /\ UNCHANGED synced
    /\ \/ part = "report" /\ ReportNext
       \/ part # "report" /\ UNCHANGED reported
    /\ UNCHANGED part

=============================================================================
