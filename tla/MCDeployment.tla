---------------------------- MODULE MCDeployment ----------------------------
EXTENDS Deployment

CentralProfile ==
    [auth |-> TRUE, monitoring |-> "central", ownVpc |-> FALSE, analytics |-> FALSE, distribution |-> "off",
     quota |-> TRUE, websearch |-> "on", bootstrap |-> FALSE, builds |-> "skip"]
SidecarProfile ==
    [auth |-> TRUE, monitoring |-> "sidecar", ownVpc |-> FALSE, analytics |-> FALSE, distribution |-> "page",
     quota |-> TRUE, websearch |-> "unfit", bootstrap |-> TRUE, builds |-> "east"]
MCProfiles == {CentralProfile, SidecarProfile}
=============================================================================
