------------------------------ MODULE MCWizard ------------------------------
EXTENDS Wizard

Company ==
    [auth |-> "oidc", provider |-> "google", client |-> "public", port |-> TRUE, federation |-> "direct",
     windows |-> FALSE, monitoring |-> "central", vpc |-> "own", analytics |-> TRUE, quota |-> "token",
     customDaily |-> TRUE, bypass |-> FALSE, builds |-> "far", websearch |-> TRUE, desktop |-> TRUE,
     delivery |-> "bootstrap", target |-> "managed", distribution |-> "page", idp |-> "generic", model |-> "eu"]
Team ==
    [Company EXCEPT !.auth = "idc", !.monitoring = "sidecar", !.quota = "cost", !.bypass = TRUE,
                    !.builds = "skip"]
Trial ==
    [Company EXCEPT !.auth = "none", !.windows = TRUE, !.desktop = FALSE, !.builds = "near", !.delivery = "static",
                    !.distribution = "presigned", !.model = "us", !.target = "user"]
Quiet ==
    [Team EXCEPT !.monitoring = "off", !.auth = "oidc", !.provider = "azure", !.client = "certificate",
                 !.port = FALSE, !.distribution = "off"]
MCIntents == {Company, Team, Trial, Quiet}
MCLegacies == {[good |-> {}, default |-> "B", pending |-> FALSE],
               [good |-> {"A"}, default |-> "B", pending |-> FALSE]}
=============================================================================
