-------------------------------- MODULE Wizard --------------------------------
(***************************************************************************)
(* "ccwb init" (cli/commands/init.py): the sections of the wizard, the file *)
(* that lets an interrupted one be resumed (cli/utils/progress.py), and the *)
(* profiles it saves (config.py, migration.py, cli/commands/context.py).    *)
(* The administrator either answers with one of Intents or accepts every    *)
(* default.  An action is one section of questions, or one access to a      *)
(* file; a file is empty between its opening and its writing.               *)
(***************************************************************************)
EXTENDS Naturals, FiniteSets

CONSTANTS
    Names,   \* names of profiles
    Intents, \* answers an administrator means to give
    Legacies,\* what an older version may have left: [good, default, pending]
    NoName, Absent, Broken, \* no profile, no file, a file that cannot be parsed
    Unset,   \* a key the wizard has not set yet
    MaxInits, MaxKills

(* What may be answered.  "builds" is the answer about Windows builds: in a *)
(* region of their own that is near or far, or no region at all.            *)
Answer ==
    [auth: {"oidc", "idc", "none"}, provider: {"okta", "google", "azure"},
     client: {"public", "secret", "certificate"}, port: BOOLEAN, federation: {"direct", "cognito"},
     windows: BOOLEAN, monitoring: {"off", "central", "sidecar"}, vpc: {"new", "own"},
     analytics: BOOLEAN, quota: {"off", "token", "cost"}, customDaily: BOOLEAN, bypass: BOOLEAN,
     builds: {"no", "near", "far", "skip"}, websearch: BOOLEAN, desktop: BOOLEAN,
     delivery: {"static", "bootstrap"}, target: {"user", "managed"},
     distribution: {"off", "presigned", "page"}, idp: {"okta", "generic"}, model: {"us", "eu"}]

(* What is saved of them.                                                   *)
Profile ==
    [auth: {"oidc", "idc", "none"}, provider: {"okta", "google", "azure", Unset},
     client: {"none", "public", "secret", "certificate"}, port: BOOLEAN,
     vpc: {"none", "new", "own"}, saml: BOOLEAN, idp: {"none", "okta", "generic"},
     federation: {"direct", "cognito"}, pool: Names, windows: BOOLEAN, monitoring: BOOLEAN,
     mode: {"sidecar", "central"}, analytics: BOOLEAN, quota: BOOLEAN, limit: {"token", "cost"},
     daily: {"none", "computed", "custom"}, bypass: BOOLEAN, builds: BOOLEAN,
     buildRegion: {"main", "near", "far"}, prior: SUBSET {"near", "far"}, websearch: BOOLEAN,
     desktop: BOOLEAN, token: BOOLEAN, delivery: {"static", "bootstrap"}, target: {"user", "managed"},
     distribution: {"off", "presigned", "page"}, model: {"us", "eu"}, chat: BOOLEAN,
     alias: {"none", "opusplan"}, failMode: {"open", "closed"}]

ASSUME WizardAssumption ==
    NoName \notin Names /\ MaxInits \in Nat /\ MaxKills \in Nat
ASSUME AnswersAssumption == Intents # {} /\ Intents \subseteq Answer
ASSUME LegaciesAssumption == Legacies \subseteq [good: SUBSET Names, default: Names, pending: BOOLEAN]
ASSUME FilesAssumption == Absent # Broken /\ {Absent, Broken} \cap Profile = {}

(* "Unset" is nothing that could be answered or saved.                      *)
ASSUME UnsetAssumption ==
    /\ Unset \notin Names /\ Unset \notin BOOLEAN
    /\ \A regions \in SUBSET {"near", "far"} : Unset # regions
    /\ Unset \notin {"oidc", "idc", "none", "okta", "google", "azure", "generic", "public", "secret",
                     "certificate", "new", "own", "direct", "cognito", "sidecar", "central",
                     "token", "cost", "computed", "custom", "main", "near", "far", "static",
                     "bootstrap", "user", "managed", "off", "presigned", "page", "us", "eu"}

VARIABLES
    store,    \* the profile files: what each holds, Absent or Broken
    active,   \* active_profile of config.json
    legacy,   \* the configuration of an older version, and whether it was migrated
    progress, \* .init_progress.json
    wizard    \* the wizard that runs, its program counter and its own data

wizardVars == <<store, active, legacy, progress, wizard>>

-----------------------------------------------------------------------------
(* What is asked.                                                           *)

Keys == {"auth", "provider", "client", "port", "federation", "pool", "windows", "monitoring", "mode",
         "vpc", "analytics", "quota", "limit", "daily", "bypass", "builds", "buildRegion", "prior",
         "websearch", "desktop", "token", "delivery", "target", "distribution", "saml", "idp",
         "model", "chat"}
EmptyConfig == [k \in Keys |-> Unset]
NoProgress == [last |-> "start", data |-> EmptyConfig]

Get(config, key, default) == IF config[key] = Unset THEN default ELSE config[key]

(* What the questions of a section propose, given the answers so far.  The  *)
(* region of Windows builds proposes the nearest one, whatever was saved;   *)
(* a daily limit proposes the computed one; and a distribution that is      *)
(* disabled proposes the first choice.                                      *)
Defaults(config, p) ==
    [auth |-> Get(config, "auth", "oidc"), provider |-> Get(config, "provider", "okta"),
     client |-> Get(config, "client", "public"), port |-> Get(config, "port", FALSE),
     federation |-> Get(config, "federation", "direct"),
     windows |-> Get(config, "windows", TRUE),
     monitoring |-> IF Get(config, "monitoring", TRUE) THEN Get(config, "mode", "sidecar") ELSE "off",
     vpc |-> IF Get(config, "vpc", "none") = "none" THEN "new" ELSE config.vpc,
     analytics |-> Get(config, "analytics", TRUE),
     quota |-> IF Get(config, "quota", Get(config, "auth", "oidc") # "idc")
               THEN Get(config, "limit", "cost") ELSE "off",
     customDaily |-> FALSE, bypass |-> Get(config, "bypass", FALSE),
     builds |-> IF Get(config, "builds", FALSE) THEN "near" ELSE "no",
     websearch |-> Get(config, "websearch", FALSE), desktop |-> Get(config, "desktop", TRUE),
     delivery |-> Get(config, "delivery", "static"), target |-> Get(config, "target", "user"),
     distribution |-> IF Get(config, "distribution", "off") = "off" THEN "presigned" ELSE config.distribution,
     idp |-> IF Get(config, "idp", "none") = "none" THEN "okta" ELSE config.idp,
     model |-> Get(config, "model", "us")]

(* The answers that count: those meant, or the defaults.                    *)
Given == IF wizard.accepts THEN Defaults(wizard.config, wizard.name) ELSE wizard.intent

(* Step 1.  The questions about the provider belong to OIDC; what they       *)
(* answered before stays when another method is chosen.                     *)
MethodAnswers(config, a) == [config EXCEPT !.auth = a.auth]
ProviderAnswers(config, a) == [config EXCEPT !.provider = a.provider]

(* How the client proves itself is asked of Azure only, and kept for ever.  *)
ClientAnswers(config, a) == [config EXCEPT !.client = IF a.provider = "azure" THEN a.client ELSE @]

(* A port of one's own, once given, stays although it is declined.          *)
FederationAnswers(config, a) ==
    [config EXCEPT !.port = a.port \/ Get(config, "port", FALSE), !.federation = a.federation]

AuthAnswers(config, a) ==
    LET method == MethodAnswers(config, a)
    IN IF a.auth # "oidc" THEN method
       ELSE FederationAnswers(ClientAnswers(ProviderAnswers(method, a), a), a)

AwsAnswers(config, a, p) ==
    [config EXCEPT !.pool = IF wizard.accepts THEN Get(config, "pool", p) ELSE p,
                   !.windows = a.windows]

(* The collector's network: one that was configured may be kept.            *)
ConfigureVpc(config, a) ==
    IF a.monitoring # "central" THEN {"none"} ELSE {a.vpc, Get(config, "vpc", a.vpc)} \ {"none"}

(* A plausible fault: the mode is what was answered, also for "off".        *)
ModeAsAnswered(config, a, vpc) ==
    [config EXCEPT !.monitoring = a.monitoring # "off", !.mode = a.monitoring, !.vpc = vpc,
                   !.analytics = a.monitoring = "central" /\ a.analytics]

MonitoringAnswers(config, a, vpc) ==
    IF a.monitoring = "off" THEN [config EXCEPT !.monitoring = FALSE]
    ELSE [config EXCEPT !.monitoring = TRUE, !.mode = a.monitoring, !.vpc = vpc,
                        !.analytics = a.monitoring = "central" /\ a.analytics]

(* A plausible fault: quota is asked for whoever signs in.                  *)
QuotaForAnyone(config, a) == a.monitoring # "off" /\ a.quota # "off"

(* Quota needs a user, so it is switched off without a sign-in; and it is   *)
(* asked for only when monitoring is on.                                    *)
QuotaWanted(config, a) == a.monitoring # "off" /\ a.quota # "off" /\ config.auth # "none"

LimitAnswers(config, a) ==
    [config EXCEPT !.limit = a.quota,
                   !.daily = IF a.quota = "cost" THEN "none"
                             ELSE IF a.customDaily THEN "custom" ELSE "computed"]

(* Only a collector on the user's machine can be bypassed.                  *)
BypassAnswers(config, a) == [config EXCEPT !.bypass = a.monitoring = "sidecar" /\ a.bypass]

QuotaAnswers(config, a) ==
    IF a.monitoring = "off" THEN config
    ELSE IF ~QuotaWanted(config, a) THEN [config EXCEPT !.quota = FALSE]
    ELSE BypassAnswers(LimitAnswers([config EXCEPT !.quota = TRUE], a), a)

(* A plausible fault: only a change of region is remembered.                *)
CodeBuildForgets(config, a) ==
    LET was == Get(config, "buildRegion", "main")
        now == IF a.builds = "no" THEN was
               ELSE IF config.windows \/ a.builds = "skip" THEN "main" ELSE a.builds
    IN [config EXCEPT !.builds = a.builds # "no" /\ (config.windows \/ a.builds # "skip"),
                      !.buildRegion = now,
                      !.prior = IF "main" \in {was, now} \/ was = now THEN Get(config, "prior", {})
                                ELSE Get(config, "prior", {}) \cup {was}]

(* Windows builds.  Where the main region has no Windows containers another *)
(* one is chosen; the one left behind is remembered, except when the answer *)
(* is "no".                                                                 *)
CodeBuildAnswers(config, a) ==
    LET was == Get(config, "buildRegion", "main")
        now == IF a.builds = "no" THEN was
               ELSE IF config.windows \/ a.builds = "skip" THEN "main" ELSE a.builds
    IN [config EXCEPT !.builds = a.builds # "no" /\ (config.windows \/ a.builds # "skip"),
                      !.buildRegion = now,
                      !.prior = IF was \in {"main", now} THEN Get(config, "prior", {})
                                ELSE Get(config, "prior", {}) \cup {was}]

DesktopAnswers(config, a) ==
    [config EXCEPT !.websearch = config.auth # "idc" /\ a.websearch,
                   !.desktop = a.desktop,
                   !.token = IF a.desktop /\ Get(config, "mode", "central") = "central"
                             THEN TRUE ELSE Get(config, "token", FALSE),
                   !.delivery = IF a.desktop /\ config.auth = "oidc" THEN a.delivery ELSE @]

(* The landing page signs its visitors in by SAML where the identity centre *)
(* is used, and by a web client of an identity provider otherwise; what was *)
(* said of the other way is kept.                                           *)
SamlAnswers(config) == [config EXCEPT !.saml = TRUE]
PageIdpAnswers(config, a) == [config EXCEPT !.idp = a.idp]

DistributionAnswers(config, a) ==
    LET chosen == [config EXCEPT !.target = a.target, !.distribution = a.distribution]
    IN IF a.distribution # "page" THEN chosen
       ELSE IF config.auth = "idc" THEN SamlAnswers(chosen) ELSE PageIdpAnswers(chosen, a)

ModelAnswers(config, a) == [config EXCEPT !.model = a.model]

-----------------------------------------------------------------------------
(* Profiles and the wizard's data.                                          *)

IsProfile(x) == x \notin {Absent, Broken}
Files == {p \in Names : store[p] # Absent}

(* The profile the answers are saved as.  Only some of its fields are       *)
(* masked: those of monitoring when that is off.                            *)
Saved(config, before) ==
    [auth |-> Get(config, "auth", "oidc"), provider |-> config.provider,
     client |-> Get(config, "client", "none"), port |-> Get(config, "port", FALSE),
     federation |-> Get(config, "federation", "cognito"), vpc |-> Get(config, "vpc", "none"),
     pool |-> config.pool, windows |-> config.windows, monitoring |-> config.monitoring,
     mode |-> Get(config, "mode", "sidecar"),
     analytics |-> config.monitoring /\ Get(config, "analytics", TRUE),
     quota |-> config.monitoring /\ Get(config, "quota", FALSE),
     limit |-> Get(config, "limit", "token"), daily |-> Get(config, "daily", "none"),
     bypass |-> Get(config, "bypass", FALSE), builds |-> Get(config, "builds", FALSE),
     buildRegion |-> Get(config, "buildRegion", "main"), prior |-> Get(config, "prior", {}),
     websearch |-> Get(config, "websearch", FALSE), desktop |-> Get(config, "desktop", TRUE),
     token |-> Get(config, "token", FALSE), delivery |-> Get(config, "delivery", "static"),
     target |-> Get(config, "target", "user"), distribution |-> Get(config, "distribution", "off"),
     saml |-> Get(config, "saml", FALSE), idp |-> Get(config, "idp", "none"), model |-> config.model, chat |-> Get(config, "chat", TRUE),
     alias |-> "none", failMode |-> IF IsProfile(before) THEN before.failMode ELSE "open"]

(* A plausible fault: a field that is saved and not restored.               *)
RestoredWithoutTarget(profile) ==
    [k \in Keys |-> IF k = "target" \/ (k = "chat" /\ ~profile.chat)
                       \/ (k = "client" /\ profile.client = "none") THEN Unset ELSE profile[k]]

(* The profile turned back into the wizard's data.  A chat tab that was     *)
(* disabled is not restored, nor is what was never answered.                *)
Restored(profile) ==
    [k \in Keys |-> IF (k = "chat" /\ ~profile.chat) \/ (k = "client" /\ profile.client = "none")
                    THEN Unset ELSE profile[k]]

(* What a migrated profile of an older version is like.                     *)
OldProfile(p) ==
    [auth |-> "oidc", provider |-> "okta", client |-> "none", port |-> FALSE, federation |-> "cognito",
     vpc |-> "new", saml |-> FALSE, idp |-> "none", pool |-> p, windows |-> TRUE,
     monitoring |-> TRUE, mode |-> "central", analytics |-> TRUE, quota |-> FALSE, limit |-> "token",
     daily |-> "none", bypass |-> FALSE, builds |-> FALSE, buildRegion |-> "main", prior |-> {},
     websearch |-> FALSE, desktop |-> TRUE, token |-> FALSE, delivery |-> "static", target |-> "user",
     distribution |-> "off", model |-> "us", chat |-> TRUE, alias |-> "none", failMode |-> "open"]

-----------------------------------------------------------------------------
Asleep == [pc |-> "off", name |-> NoName, update |-> FALSE, resumed |-> FALSE, accepts |-> FALSE,
           intent |-> CHOOSE a \in Intents : TRUE, config |-> EmptyConfig, memory |-> NoProgress,
           held |-> Absent, inits |-> 0, kills |-> 0]

WizardInit ==
    /\ store = [p \in Names |-> Absent] /\ active = NoName
    /\ \E l \in Legacies : legacy = [l EXCEPT !.pending = l.good # {}]
    /\ progress = NoProgress
    /\ wizard = Asleep

Sleeping == wizard.pc = "off"
Sleep == wizard' = [Asleep EXCEPT !.inits = wizard.inits, !.kills = wizard.kills]

(* Loading the configuration migrates an older one first.  The profile that *)
(* was the default there becomes active even if it could not be migrated.   *)
Migrate ==
    /\ Sleeping /\ legacy.pending
    /\ store' = [p \in Names |-> IF p \in legacy.good THEN OldProfile(p) ELSE store[p]]
    /\ active' = legacy.default
    /\ legacy' = [legacy EXCEPT !.pending = FALSE]
    /\ UNCHANGED <<progress, wizard>>

(* The wizard starts: it loads its progress and asks for the profile.       *)
(* Accepting defaults throughout needs a profile that has been saved.       *)
Begin(p, accepts, a) ==
    /\ Sleeping /\ ~legacy.pending /\ wizard.inits < MaxInits
    /\ accepts => IsProfile(store[p]) /\ a = Asleep.intent
    /\ wizard' = [wizard EXCEPT !.pc = "asked", !.name = p, !.accepts = accepts, !.intent = a,
                                !.memory = progress, !.inits = @ + 1]
    /\ UNCHANGED <<store, active, legacy, progress>>

(* An existing profile is updated: nothing is skipped, and what is saved as *)
(* progress is not taken up.                                                *)
Update ==
    /\ wizard.pc = "asked" /\ IsProfile(store[wizard.name])
    /\ wizard' = [wizard EXCEPT !.pc = "auth", !.update = TRUE, !.config = Restored(store[wizard.name])]
    /\ UNCHANGED <<store, active, legacy, progress>>

(* "Start fresh", or a resume that is declined: the progress is cleared.    *)
StartFresh ==
    /\ wizard.pc = "asked" /\ ~wizard.accepts
    /\ IF IsProfile(store[wizard.name]) \/ wizard.memory.last # "start"
       THEN progress' = NoProgress ELSE UNCHANGED progress
    /\ wizard' = [wizard EXCEPT !.pc = "auth", !.config = EmptyConfig, !.memory = NoProgress]
    /\ UNCHANGED <<store, active, legacy>>

(* A plausible fault: progress is counted one section too far.              *)
ResumeTooFar(last) ==
    CASE last \in {"aws", "monitoring", "bedrock"} -> "features" [] OTHER -> "auth"

(* The section a resumed wizard goes on with.  The first step is saved      *)
(* under another name than the one that is looked for, and is asked again.  *)
ResumeAt(last) ==
    CASE last = "aws" -> "monitoring" [] last \in {"monitoring", "bedrock"} -> "features" [] OTHER -> "auth"

(* Progress is offered for whatever profile is new, whosoever it was.       *)
Resume ==
    /\ wizard.pc = "asked" /\ ~IsProfile(store[wizard.name]) /\ wizard.memory.last # "start"
    /\ wizard' = [wizard EXCEPT !.pc = ResumeAt(wizard.memory.last), !.resumed = TRUE,
                                !.config = wizard.memory.data]
    /\ UNCHANGED <<store, active, legacy, progress>>

-----------------------------------------------------------------------------
(* The sections.                                                            *)

(* The keys of one dictionary of the wizard's data; the others stand alone. *)
Dictionaries == {{"pool", "windows", "model"}, {"monitoring", "mode", "vpc"},
                 {"quota", "limit", "daily", "bypass"}, {"builds", "buildRegion", "prior"},
                 {"desktop", "token", "chat"}, {"distribution", "saml", "idp"}}
Together(k) == {k} \cup UNION {section \in Dictionaries : k \in section}

(* A section is over and its answers are kept as progress: over whatever    *)
(* the progress file held when the wizard started, one dictionary at a time.*)
Merged(old, config) ==
    [k \in Keys |-> IF \A j \in Together(k) : config[j] = Unset THEN old[k] ELSE config[k]]

Keep(step, config, next) ==
    LET memory == [last |-> step, data |-> Merged(wizard.memory.data, config)]
    IN /\ progress' = NoProgress \* opened, and not yet written
       /\ wizard' = [wizard EXCEPT !.pc = next, !.config = config, !.memory = memory]
       /\ UNCHANGED <<store, active, legacy>>

Asks(section) == wizard.pc = section

(* Step 1 is kept as progress only if it was answered with OIDC.            *)
AskAuth ==
    /\ Asks("auth")
    /\ LET config == AuthAnswers(wizard.config, Given)
       IN IF Given.auth = "oidc" THEN Keep("oidc", config, "keepAuth")
          ELSE /\ wizard' = [wizard EXCEPT !.pc = "aws", !.config = config]
               /\ UNCHANGED <<store, active, legacy, progress>>

AskAws == Asks("aws") /\ Keep("aws", AwsAnswers(wizard.config, Given, wizard.name), "keepAws")
AskMonitoring ==
    /\ Asks("monitoring")
    /\ \E vpc \in ConfigureVpc(wizard.config, Given) :
          Keep("monitoring", QuotaAnswers(MonitoringAnswers(wizard.config, Given, vpc), Given), "keepMonitoring")

(* Builds, web search, Claude Desktop and distribution are asked each time, *)
(* and kept only with the next section.                                     *)
AskFeatures ==
    /\ Asks("features")
    /\ LET config == DistributionAnswers(DesktopAnswers(CodeBuildAnswers(wizard.config, Given), Given), Given)
       IN wizard' = [wizard EXCEPT
              !.pc = IF wizard.resumed /\ wizard.memory.last = "bedrock" THEN "review" ELSE "bedrock",
              !.config = config]
    /\ UNCHANGED <<store, active, legacy, progress>>

AskBedrock == Asks("bedrock") /\ Keep("bedrock", ModelAnswers(wizard.config, Given), "keepBedrock")

After == [keepAuth |-> "aws", keepAws |-> "monitoring", keepMonitoring |-> "features",
          keepBedrock |-> "review"]

WriteProgress ==
    /\ wizard.pc \in DOMAIN After
    /\ progress' = wizard.memory
    /\ wizard' = [wizard EXCEPT !.pc = After[@]]
    /\ UNCHANGED <<store, active, legacy>>

(* The answers a profile cannot be saved without.                           *)
Needed == {"pool", "monitoring", "model"}

(* The answers are confirmed, and the profile's file is opened.             *)
OpenProfileFile ==
    /\ Asks("review")
    /\ IF \E k \in Needed : wizard.config[k] = Unset
       THEN Sleep /\ UNCHANGED <<store, active, legacy, progress>>
       ELSE /\ wizard' = [wizard EXCEPT !.pc = "write",
                              !.held = Saved(wizard.config, store[wizard.name])]
            /\ store' = [store EXCEPT ![wizard.name] = Broken]
            /\ UNCHANGED <<active, legacy, progress>>

WriteProfileFile ==
    /\ wizard.pc = "write"
    /\ store' = [store EXCEPT ![wizard.name] = wizard.held]
    /\ wizard' = [wizard EXCEPT !.pc = "activate"]
    /\ UNCHANGED <<active, legacy, progress>>

(* config.json is opened; killed now, it names no active profile.           *)
OpenGlobal ==
    /\ wizard.pc = "activate"
    /\ active' = NoName
    /\ wizard' = [wizard EXCEPT !.pc = "activating"]
    /\ UNCHANGED <<store, legacy, progress>>

(* An update never clears the progress it leaves.                           *)
Activate ==
    /\ wizard.pc = "activating"
    /\ active' = wizard.name
    /\ progress' = IF wizard.update THEN progress ELSE NoProgress
    /\ Sleep
    /\ UNCHANGED <<store, legacy>>

(* The administrator leaves, or the wizard is killed, also inside a write.  *)
Leave ==
    /\ ~Sleeping /\ wizard.kills < MaxKills
    /\ wizard' = [Asleep EXCEPT !.inits = wizard.inits, !.kills = wizard.kills + 1]
    /\ UNCHANGED <<store, active, legacy, progress>>

-----------------------------------------------------------------------------
(* A plausible fault: the name is taken as it is given.                     *)
UseName(p) ==
    /\ Sleeping /\ ~legacy.pending /\ active # p
    /\ active' = p
    /\ UNCHANGED <<store, legacy, progress, wizard>>

(* "ccwb context use": only a profile that has a file can become active.    *)
UseProfile(p) ==
    /\ Sleeping /\ ~legacy.pending /\ p \in Files /\ active # p
    /\ active' = p
    /\ UNCHANGED <<store, legacy, progress, wizard>>

(* A field the wizard does not ask for is set in the profile's file.        *)
EditProfile(p) ==
    /\ Sleeping /\ IsProfile(store[p]) /\ store[p].alias = "none"
    /\ store' = [store EXCEPT ![p].alias = "opusplan", ![p].chat = FALSE, ![p].failMode = "closed"]
    /\ UNCHANGED <<active, legacy, progress, wizard>>

(* A day passes: the progress is not taken up any more.                     *)
Expire ==
    /\ Sleeping /\ progress # NoProgress
    /\ progress' = NoProgress
    /\ UNCHANGED <<store, active, legacy, wizard>>

Question == AskAuth \/ AskAws \/ AskMonitoring \/ AskFeatures \/ AskBedrock

WizardNext ==
    \/ Migrate
    \/ \E p \in Names, accepts \in BOOLEAN, a \in Intents : Begin(p, accepts, a)
    \/ Update \/ StartFresh \/ Resume
    \/ Question \/ WriteProgress
    \/ OpenProfileFile \/ WriteProfileFile \/ OpenGlobal \/ Activate
    \/ Leave \/ Expire
    \/ \E p \in Names : UseProfile(p) \/ EditProfile(p)

WizardSpec == WizardInit /\ [][WizardNext]_wizardVars

-----------------------------------------------------------------------------
(* Properties.                                                              *)

WizardTypeOK ==
    /\ \A p \in Names : store[p] \in {Absent, Broken} \/ store[p] \in Profile
    /\ active \in Names \cup {NoName}
    /\ progress.last \in {"start", "oidc", "aws", "monitoring", "bedrock"}
    /\ DOMAIN progress.data = Keys /\ DOMAIN wizard.config = Keys
    /\ wizard.pc \in {"off", "asked", "auth", "aws", "monitoring", "features", "bedrock", "review",
                      "write", "activate", "activating"} \cup DOMAIN After
    /\ wizard.inits \in 0 .. MaxInits /\ wizard.kills \in 0 .. MaxKills

(* What "ccwb deploy" reads of a profile, and what the administrator meant. *)
DeployView(x) ==
    [auth |-> x.auth, pool |-> x.pool, model |-> x.model, distribution |-> x.distribution,
     page |-> IF x.distribution # "page" THEN "none"
              ELSE IF x.auth # "idc" THEN x.idp ELSE IF x.saml THEN "saml" ELSE "none",
     monitoring |-> IF x.monitoring THEN x.mode ELSE "off",
     analytics |-> x.monitoring /\ x.mode = "central" /\ x.analytics,
     quota |-> IF x.quota THEN x.limit ELSE "off", websearch |-> x.websearch,
     buildRegion |-> IF x.builds THEN x.buildRegion ELSE "none"]

Meant(a, p) ==
    [auth |-> a.auth, pool |-> p, model |-> a.model, distribution |-> a.distribution,
     page |-> IF a.distribution # "page" THEN "none" ELSE IF a.auth = "idc" THEN "saml" ELSE a.idp,
     monitoring |-> a.monitoring, analytics |-> a.monitoring = "central" /\ a.analytics,
     quota |-> IF a.monitoring = "off" \/ a.auth = "none" THEN "off" ELSE a.quota,
     websearch |-> a.websearch /\ a.auth # "idc",
     buildRegion |-> IF a.builds = "no" THEN "none" ELSE IF a.windows THEN "main"
                     ELSE IF a.builds = "skip" THEN "none" ELSE a.builds]

(* Whatever was saved, interrupted or edited before, a wizard that did not  *)
(* take up earlier progress saves a profile from which the stacks of its    *)
(* own answers are deployed, and no others.  (The bootstrap server is left  *)
(* out: how Claude Desktop gets its configuration survives a change of      *)
(* sign-in that no longer offers the choice.)                               *)
SavedAsMeant ==
    wizard.pc = "write" /\ ~wizard.accepts /\ ~wizard.resumed =>
        DeployView(wizard.held) = Meant(wizard.intent, wizard.name)

(* No wizard, resumed or not, comes to the end of its questions without an  *)
(* answer the profile cannot be saved without.                              *)
NothingMissing ==
    wizard.pc = "review" => \A k \in Needed : wizard.config[k] # Unset

Saves == wizard.pc = "review" /\ wizard'.pc = "write"

(* To accept every default of an update changes nothing of the profile,     *)
(* but for: a distribution that is disabled, a daily limit of one's own, a  *)
(* build region that is not the nearest, and the fields edited by hand; a   *)
(* missing service token is generated.                                      *)
AcceptKeeps ==
    [][Saves /\ wizard.accepts =>
          LET was == store[wizard.name]
              loose == {"alias", "chat"}
                  \cup (IF was.distribution = "off" THEN {"distribution"} ELSE {})
                  \cup (IF was.daily = "custom" THEN {"daily"} ELSE {})
                  \cup (IF was.buildRegion = "far" THEN {"buildRegion", "prior"} ELSE {})
                  \cup (IF was.token THEN {} ELSE {"token"})
          IN \A k \in DOMAIN was \ loose : wizard'.held[k] = was[k]]_wizardVars

(* An update never forgets a region in which a CodeBuild stack may still    *)
(* be: it stays the profile's region or becomes one of its prior regions.   *)
RegionRemembered ==
    [][Saves /\ wizard.update =>
          LET was == store[wizard.name]
          IN (was.prior \cup {was.buildRegion}) \ {"main"}
                \subseteq wizard'.held.prior \cup {wizard'.held.buildRegion}]_wizardVars

(* The active profile has a file, unless it is the default of an older      *)
(* configuration whose profile could not be migrated.                       *)
ActiveExists ==
    active # NoName => active \in Files \/ (active = legacy.default /\ active \notin legacy.good)
=============================================================================
