----------------------------- MODULE Wizard_proofs -----------------------------
(***************************************************************************)
(* Theorems about Wizard, for any names, intents and older configurations, *)
(* and any number of wizards and interruptions.  They rest on one          *)
(* invariant: what the sections already asked have left in the wizard's    *)
(* data, in the saved progress and in the profiles.                        *)
(***************************************************************************)
EXTENDS Wizard, TLAPS

-----------------------------------------------------------------------------
(* Types.                                                                  *)

Of(x, S) == x = Unset \/ x \in S

Values ==
    [auth |-> {"oidc", "idc", "none"}, provider |-> {"okta", "google", "azure"},
     client |-> {"public", "secret", "certificate"}, port |-> BOOLEAN,
     federation |-> {"direct", "cognito"}, pool |-> Names, windows |-> BOOLEAN,
     monitoring |-> BOOLEAN, mode |-> {"sidecar", "central"}, vpc |-> {"none", "new", "own"},
     analytics |-> BOOLEAN, quota |-> BOOLEAN, limit |-> {"token", "cost"},
     daily |-> {"none", "computed", "custom"}, bypass |-> BOOLEAN, builds |-> BOOLEAN,
     buildRegion |-> {"main", "near", "far"}, prior |-> SUBSET {"near", "far"},
     websearch |-> BOOLEAN, desktop |-> BOOLEAN, token |-> BOOLEAN,
     delivery |-> {"static", "bootstrap"}, target |-> {"user", "managed"},
     distribution |-> {"off", "presigned", "page"}, saml |-> BOOLEAN,
     idp |-> {"none", "okta", "generic"}, model |-> {"us", "eu"}, chat |-> BOOLEAN]

ConfigTyped(c) == DOMAIN c = Keys /\ \A k \in Keys : Of(c[k], Values[k])

MemoryTyped(m) ==
    /\ m.last \in {"start", "oidc", "aws", "monitoring", "bedrock"}
    /\ ConfigTyped(m.data)

(* Where the wizard's data is in use, and what has been asked before.      *)
InQuestions == {"auth", "keepAuth", "aws", "keepAws", "monitoring", "keepMonitoring", "features",
                "bedrock", "keepBedrock", "review"}
PastAuth == InQuestions \ {"auth"}
PastAws == PastAuth \ {"keepAuth", "aws"}
PastMonitoring == PastAws \ {"keepAws", "monitoring"}
PastFeatures == {"bedrock", "keepBedrock", "review"}
PastBedrock == {"keepBedrock", "review"}
Places == {"off", "asked", "write", "activate", "activating"} \cup InQuestions

WizardTyped ==
    /\ DOMAIN wizard = {"pc", "name", "update", "resumed", "accepts", "intent", "config", "memory",
                        "held", "inits", "kills"}
    /\ wizard.pc \in Places /\ wizard.name \in Names \cup {NoName}
    /\ wizard.pc # "off" => wizard.name \in Names
    /\ wizard.update \in BOOLEAN /\ wizard.resumed \in BOOLEAN /\ wizard.accepts \in BOOLEAN
    /\ wizard.pc \in {"off", "asked"} => ~wizard.update /\ ~wizard.resumed
    /\ wizard.intent \in Intents
    /\ ConfigTyped(wizard.config) /\ MemoryTyped(wizard.memory)
    /\ wizard.inits \in 0 .. MaxInits /\ wizard.kills \in 0 .. MaxKills

FilesTyped ==
    /\ DOMAIN store = Names
    /\ \A p \in Names : store[p] \in {Absent, Broken} \/ store[p] \in Profile
    /\ active \in Names \cup {NoName}
    /\ legacy \in [good: SUBSET Names, default: Names, pending: BOOLEAN]
    /\ MemoryTyped(progress)

-----------------------------------------------------------------------------
(* What a section leaves fits together.                                    *)

AuthFits(c) ==
    /\ c.auth # Unset
    /\ c.auth = "oidc" => c.provider # Unset /\ (c.provider = "azure" => c.client \notin {Unset, "none"})
AwsFits(c) == c.pool # Unset /\ c.windows # Unset
QuotaFits(c) ==
    /\ c.auth # "none" /\ c.limit # Unset /\ c.daily # Unset /\ c.bypass # Unset
    /\ c.limit = "cost" <=> c.daily = "none"
    /\ c.bypass => c.mode = "sidecar"
MonitoringFits(c) ==
    /\ c.monitoring # Unset
    /\ c.monitoring => /\ c.mode # Unset /\ c.vpc # Unset /\ c.analytics # Unset /\ c.quota # Unset
                       /\ c.vpc = "none" <=> c.mode = "sidecar"
                       /\ c.analytics => c.mode = "central"
                       /\ c.quota => QuotaFits(c)
FeaturesFit(c) ==
    /\ c.builds # Unset /\ c.websearch # Unset /\ c.distribution # Unset
    /\ c.builds => IF c.windows THEN c.buildRegion = "main" ELSE c.buildRegion \in {"near", "far"}
    /\ c.websearch => c.auth # "idc"
    /\ c.distribution = "page" =>
          IF c.auth = "idc" THEN c.saml # Unset /\ c.saml ELSE c.idp \notin {Unset, "none"}
ModelFits(c) == c.model # Unset

(* The same of a profile, some fields of which are masked.                 *)
Fits(x) ==
    /\ AuthFits(x) /\ MonitoringFits(x) /\ FeaturesFit(x)
    /\ x.quota \/ x.analytics => x.monitoring

(* Progress holds what the section it names needs, and those before.       *)
Kept(m) ==
    /\ m.last \in {"aws", "monitoring", "bedrock"} => AuthFits(m.data) /\ AwsFits(m.data)
    /\ m.last \in {"monitoring", "bedrock"} => MonitoringFits(m.data)
    /\ m.last = "bedrock" => ModelFits(m.data)

Skipping == wizard.pc = "features" /\ wizard.resumed /\ wizard.memory.last = "bedrock"

SectionsAt(pc, c) ==
    /\ pc \in PastAuth => AuthFits(c)
    /\ pc \in PastAws => AwsFits(c)
    /\ pc \in PastMonitoring => MonitoringFits(c)
    /\ pc \in PastFeatures => FeaturesFit(c)
    /\ pc \in PastBedrock => ModelFits(c)
Sections ==
    /\ SectionsAt(wizard.pc, wizard.config)
    /\ Skipping => ModelFits(wizard.config)

Progress ==
    /\ Kept(progress) /\ Kept(wizard.memory)
    /\ wizard.pc = "keepMonitoring" => wizard.memory.last = "monitoring"

ProfilesFit == \A p \in Names : IsProfile(store[p]) => Fits(store[p])

-----------------------------------------------------------------------------
(* What the answers so far were meant to be.                               *)

MeantAuth(c, a) == c.auth = a.auth
MeantAws(c, a, p) == c.pool = p /\ c.windows = a.windows
MeantMonitoring(c, a) ==
    /\ c.monitoring = (a.monitoring # "off")
    /\ a.monitoring # "off" =>
          /\ c.mode = a.monitoring /\ c.analytics = (a.monitoring = "central" /\ a.analytics)
          /\ c.quota = (a.quota # "off" /\ a.auth # "none")
          /\ a.quota # "off" /\ a.auth # "none" => c.limit = a.quota
MeantFeatures(c, a) ==
    /\ c.builds = (a.builds # "no" /\ (a.windows \/ a.builds # "skip"))
    /\ a.builds # "no" /\ (a.windows \/ a.builds # "skip") =>
          c.buildRegion = IF a.windows THEN "main" ELSE a.builds
    /\ c.websearch = (a.auth # "idc" /\ a.websearch)
    /\ c.distribution = a.distribution
    /\ a.distribution = "page" => IF a.auth = "idc" THEN c.saml = TRUE ELSE c.idp = a.idp
MeantModel(c, a) == c.model = a.model

MeantAt(pc, c, a, p) ==
    /\ pc \in PastAuth => MeantAuth(c, a)
    /\ pc \in PastAws => MeantAws(c, a, p)
    /\ pc \in PastMonitoring => MeantMonitoring(c, a)
    /\ pc \in PastFeatures => MeantFeatures(c, a)
    /\ pc \in PastBedrock => MeantModel(c, a)
AnsweredAsMeant ==
    ~wizard.accepts /\ ~wizard.resumed =>
        MeantAt(wizard.pc, wizard.config, wizard.intent, wizard.name)

(* An update starts from the profile, which nothing changes meanwhile; the *)
(* regions of its builds are kept, and so is all else when every default   *)
(* is accepted.                                                            *)
Regions(x) == (x.prior \cup {x.buildRegion}) \ {"main"}

Loose(was) ==
    {"chat"} \cup (IF was.distribution = "off" THEN {"distribution"} ELSE {})
             \cup (IF was.daily = "custom" THEN {"daily"} ELSE {})
             \cup (IF was.buildRegion = "far" THEN {"buildRegion", "prior"} ELSE {})
             \cup (IF was.token THEN {} ELSE {"token"})

Follows(c, was) == \A k \in Keys \ Loose(was) : c[k] = Restored(was)[k]

KeptFrom(was) ==
    /\ Follows(wizard.config, was)
    /\ wizard.pc \notin PastFeatures => wizard.config.distribution = was.distribution

Updating ==
    /\ wizard.accepts /\ wizard.pc \in {"asked"} \cup InQuestions => IsProfile(store[wizard.name])
    /\ wizard.update /\ wizard.pc \in InQuestions =>
          /\ IsProfile(store[wizard.name])
          /\ wizard.config.prior # Unset /\ wizard.config.buildRegion # Unset
          /\ Regions(store[wizard.name]) \subseteq Regions(wizard.config)
    /\ wizard.accepts /\ wizard.pc \in InQuestions => KeptFrom(store[wizard.name])

Saving ==
    /\ wizard.pc = "write" => /\ wizard.held \in Profile /\ Fits(wizard.held)
                              /\ SavedAsMeant
    /\ wizard.pc \in {"activate", "activating"} => store[wizard.name] # Absent

WizardInv ==
    /\ WizardTyped /\ FilesTyped
    /\ Sections /\ Progress /\ ProfilesFit
    /\ AnsweredAsMeant /\ Updating /\ Saving /\ ActiveExists

-----------------------------------------------------------------------------
(* What each section does to the wizard's data.                            *)

LEMMA FieldsTyped ==
    ASSUME NEW c, ConfigTyped(c)
    PROVE  /\ DOMAIN c = Keys
           /\ Of(c.auth, {"oidc", "idc", "none"}) /\ Of(c.provider, {"okta", "google", "azure"})
           /\ Of(c.client, {"public", "secret", "certificate"}) /\ Of(c.port, BOOLEAN)
           /\ Of(c.federation, {"direct", "cognito"}) /\ Of(c.pool, Names) /\ Of(c.windows, BOOLEAN)
           /\ Of(c.monitoring, BOOLEAN) /\ Of(c.mode, {"sidecar", "central"})
           /\ Of(c.vpc, {"none", "new", "own"}) /\ Of(c.analytics, BOOLEAN)
           /\ Of(c.quota, BOOLEAN) /\ Of(c.limit, {"token", "cost"})
           /\ Of(c.daily, {"none", "computed", "custom"}) /\ Of(c.bypass, BOOLEAN)
           /\ Of(c.builds, BOOLEAN) /\ Of(c.buildRegion, {"main", "near", "far"})
           /\ Of(c.prior, SUBSET {"near", "far"}) /\ Of(c.websearch, BOOLEAN) /\ Of(c.desktop, BOOLEAN)
           /\ Of(c.token, BOOLEAN) /\ Of(c.delivery, {"static", "bootstrap"})
           /\ Of(c.target, {"user", "managed"}) /\ Of(c.distribution, {"off", "presigned", "page"})
           /\ Of(c.saml, BOOLEAN) /\ Of(c.idp, {"none", "okta", "generic"})
           /\ Of(c.model, {"us", "eu"}) /\ Of(c.chat, BOOLEAN)
BY DEF ConfigTyped, Values, Keys

LEMMA GetTyped ==
    ASSUME NEW c, NEW k, NEW S, Of(c[k], S), NEW default \in S
    PROVE  Get(c, k, default) \in S
BY DEF Get, Of

LEMMA DefaultsTyped ==
    ASSUME NEW c, ConfigTyped(c), NEW p
    PROVE  Defaults(c, p) \in Answer
<1> DEFINE auth == Get(c, "auth", "oidc")
           provider == Get(c, "provider", "okta")
           client == Get(c, "client", "public")
           port == Get(c, "port", FALSE)
           federation == Get(c, "federation", "direct")
           windows == Get(c, "windows", TRUE)
           monitoring == IF Get(c, "monitoring", TRUE) THEN Get(c, "mode", "sidecar") ELSE "off"
           vpc == IF Get(c, "vpc", "none") = "none" THEN "new" ELSE c.vpc
           analytics == Get(c, "analytics", TRUE)
           quota == IF Get(c, "quota", Get(c, "auth", "oidc") # "idc") THEN Get(c, "limit", "cost") ELSE "off"
           bypass == Get(c, "bypass", FALSE)
           builds == IF Get(c, "builds", FALSE) THEN "near" ELSE "no"
           websearch == Get(c, "websearch", FALSE)
           desktop == Get(c, "desktop", TRUE)
           delivery == Get(c, "delivery", "static")
           target == Get(c, "target", "user")
           distribution == IF Get(c, "distribution", "off") = "off" THEN "presigned" ELSE c.distribution
           idp == IF Get(c, "idp", "none") = "none" THEN "okta" ELSE c.idp
           model == Get(c, "model", "us")
<1>1. /\ auth \in {"oidc", "idc", "none"} /\ provider \in {"okta", "google", "azure"}
      /\ client \in {"public", "secret", "certificate"} /\ port \in BOOLEAN
      /\ federation \in {"direct", "cognito"} /\ windows \in BOOLEAN
      /\ analytics \in BOOLEAN /\ bypass \in BOOLEAN /\ websearch \in BOOLEAN /\ desktop \in BOOLEAN
      /\ delivery \in {"static", "bootstrap"} /\ target \in {"user", "managed"} /\ model \in {"us", "eu"}
  BY GetTyped, FieldsTyped
<1>2. monitoring \in {"off", "central", "sidecar"} /\ quota \in {"off", "token", "cost"}
  <2>1. Get(c, "mode", "sidecar") \in {"sidecar", "central"} /\ Get(c, "limit", "cost") \in {"token", "cost"}
    BY GetTyped, FieldsTyped
  <2>2. QED
    BY <2>1
<1>3. /\ vpc \in {"new", "own"} /\ distribution \in {"off", "presigned", "page"} /\ idp \in {"okta", "generic"}
  BY FieldsTyped DEF Of, Get
<1>4. builds \in {"no", "near", "far", "skip"}
  OBVIOUS
<1>5. Defaults(c, p) =
          [auth |-> auth, provider |-> provider, client |-> client, port |-> port, federation |-> federation,
           windows |-> windows, monitoring |-> monitoring, vpc |-> vpc, analytics |-> analytics,
           quota |-> quota, customDaily |-> FALSE, bypass |-> bypass, builds |-> builds,
           websearch |-> websearch, desktop |-> desktop, delivery |-> delivery, target |-> target,
           distribution |-> distribution, idp |-> idp, model |-> model]
  BY DEF Defaults
<1> HIDE DEF auth, provider, client, port, federation, windows, monitoring, vpc, analytics, quota, bypass,
             builds, websearch, desktop, delivery, target, distribution, idp, model
<1>6. QED
  BY <1>1, <1>2, <1>3, <1>4, <1>5 DEF Answer

LEMMA GivenTyped ==
    ASSUME WizardTyped
    PROVE  Given \in Answer
<1>1. Defaults(wizard.config, wizard.name) \in Answer
  BY DefaultsTyped DEF WizardTyped
<1>2. QED
  BY <1>1, AnswersAssumption DEF Given, WizardTyped

LEMMA AuthAsked ==
    ASSUME NEW c, ConfigTyped(c), NEW a \in Answer
    PROVE  LET d == AuthAnswers(c, a)
           IN /\ ConfigTyped(d)
              /\ \A k \in Keys \ {"auth", "provider", "client", "port", "federation"} : d[k] = c[k]
              /\ d.auth = a.auth
              /\ a.auth # "oidc" =>
                    \A k \in {"provider", "client", "port", "federation"} : d[k] = c[k]
              /\ a.auth = "oidc" =>
                    /\ d.provider = a.provider /\ d.federation = a.federation
                    /\ d.port = (a.port \/ Get(c, "port", FALSE))
                    /\ d.client = IF a.provider = "azure" THEN a.client ELSE c.client
<1> DEFINE d == AuthAnswers(c, a)
           port == a.port \/ Get(c, "port", FALSE)
           client == IF a.provider = "azure" THEN a.client ELSE c.client
<1>1. DOMAIN c = Keys /\ port \in BOOLEAN /\ Of(client, {"public", "secret", "certificate"})
  BY FieldsTyped DEF Answer, Of
<1>2. CASE a.auth # "oidc"
  <2>1. d = [c EXCEPT !.auth = a.auth]
    BY <1>2 DEF AuthAnswers, MethodAnswers
  <2> HIDE DEF d
  <2>2. /\ DOMAIN d = Keys /\ d.auth = a.auth
        /\ \A k \in Keys \ {"auth"} : d[k] = c[k]
    BY <1>1, <2>1 DEF Keys
  <2>3. ConfigTyped(d)
    <3>1. \A k \in {"auth"} : Of(d[k], Values[k])
      BY <2>2 DEF Values, Answer, Of
    <3>2. QED
      BY <2>2, <3>1 DEF ConfigTyped
  <2>4. QED
    BY <1>2, <2>2, <2>3 DEF d, Keys
<1>3. CASE a.auth = "oidc"
  <2> DEFINE d1 == [c EXCEPT !.auth = a.auth]
             d2 == [d1 EXCEPT !.provider = a.provider]
             d3 == [d2 EXCEPT !.client = client]
             d4 == [d3 EXCEPT !.port = port, !.federation = a.federation]
  <2>1. DOMAIN d1 = Keys /\ d1.auth = a.auth /\ \A k \in Keys \ {"auth"} : d1[k] = c[k]
    BY <1>1 DEF Keys
  <2> HIDE DEF d1
  <2>2. DOMAIN d2 = Keys /\ d2.provider = a.provider /\ \A k \in Keys \ {"provider"} : d2[k] = d1[k]
    BY <2>1 DEF Keys
  <2> HIDE DEF d2
  <2>3. DOMAIN d3 = Keys /\ d3.client = client /\ \A k \in Keys \ {"client"} : d3[k] = d2[k]
    BY <2>2 DEF Keys
  <2> HIDE DEF d3
  <2>4. /\ DOMAIN d4 = Keys /\ d4.port = port /\ d4.federation = a.federation
        /\ \A k \in Keys \ {"port", "federation"} : d4[k] = d3[k]
    BY <2>3 DEF Keys
  <2>5. d = d4
    <3>1. d = FederationAnswers(ClientAnswers(ProviderAnswers(MethodAnswers(c, a), a), a), a)
      BY <1>3 DEF AuthAnswers
    <3>2. MethodAnswers(c, a) = d1
      BY DEF MethodAnswers, d1
    <3>3. ProviderAnswers(d1, a) = d2
      BY DEF ProviderAnswers, d2
    <3>4. ClientAnswers(d2, a) = d3
      BY <2>1, <2>2 DEF ClientAnswers, d3, Keys
    <3>5. Get(d3, "port", FALSE) = Get(c, "port", FALSE)
      BY <2>1, <2>2, <2>3 DEF Get, Keys
    <3>6. FederationAnswers(d3, a) = d4
      BY <3>5 DEF FederationAnswers
    <3>7. QED
      BY <3>1, <3>2, <3>3, <3>4, <3>6
  <2> HIDE DEF d, d4, port, client
  <2>6. /\ DOMAIN d = Keys /\ d.auth = a.auth /\ d.provider = a.provider /\ d.client = client
        /\ d.port = port /\ d.federation = a.federation
        /\ \A k \in Keys \ {"auth", "provider", "client", "port", "federation"} : d[k] = c[k]
    BY <2>1, <2>2, <2>3, <2>4, <2>5 DEF Keys
  <2>7. ConfigTyped(d)
    <3>1. \A k \in {"auth", "provider", "client", "port", "federation"} : Of(d[k], Values[k])
      BY <1>1, <2>6 DEF Values, Answer, Of
    <3>2. QED
      BY <1>1, <2>6, <3>1 DEF ConfigTyped
  <2>8. QED
    BY <1>3, <2>6, <2>7 DEF d, port, client
<1>4. QED
  BY <1>2, <1>3

LEMMA AwsAsked ==
    ASSUME NEW c, ConfigTyped(c), NEW a \in Answer, NEW p \in Names, wizard.accepts \in BOOLEAN
    PROVE  LET d == AwsAnswers(c, a, p)
           IN /\ ConfigTyped(d)
              /\ \A k \in Keys \ {"pool", "windows"} : d[k] = c[k]
              /\ d.pool = IF wizard.accepts THEN Get(c, "pool", p) ELSE p
              /\ d.windows = a.windows
<1> DEFINE d == AwsAnswers(c, a, p)
           pool == IF wizard.accepts THEN Get(c, "pool", p) ELSE p
<1>1. DOMAIN c = Keys /\ pool \in Names
  BY FieldsTyped DEF Of, Get
<1>2. d = [c EXCEPT !.pool = pool, !.windows = a.windows]
  BY DEF AwsAnswers
<1> HIDE DEF d, pool
<1>3. /\ DOMAIN d = Keys /\ \A k \in Keys \ {"pool", "windows"} : d[k] = c[k]
      /\ d.pool = pool /\ d.windows = a.windows
  BY <1>1, <1>2 DEF Keys
<1>4. ConfigTyped(d)
  <2>1. \A k \in {"pool", "windows"} : Of(d[k], Values[k])
    BY <1>1, <1>3 DEF Values, Answer, Of
  <2>2. QED
    BY <1>1, <1>3, <2>1 DEF ConfigTyped
<1>5. QED
  BY <1>3, <1>4 DEF d, pool

LEMMA MonitoringAsked ==
    ASSUME NEW c, ConfigTyped(c), NEW a \in Answer, NEW vpc \in ConfigureVpc(c, a)
    PROVE  LET d == MonitoringAnswers(c, a, vpc)
           IN /\ ConfigTyped(d)
              /\ \A k \in Keys \ {"monitoring", "mode", "vpc", "analytics"} : d[k] = c[k]
              /\ d.monitoring = (a.monitoring # "off")
              /\ a.monitoring = "off" => \A k \in {"mode", "vpc", "analytics"} : d[k] = c[k]
              /\ a.monitoring # "off" =>
                    /\ d.mode = a.monitoring /\ d.vpc = vpc
                    /\ d.analytics = (a.monitoring = "central" /\ a.analytics)
<1> DEFINE d == MonitoringAnswers(c, a, vpc)
<1>1. DOMAIN c = Keys /\ vpc \in {"none", "new", "own"}
  BY FieldsTyped DEF ConfigureVpc, Answer, Of, Get
<1>2. CASE a.monitoring = "off"
  <2>1. d = [c EXCEPT !.monitoring = FALSE]
    BY <1>2 DEF MonitoringAnswers
  <2> HIDE DEF d
  <2>2. DOMAIN d = Keys /\ d.monitoring = FALSE /\ d.monitoring \in BOOLEAN /\ \A k \in Keys \ {"monitoring"} : d[k] = c[k]
    BY <1>1, <2>1 DEF Keys
  <2>3. ConfigTyped(d)
    <3>1. \A k \in {"monitoring"} : Of(d[k], Values[k])
      BY <2>2 DEF Values, Of
    <3>2. QED
      BY <2>2, <3>1 DEF ConfigTyped
  <2>4. QED
    BY <1>2, <2>2, <2>3 DEF d, Keys
<1>3. CASE a.monitoring # "off"
  <2> DEFINE analytics == a.monitoring = "central" /\ a.analytics
  <2>1. d = [c EXCEPT !.monitoring = TRUE, !.mode = a.monitoring, !.vpc = vpc, !.analytics = analytics]
    BY <1>3 DEF MonitoringAnswers
  <2>2. a.monitoring \in {"sidecar", "central"} /\ analytics \in BOOLEAN
    BY <1>3 DEF Answer
  <2> HIDE DEF d, analytics
  <2>3. /\ DOMAIN d = Keys /\ d.monitoring = TRUE /\ d.monitoring \in BOOLEAN /\ d.mode = a.monitoring /\ d.vpc = vpc
        /\ d.analytics = analytics
        /\ \A k \in Keys \ {"monitoring", "mode", "vpc", "analytics"} : d[k] = c[k]
    BY <1>1, <2>1 DEF Keys
  <2>4. ConfigTyped(d)
    <3>1. \A k \in {"monitoring", "mode", "vpc", "analytics"} : Of(d[k], Values[k])
      BY <1>1, <2>2, <2>3 DEF Values, Of
    <3>2. QED
      BY <1>1, <2>2, <2>3, <3>1 DEF ConfigTyped
  <2>5. QED
    BY <1>3, <2>3, <2>4 DEF d, analytics
<1>4. QED
  BY <1>2, <1>3

LEMMA QuotaAsked ==
    ASSUME NEW c, ConfigTyped(c), NEW a \in Answer
    PROVE  LET d == QuotaAnswers(c, a)
           IN /\ ConfigTyped(d)
              /\ \A k \in Keys \ {"quota", "limit", "daily", "bypass"} : d[k] = c[k]
              /\ a.monitoring # "off" => d.quota = (a.quota # "off" /\ c.auth # "none")
              /\ a.monitoring = "off" => d.quota = c.quota
              /\ ~QuotaWanted(c, a) => \A k \in {"limit", "daily", "bypass"} : d[k] = c[k]
              /\ QuotaWanted(c, a) =>
                    /\ d.limit = a.quota
                    /\ d.daily = IF a.quota = "cost" THEN "none"
                                 ELSE IF a.customDaily THEN "custom" ELSE "computed"
                    /\ d.bypass = (a.monitoring = "sidecar" /\ a.bypass)
<1> DEFINE d == QuotaAnswers(c, a)
           daily == IF a.quota = "cost" THEN "none" ELSE IF a.customDaily THEN "custom" ELSE "computed"
           bypass == a.monitoring = "sidecar" /\ a.bypass
<1>1. DOMAIN c = Keys /\ daily \in {"none", "computed", "custom"} /\ bypass \in BOOLEAN
  BY FieldsTyped DEF Answer
<1>2. CASE a.monitoring = "off"
  <2>1. d = c /\ ~QuotaWanted(c, a)
    BY <1>2 DEF QuotaAnswers, QuotaWanted
  <2>2. QED
    BY <1>1, <1>2, <2>1
<1>3. CASE a.monitoring # "off" /\ ~QuotaWanted(c, a)
  <2>1. d = [c EXCEPT !.quota = FALSE]
    BY <1>3 DEF QuotaAnswers
  <2> HIDE DEF d
  <2>2. DOMAIN d = Keys /\ d.quota = FALSE /\ d.quota \in BOOLEAN /\ \A k \in Keys \ {"quota"} : d[k] = c[k]
    BY <1>1, <2>1 DEF Keys
  <2>3. ConfigTyped(d)
    <3>1. \A k \in {"quota"} : Of(d[k], Values[k])
      BY <2>2 DEF Values, Of
    <3>2. QED
      BY <2>2, <3>1 DEF ConfigTyped
  <2>4. ~(a.quota # "off" /\ c.auth # "none")
    BY <1>3 DEF QuotaWanted
  <2>5. QED
    BY <1>3, <2>2, <2>3, <2>4 DEF d, Keys
<1>4. CASE QuotaWanted(c, a)
  <2> DEFINE d1 == [c EXCEPT !.quota = TRUE]
             d2 == [d1 EXCEPT !.limit = a.quota, !.daily = daily]
             d3 == [d2 EXCEPT !.bypass = bypass]
  <2>1. a.monitoring # "off" /\ a.quota \in {"token", "cost"} /\ c.auth # "none" /\ a.quota # "off"
    BY <1>4 DEF QuotaWanted, Answer
  <2>2. DOMAIN d1 = Keys /\ d1.quota = TRUE /\ d1.quota \in BOOLEAN /\ \A k \in Keys \ {"quota"} : d1[k] = c[k]
    BY <1>1 DEF Keys
  <2>3. d = d3
    BY <1>4, <2>1 DEF QuotaAnswers, LimitAnswers, BypassAnswers
  <2> HIDE DEF d1, d, daily, bypass
  <2>4. /\ DOMAIN d2 = Keys /\ d2.limit = a.quota /\ d2.daily = daily
        /\ \A k \in Keys \ {"limit", "daily"} : d2[k] = d1[k]
    BY <2>2 DEF Keys
  <2> HIDE DEF d2
  <2>5. DOMAIN d3 = Keys /\ d3.bypass = bypass /\ \A k \in Keys \ {"bypass"} : d3[k] = d2[k]
    BY <2>4 DEF Keys
  <2> HIDE DEF d3
  <2>6. /\ DOMAIN d = Keys /\ d.quota = TRUE /\ d.quota \in BOOLEAN /\ d.limit = a.quota /\ d.daily = daily /\ d.bypass = bypass
        /\ \A k \in Keys \ {"quota", "limit", "daily", "bypass"} : d[k] = c[k]
    BY <2>2, <2>3, <2>4, <2>5 DEF Keys
  <2>7. ConfigTyped(d)
    <3>1. \A k \in {"quota", "limit", "daily", "bypass"} : Of(d[k], Values[k])
      BY <1>1, <2>1, <2>6 DEF Values, Of
    <3>2. QED
      BY <1>1, <2>1, <2>6, <3>1 DEF ConfigTyped
  <2>8. QED
    BY <1>4, <2>1, <2>6, <2>7 DEF d, daily, bypass
<1>5. QED
  BY <1>2, <1>3, <1>4

LEMMA CodeBuildAsked ==
    ASSUME NEW c, ConfigTyped(c), NEW a \in Answer
    PROVE  LET d == CodeBuildAnswers(c, a)
               was == Get(c, "buildRegion", "main")
               now == IF a.builds = "no" THEN was
                      ELSE IF c.windows \/ a.builds = "skip" THEN "main" ELSE a.builds
           IN /\ ConfigTyped(d)
              /\ \A k \in Keys \ {"builds", "buildRegion", "prior"} : d[k] = c[k]
              /\ d.builds = (a.builds # "no" /\ (c.windows \/ a.builds # "skip"))
              /\ d.buildRegion = now
              /\ d.prior = IF was \in {"main", now} THEN Get(c, "prior", {})
                           ELSE Get(c, "prior", {}) \cup {was}
              /\ d.buildRegion # Unset /\ d.prior # Unset
<1> DEFINE d == CodeBuildAnswers(c, a)
           was == Get(c, "buildRegion", "main")
           now == IF a.builds = "no" THEN was
                  ELSE IF c.windows \/ a.builds = "skip" THEN "main" ELSE a.builds
           prior == IF was \in {"main", now} THEN Get(c, "prior", {}) ELSE Get(c, "prior", {}) \cup {was}
<1>1. was \in {"main", "near", "far"} /\ now \in {"main", "near", "far"}
  BY FieldsTyped DEF Answer, Of, Get
<1>2. prior \in SUBSET {"near", "far"}
  BY <1>1, FieldsTyped DEF Of, Get
<1>3. d = [c EXCEPT !.builds = a.builds # "no" /\ (c.windows \/ a.builds # "skip"),
                    !.buildRegion = now, !.prior = prior]
  BY DEF CodeBuildAnswers
<1>4. now # Unset /\ prior # Unset
  BY <1>1, <1>2, UnsetAssumption
<1> HIDE DEF d, was, now, prior
<1>5. /\ DOMAIN d = Keys /\ \A k \in Keys \ {"builds", "buildRegion", "prior"} : d[k] = c[k]
      /\ d.builds = (a.builds # "no" /\ (c.windows \/ a.builds # "skip")) /\ d.builds \in BOOLEAN
      /\ d.buildRegion = now /\ d.prior = prior
  BY <1>3, FieldsTyped DEF Keys
<1>6. ConfigTyped(d)
  <2>1. \A k \in {"builds", "buildRegion", "prior"} : Of(d[k], Values[k])
    <3>1. Of(d["builds"], Values["builds"])
      BY <1>5 DEF Of, Values
    <3>2. Of(d["buildRegion"], Values["buildRegion"])
      BY <1>1, <1>5 DEF Of, Values
    <3>3. Of(d["prior"], Values["prior"])
      BY <1>2, <1>5 DEF Of, Values
    <3>4. QED
      BY <3>1, <3>2, <3>3
  <2>2. QED
    BY <1>1, <1>2, <1>5, <2>1 DEF ConfigTyped
<1>7. QED
  BY <1>4, <1>5, <1>6 DEF d, was, now, prior

LEMMA DesktopAsked ==
    ASSUME NEW c, ConfigTyped(c), NEW a \in Answer
    PROVE  LET d == DesktopAnswers(c, a)
           IN /\ ConfigTyped(d)
              /\ \A k \in Keys \ {"websearch", "desktop", "token", "delivery"} : d[k] = c[k]
              /\ d.websearch = (c.auth # "idc" /\ a.websearch) /\ d.desktop = a.desktop
              /\ d.token = IF a.desktop /\ Get(c, "mode", "central") = "central"
                           THEN TRUE ELSE Get(c, "token", FALSE)
              /\ d.delivery = IF a.desktop /\ c.auth = "oidc" THEN a.delivery ELSE c.delivery
<1> DEFINE d == DesktopAnswers(c, a)
           websearch == c.auth # "idc" /\ a.websearch
           token == IF a.desktop /\ Get(c, "mode", "central") = "central" THEN TRUE ELSE Get(c, "token", FALSE)
           delivery == IF a.desktop /\ c.auth = "oidc" THEN a.delivery ELSE c.delivery
<1>1. DOMAIN c = Keys /\ websearch \in BOOLEAN /\ Of(delivery, {"static", "bootstrap"})
  BY FieldsTyped DEF Answer, Of
<1>2. token \in BOOLEAN
  BY FieldsTyped DEF Of, Get
<1>3. d = [c EXCEPT !.websearch = websearch, !.desktop = a.desktop, !.token = token, !.delivery = delivery]
  <2>1. d = [c EXCEPT !.websearch = websearch, !.desktop = a.desktop, !.token = token,
                      !.delivery = IF a.desktop /\ c.auth = "oidc" THEN a.delivery ELSE @]
    BY DEF DesktopAnswers
  <2> HIDE DEF d, websearch, token
  <2>2. QED
    BY <1>1, <2>1 DEF Keys
<1> HIDE DEF d, websearch, token, delivery
<1>4. /\ DOMAIN d = Keys /\ d.websearch = websearch /\ d.desktop = a.desktop /\ d.token = token
      /\ d.delivery = delivery
      /\ \A k \in Keys \ {"websearch", "desktop", "token", "delivery"} : d[k] = c[k]
  BY <1>1, <1>3 DEF Keys
<1>5. ConfigTyped(d)
  <2>1. \A k \in {"websearch", "desktop", "token", "delivery"} : Of(d[k], Values[k])
    BY <1>1, <1>2, <1>4 DEF Values, Answer, Of
  <2>2. QED
    BY <1>1, <1>2, <1>4, <2>1 DEF ConfigTyped
<1>6. QED
  BY <1>4, <1>5 DEF d, websearch, token, delivery

LEMMA DistributionAsked ==
    ASSUME NEW c, ConfigTyped(c), NEW a \in Answer
    PROVE  LET d == DistributionAnswers(c, a)
           IN /\ ConfigTyped(d)
              /\ \A k \in Keys \ {"target", "distribution", "saml", "idp"} : d[k] = c[k]
              /\ d.target = a.target /\ d.distribution = a.distribution
              /\ d.saml = IF a.distribution = "page" /\ c.auth = "idc" THEN TRUE ELSE c.saml
              /\ d.idp = IF a.distribution = "page" /\ c.auth # "idc" THEN a.idp ELSE c.idp
<1> DEFINE d == DistributionAnswers(c, a)
           chosen == [c EXCEPT !.target = a.target, !.distribution = a.distribution]
<1>1. DOMAIN c = Keys /\ Of(c.saml, BOOLEAN)
  BY FieldsTyped
<1>2. /\ DOMAIN chosen = Keys /\ chosen.target = a.target /\ chosen.distribution = a.distribution
      /\ \A k \in Keys \ {"target", "distribution"} : chosen[k] = c[k]
  BY <1>1 DEF Keys
<1>3. d = IF a.distribution # "page" THEN chosen
          ELSE IF c.auth = "idc" THEN [chosen EXCEPT !.saml = TRUE] ELSE [chosen EXCEPT !.idp = a.idp]
  BY DEF DistributionAnswers, SamlAnswers, PageIdpAnswers
<1> HIDE DEF d, chosen
<1>4. /\ DOMAIN d = Keys /\ d.target = a.target /\ d.distribution = a.distribution
      /\ d.saml = IF a.distribution = "page" /\ c.auth = "idc" THEN TRUE ELSE c.saml
      /\ Of(d.saml, BOOLEAN)
      /\ d.idp = IF a.distribution = "page" /\ c.auth # "idc" THEN a.idp ELSE c.idp
      /\ \A k \in Keys \ {"target", "distribution", "saml", "idp"} : d[k] = c[k]
  <2>1. CASE a.distribution # "page"
    <3>1. d = chosen
      BY <1>3, <2>1
    <3>2. d.saml = c.saml /\ d.idp = c.idp
      BY <1>2, <3>1 DEF Keys
    <3>3. Of(d.saml, BOOLEAN)
      BY <1>1, <3>2 DEF Of
    <3>4. QED
      BY <1>2, <2>1, <3>1, <3>2, <3>3
  <2>2. CASE a.distribution = "page" /\ c.auth = "idc"
    <3>1. d = [chosen EXCEPT !.saml = TRUE]
      BY <1>3, <2>2
    <3>2. /\ DOMAIN d = Keys /\ d.saml = TRUE /\ d.saml \in BOOLEAN
          /\ \A k \in Keys \ {"saml"} : d[k] = chosen[k]
      BY <1>2, <3>1 DEF Keys
    <3>3. Of(d.saml, BOOLEAN)
      BY <3>2 DEF Of
    <3>4. d.target = a.target /\ d.distribution = a.distribution /\ d.idp = c.idp
      BY <1>2, <3>2 DEF Keys
    <3>5. \A k \in Keys \ {"target", "distribution", "saml", "idp"} : d[k] = c[k]
      BY <1>2, <3>2
    <3>6. QED
      BY <2>2, <3>2, <3>3, <3>4, <3>5
  <2>3. CASE a.distribution = "page" /\ c.auth # "idc"
    <3>1. d = [chosen EXCEPT !.idp = a.idp]
      BY <1>3, <2>3
    <3>2. DOMAIN d = Keys /\ d.idp = a.idp /\ \A k \in Keys \ {"idp"} : d[k] = chosen[k]
      BY <1>2, <3>1 DEF Keys
    <3>3. d.target = a.target /\ d.distribution = a.distribution /\ d.saml = c.saml
      BY <1>2, <3>2 DEF Keys
    <3>4. Of(d.saml, BOOLEAN)
      BY <1>1, <3>3 DEF Of
    <3>5. \A k \in Keys \ {"target", "distribution", "saml", "idp"} : d[k] = c[k]
      BY <1>2, <3>2
    <3>6. QED
      BY <2>3, <3>2, <3>3, <3>4, <3>5
  <2>4. QED
    BY <2>1, <2>2, <2>3
<1>5. ConfigTyped(d)
  <2>1. \A k \in {"target", "distribution", "saml", "idp"} : Of(d[k], Values[k])
    <3>1. Of(d["target"], Values["target"]) /\ Of(d["distribution"], Values["distribution"])
      BY <1>4 DEF Answer, Of, Values
    <3>2. Of(d["idp"], Values["idp"])
      BY <1>4, FieldsTyped DEF Answer, Of, Values
    <3>3. Of(d["saml"], Values["saml"])
      BY <1>4 DEF Of, Values
    <3>4. QED
      BY <3>1, <3>2, <3>3
  <2>2. QED
    BY <1>4, <2>1 DEF ConfigTyped
<1>6. QED
  BY <1>4, <1>5 DEF d

LEMMA ModelAsked ==
    ASSUME NEW c, ConfigTyped(c), NEW a \in Answer
    PROVE  LET d == ModelAnswers(c, a)
           IN /\ ConfigTyped(d) /\ d.model = a.model
              /\ \A k \in Keys \ {"model"} : d[k] = c[k]
<1> DEFINE d == ModelAnswers(c, a)
<1>1. DOMAIN d = Keys /\ d.model = a.model /\ \A k \in Keys \ {"model"} : d[k] = c[k]
  BY FieldsTyped DEF ModelAnswers, Keys
<1>2. Of(d.model, Values.model)
  BY <1>1 DEF Values, Answer, Of
<1> HIDE DEF d
<1>3. ConfigTyped(d)
  BY <1>1, <1>2 DEF ConfigTyped
<1>4. QED
  BY <1>1, <1>3 DEF d

-----------------------------------------------------------------------------
(* What a section leaves fits what was answered, and stays as it is when   *)
(* later sections are asked or the answers are merged into the progress.   *)

(* Nothing that can be answered is "unset".                                *)
LEMMA AnswersSet ==
    ASSUME NEW a \in Answer
    PROVE  /\ a.auth # Unset /\ a.provider # Unset /\ a.client # Unset /\ a.windows # Unset
           /\ a.monitoring # Unset /\ a.vpc # Unset /\ a.quota # Unset
           /\ a.distribution # Unset /\ a.idp # Unset /\ a.model # Unset
BY UnsetAssumption DEF Answer

LEMMA NoBooleanUnset ==
    \A b \in BOOLEAN : b # Unset
BY UnsetAssumption

LEMMA FitsKept ==
    ASSUME NEW c, NEW d
    PROVE  /\ AuthFits(c) /\ (\A k \in {"auth", "provider", "client"} : d[k] = c[k]) => AuthFits(d)
           /\ AwsFits(c) /\ (\A k \in {"pool", "windows"} : d[k] = c[k]) => AwsFits(d)
           /\ /\ MonitoringFits(c)
              /\ \A k \in {"auth", "monitoring", "mode", "vpc", "analytics", "quota", "limit", "daily",
                           "bypass"} : d[k] = c[k]
              => MonitoringFits(d)
           /\ /\ FeaturesFit(c)
              /\ \A k \in {"auth", "windows", "builds", "buildRegion", "websearch", "distribution", "saml",
                           "idp"} : d[k] = c[k]
              => FeaturesFit(d)
           /\ ModelFits(c) /\ d.model = c.model => ModelFits(d)
<1>1. AuthFits(c) /\ (\A k \in {"auth", "provider", "client"} : d[k] = c[k]) => AuthFits(d)
  BY DEF AuthFits
<1>2. AwsFits(c) /\ (\A k \in {"pool", "windows"} : d[k] = c[k]) => AwsFits(d)
  BY DEF AwsFits
<1>3. ASSUME MonitoringFits(c),
             \A k \in {"auth", "monitoring", "mode", "vpc", "analytics", "quota", "limit", "daily",
                       "bypass"} : d[k] = c[k]
      PROVE  MonitoringFits(d)
  <2>1. d.auth = c.auth /\ d.monitoring = c.monitoring /\ d.mode = c.mode /\ d.vpc = c.vpc
    BY <1>3
  <2>2. d.analytics = c.analytics /\ d.quota = c.quota /\ d.limit = c.limit /\ d.daily = c.daily
        /\ d.bypass = c.bypass
    BY <1>3
  <2>3. QED
    BY <1>3, <2>1, <2>2 DEF MonitoringFits, QuotaFits
<1>4. ASSUME FeaturesFit(c),
             \A k \in {"auth", "windows", "builds", "buildRegion", "websearch", "distribution", "saml",
                       "idp"} : d[k] = c[k]
      PROVE  FeaturesFit(d)
  <2>1. d.auth = c.auth /\ d.windows = c.windows /\ d.builds = c.builds /\ d.buildRegion = c.buildRegion
    BY <1>4
  <2>2. d.websearch = c.websearch /\ d.distribution = c.distribution /\ d.saml = c.saml /\ d.idp = c.idp
    BY <1>4
  <2>3. QED
    BY <1>4, <2>1, <2>2 DEF FeaturesFit
<1>5. QED
  BY <1>1, <1>2, <1>3, <1>4 DEF ModelFits

LEMMA MergedFits ==
    ASSUME NEW old, ConfigTyped(old), NEW c, ConfigTyped(c)
    PROVE  LET m == Merged(old, c)
           IN /\ ConfigTyped(m)
              /\ AuthFits(c) => AuthFits(m)
              /\ AwsFits(c) => AwsFits(m)
              /\ AuthFits(c) /\ MonitoringFits(c) => MonitoringFits(m)
              /\ ModelFits(c) => ModelFits(m)
<1> DEFINE m == Merged(old, c)
<1>1. /\ DOMAIN m = Keys
      /\ \A k \in Keys : m[k] = IF \A j \in Together(k) : c[j] = Unset THEN old[k] ELSE c[k]
  BY DEF Merged
<1>2. ConfigTyped(m)
  <2>1. \A k \in Keys : m[k] = c[k] \/ m[k] = old[k]
    BY <1>1
  <2>2. QED
    BY <1>1, <2>1 DEF ConfigTyped
<1>3. \A k \in Keys : c[k] # Unset => m[k] = c[k]
  <2>1. \A k \in Keys : k \in Together(k)
    BY DEF Together
  <2>2. QED
    BY <1>1, <2>1
<1> HIDE DEF m
<1>4. AuthFits(c) => AuthFits(m)
  BY <1>3 DEF AuthFits, Keys
<1>5. AwsFits(c) => AwsFits(m)
  BY <1>3 DEF AwsFits, Keys
<1>6. ASSUME AuthFits(c), MonitoringFits(c)
      PROVE  MonitoringFits(m)
  <2>1. m.monitoring = c.monitoring /\ m.auth = c.auth
    BY <1>3, <1>6 DEF AuthFits, MonitoringFits, Keys
  <2>2. CASE c.monitoring
    <3>1. m.mode = c.mode /\ m.vpc = c.vpc /\ m.analytics = c.analytics /\ m.quota = c.quota
      BY <1>3, <1>6, <2>2 DEF MonitoringFits, Keys
    <3>2. CASE c.quota
      <4>1. m.limit = c.limit /\ m.daily = c.daily /\ m.bypass = c.bypass
        BY <1>3, <1>6, <2>2, <3>2 DEF MonitoringFits, QuotaFits, Keys
      <4>2. QED
        BY <1>6, <2>1, <2>2, <3>1, <3>2, <4>1 DEF MonitoringFits, QuotaFits
    <3>3. QED
      BY <1>6, <2>1, <2>2, <3>1, <3>2 DEF MonitoringFits
  <2>3. QED
    BY <1>6, <2>1, <2>2 DEF MonitoringFits
<1>7. ModelFits(c) => ModelFits(m)
  BY <1>3 DEF ModelFits, Keys
<1>8. QED
  BY <1>2, <1>4, <1>5, <1>6, <1>7 DEF m

LEMMA AuthSection ==
    ASSUME NEW c, ConfigTyped(c), NEW a \in Answer
    PROVE  AuthFits(AuthAnswers(c, a))
<1> DEFINE d == AuthAnswers(c, a)
<1>1. d.auth = a.auth
  BY AuthAsked
<1>2. a.auth = "oidc" => /\ d.provider = a.provider
                         /\ d.client = IF a.provider = "azure" THEN a.client ELSE c.client
  BY AuthAsked
<1> HIDE DEF d
<1>3. AuthFits(d)
  BY <1>1, <1>2, AnswersSet DEF AuthFits, Answer
<1>4. QED
  BY <1>3 DEF d

LEMMA AwsSection ==
    ASSUME NEW c, ConfigTyped(c), NEW a \in Answer, NEW p \in Names, wizard.accepts \in BOOLEAN
    PROVE  LET d == AwsAnswers(c, a, p)
           IN AwsFits(d) /\ (AuthFits(c) => AuthFits(d))
<1> DEFINE d == AwsAnswers(c, a, p)
<1>1. /\ \A k \in Keys \ {"pool", "windows"} : d[k] = c[k]
      /\ d.pool = IF wizard.accepts THEN Get(c, "pool", p) ELSE p
      /\ d.windows = a.windows
  BY AwsAsked
<1> HIDE DEF d
<1>2. d.pool # Unset
  BY <1>1, UnsetAssumption DEF Get
<1>3. AuthFits(c) => AuthFits(d)
  BY <1>1, FitsKept DEF Keys
<1>4. QED
  BY <1>1, <1>2, <1>3, AnswersSet DEF AwsFits, d

LEMMA MonitoringSection ==
    ASSUME NEW c, ConfigTyped(c), NEW a \in Answer, NEW vpc \in ConfigureVpc(c, a)
    PROVE  LET d == QuotaAnswers(MonitoringAnswers(c, a, vpc), a)
           IN /\ ConfigTyped(d) /\ MonitoringFits(d)
              /\ \A k \in Keys \ {"monitoring", "mode", "vpc", "analytics", "quota", "limit", "daily",
                                  "bypass"} : d[k] = c[k]
              /\ d.monitoring = (a.monitoring # "off")
              /\ a.monitoring = "off" =>
                    \A k \in {"mode", "vpc", "analytics", "quota", "limit", "daily", "bypass"} : d[k] = c[k]
              /\ a.monitoring # "off" =>
                    /\ d.mode = a.monitoring /\ d.vpc = vpc
                    /\ d.analytics = (a.monitoring = "central" /\ a.analytics)
                    /\ d.quota = (a.quota # "off" /\ c.auth # "none")
              /\ ~QuotaWanted(c, a) => \A k \in {"limit", "daily", "bypass"} : d[k] = c[k]
              /\ QuotaWanted(c, a) =>
                    /\ d.limit = a.quota
                    /\ d.daily = IF a.quota = "cost" THEN "none"
                                 ELSE IF a.customDaily THEN "custom" ELSE "computed"
                    /\ d.bypass = (a.monitoring = "sidecar" /\ a.bypass)
<1> DEFINE e == MonitoringAnswers(c, a, vpc)
           d == QuotaAnswers(e, a)
<1>1. /\ ConfigTyped(e)
      /\ \A k \in Keys \ {"monitoring", "mode", "vpc", "analytics"} : e[k] = c[k]
      /\ e.monitoring = (a.monitoring # "off")
      /\ a.monitoring = "off" => \A k \in {"mode", "vpc", "analytics"} : e[k] = c[k]
      /\ a.monitoring # "off" =>
            /\ e.mode = a.monitoring /\ e.vpc = vpc
            /\ e.analytics = (a.monitoring = "central" /\ a.analytics)
  BY MonitoringAsked
<1> HIDE DEF e
<1>2. /\ ConfigTyped(d)
      /\ \A k \in Keys \ {"quota", "limit", "daily", "bypass"} : d[k] = e[k]
      /\ a.monitoring # "off" => d.quota = (a.quota # "off" /\ e.auth # "none")
      /\ a.monitoring = "off" => d.quota = e.quota
      /\ ~QuotaWanted(e, a) => \A k \in {"limit", "daily", "bypass"} : d[k] = e[k]
      /\ QuotaWanted(e, a) =>
            /\ d.limit = a.quota
            /\ d.daily = IF a.quota = "cost" THEN "none"
                         ELSE IF a.customDaily THEN "custom" ELSE "computed"
            /\ d.bypass = (a.monitoring = "sidecar" /\ a.bypass)
  BY <1>1, QuotaAsked
<1> HIDE DEF d
<1>3. e.auth = c.auth /\ (QuotaWanted(e, a) <=> QuotaWanted(c, a))
  BY <1>1 DEF Keys, QuotaWanted
<1>4. /\ d.monitoring = e.monitoring /\ d.mode = e.mode /\ d.vpc = e.vpc /\ d.analytics = e.analytics
      /\ d.auth = c.auth
  BY <1>1, <1>2, <1>3 DEF Keys
<1>5. \A k \in Keys \ {"monitoring", "mode", "vpc", "analytics", "quota", "limit", "daily", "bypass"} :
          d[k] = c[k]
  BY <1>1, <1>2
<1>6. e.quota = c.quota /\ e.limit = c.limit /\ e.daily = c.daily /\ e.bypass = c.bypass
  BY <1>1 DEF Keys
<1>7. CASE a.monitoring = "off"
  <2>1. d.monitoring = FALSE /\ ~QuotaWanted(c, a)
    BY <1>1, <1>4, <1>7 DEF QuotaWanted
  <2>2. MonitoringFits(d)
    BY <2>1, NoBooleanUnset DEF MonitoringFits
  <2>3. \A k \in {"mode", "vpc", "analytics", "quota", "limit", "daily", "bypass"} : d[k] = c[k]
    BY <1>1, <1>2, <1>3, <1>4, <1>6, <1>7, <2>1
  <2>4. QED
    BY <1>1, <1>2, <1>4, <1>5, <1>7, <2>1, <2>2, <2>3 DEF d, e
<1>8. CASE a.monitoring # "off"
  <2>1. /\ d.monitoring = TRUE /\ d.mode = a.monitoring /\ d.vpc = vpc
        /\ d.analytics = (a.monitoring = "central" /\ a.analytics)
        /\ d.quota = (a.quota # "off" /\ c.auth # "none")
    BY <1>1, <1>2, <1>3, <1>4, <1>8
  <2>2. vpc # Unset /\ (vpc = "none" <=> a.monitoring = "sidecar")
    BY <1>8, AnswersSet, UnsetAssumption DEF ConfigureVpc, Get, Answer
  <2>3. d.quota => QuotaWanted(c, a)
    BY <1>8, <2>1 DEF QuotaWanted
  <2>4. QuotaWanted(c, a) => QuotaFits(d)
    <3> SUFFICES ASSUME QuotaWanted(c, a) PROVE QuotaFits(d)
      OBVIOUS
    <3>1. /\ d.limit = a.quota /\ d.bypass = (a.monitoring = "sidecar" /\ a.bypass)
          /\ d.daily = IF a.quota = "cost" THEN "none" ELSE IF a.customDaily THEN "custom" ELSE "computed"
      BY <1>2, <1>3
    <3>2. d.limit # Unset /\ d.daily # Unset /\ d.bypass # Unset
      BY <3>1, AnswersSet, UnsetAssumption
    <3>3. d.auth # "none" /\ a.quota \in {"token", "cost"}
      BY <1>4 DEF QuotaWanted, Answer
    <3>4. QED
      BY <2>1, <3>1, <3>2, <3>3 DEF QuotaFits
  <2>5. MonitoringFits(d)
    <3>1. d.monitoring # Unset /\ d.analytics # Unset /\ d.quota # Unset
      BY <2>1, NoBooleanUnset
    <3>2. d.mode # Unset /\ d.vpc # Unset /\ (d.vpc = "none" <=> d.mode = "sidecar")
      BY <2>1, <2>2, AnswersSet
    <3>3. d.analytics => d.mode = "central"
      BY <2>1
    <3>4. QED
      BY <2>3, <2>4, <3>1, <3>2, <3>3 DEF MonitoringFits
  <2>6. ~QuotaWanted(c, a) => \A k \in {"limit", "daily", "bypass"} : d[k] = c[k]
    BY <1>2, <1>3, <1>6
  <2>7. QED
    BY <1>1, <1>2, <1>3, <1>4, <1>5, <1>8, <2>1, <2>5, <2>6 DEF d, e
<1>9. QED
  BY <1>7, <1>8

(* The outcome d of the questions about builds, Claude Desktop and          *)
(* distribution, answered a, from c.                                       *)
FeaturesOutcome(c, a, d) ==
    LET was == Get(c, "buildRegion", "main")
        now == IF a.builds = "no" THEN was
               ELSE IF c.windows \/ a.builds = "skip" THEN "main" ELSE a.builds
    IN /\ ConfigTyped(d) /\ FeaturesFit(d)
       /\ \A k \in Keys \ {"builds", "buildRegion", "prior", "websearch", "desktop", "token",
                           "delivery", "target", "distribution", "saml", "idp"} : d[k] = c[k]
       /\ d.builds = (a.builds # "no" /\ (c.windows \/ a.builds # "skip"))
       /\ d.buildRegion = now
       /\ d.prior = IF was \in {"main", now} THEN Get(c, "prior", {})
                    ELSE Get(c, "prior", {}) \cup {was}
       /\ d.buildRegion # Unset /\ d.prior # Unset
       /\ d.websearch = (c.auth # "idc" /\ a.websearch) /\ d.desktop = a.desktop
       /\ d.token = IF a.desktop /\ Get(c, "mode", "central") = "central"
                    THEN TRUE ELSE Get(c, "token", FALSE)
       /\ d.delivery = IF a.desktop /\ c.auth = "oidc" THEN a.delivery ELSE c.delivery
       /\ d.target = a.target /\ d.distribution = a.distribution
       /\ d.saml = IF a.distribution = "page" /\ c.auth = "idc" THEN TRUE ELSE c.saml
       /\ d.idp = IF a.distribution = "page" /\ c.auth # "idc" THEN a.idp ELSE c.idp

LEMMA FeaturesSection ==
    ASSUME NEW c, ConfigTyped(c), NEW a \in Answer, AuthFits(c), AwsFits(c)
    PROVE  FeaturesOutcome(c, a, DistributionAnswers(DesktopAnswers(CodeBuildAnswers(c, a), a), a))
<1> DEFINE e == CodeBuildAnswers(c, a)
           f == DesktopAnswers(e, a)
           d == DistributionAnswers(f, a)
           was == Get(c, "buildRegion", "main")
           now == IF a.builds = "no" THEN was
                  ELSE IF c.windows \/ a.builds = "skip" THEN "main" ELSE a.builds
           prior == IF was \in {"main", now} THEN Get(c, "prior", {}) ELSE Get(c, "prior", {}) \cup {was}
           token == IF a.desktop /\ Get(c, "mode", "central") = "central" THEN TRUE ELSE Get(c, "token", FALSE)
<1>1. /\ ConfigTyped(e)
      /\ \A k \in Keys \ {"builds", "buildRegion", "prior"} : e[k] = c[k]
      /\ e.builds = (a.builds # "no" /\ (c.windows \/ a.builds # "skip"))
      /\ e.buildRegion = now /\ e.prior = prior
      /\ e.buildRegion # Unset /\ e.prior # Unset
  BY CodeBuildAsked
<1>2. now \in {"main", "near", "far"}
  BY FieldsTyped DEF Answer, Of, Get
<1>3. now = "main" \/ (now = a.builds /\ ~c.windows) \/ (a.builds = "no" /\ now = was)
  OBVIOUS
<1>4. a.builds # "no" => IF c.windows \/ a.builds = "skip" THEN now = "main" ELSE now = a.builds
  OBVIOUS
<1> HIDE DEF e, now, was, prior
<1>5. /\ ConfigTyped(f)
      /\ \A k \in Keys \ {"websearch", "desktop", "token", "delivery"} : f[k] = e[k]
      /\ f.websearch = (e.auth # "idc" /\ a.websearch) /\ f.desktop = a.desktop
      /\ f.token = IF a.desktop /\ Get(e, "mode", "central") = "central"
                   THEN TRUE ELSE Get(e, "token", FALSE)
      /\ f.delivery = IF a.desktop /\ e.auth = "oidc" THEN a.delivery ELSE e.delivery
  BY <1>1, DesktopAsked
<1> HIDE DEF f
<1>6. /\ ConfigTyped(d)
      /\ \A k \in Keys \ {"target", "distribution", "saml", "idp"} : d[k] = f[k]
      /\ d.target = a.target /\ d.distribution = a.distribution
      /\ d.saml = IF a.distribution = "page" /\ f.auth = "idc" THEN TRUE ELSE f.saml
      /\ d.idp = IF a.distribution = "page" /\ f.auth # "idc" THEN a.idp ELSE f.idp
  BY <1>5, DistributionAsked
<1> HIDE DEF d
<1>7. e.auth = c.auth /\ f.auth = c.auth /\ d.auth = c.auth /\ d.windows = c.windows
  BY <1>1, <1>5, <1>6 DEF Keys
<1>8. \A k \in Keys \ {"builds", "buildRegion", "prior", "websearch", "desktop", "token",
                       "delivery", "target", "distribution", "saml", "idp"} : d[k] = c[k]
  BY <1>1, <1>5, <1>6
<1>9. /\ d.builds = e.builds /\ d.buildRegion = e.buildRegion /\ d.prior = e.prior
      /\ d.websearch = f.websearch /\ d.desktop = f.desktop /\ d.token = f.token
      /\ d.delivery = f.delivery
  BY <1>1, <1>5, <1>6 DEF Keys
<1>10. /\ Get(e, "mode", "central") = Get(c, "mode", "central")
       /\ Get(e, "token", FALSE) = Get(c, "token", FALSE)
       /\ e.delivery = c.delivery /\ f.saml = c.saml /\ f.idp = c.idp
  BY <1>1, <1>5 DEF Keys, Get
<1>11. d.token = token
  BY <1>5, <1>9, <1>10
<1> HIDE DEF token
<1>12. d.websearch = (c.auth # "idc" /\ a.websearch) /\ d.desktop = a.desktop
       /\ d.delivery = IF a.desktop /\ c.auth = "oidc" THEN a.delivery ELSE c.delivery
  BY <1>5, <1>7, <1>9, <1>10
<1>13. /\ d.saml = IF a.distribution = "page" /\ c.auth = "idc" THEN TRUE ELSE c.saml
       /\ d.idp = IF a.distribution = "page" /\ c.auth # "idc" THEN a.idp ELSE c.idp
  BY <1>6, <1>7, <1>10
<1>14. FeaturesFit(d)
  <2>1. d.builds # Unset /\ d.websearch # Unset /\ d.distribution # Unset
    BY <1>1, <1>6, <1>9, <1>12, NoBooleanUnset, AnswersSet
  <2>2. d.builds => IF d.windows THEN d.buildRegion = "main" ELSE d.buildRegion \in {"near", "far"}
    <3>1. d.buildRegion = now
      BY <1>1, <1>9
    <3>2. d.builds => a.builds # "no" /\ (c.windows \/ a.builds # "skip")
      BY <1>1, <1>9
    <3>3. a.builds \in {"no", "near", "far", "skip"}
      BY DEF Answer
    <3>4. CASE c.windows
      BY <1>4, <1>7, <3>1, <3>2, <3>4
    <3>5. CASE ~c.windows
      BY <1>4, <1>7, <3>1, <3>2, <3>3, <3>5
    <3>6. QED
      BY <3>4, <3>5
  <2>3. d.websearch => d.auth # "idc"
    BY <1>7, <1>12
  <2>4. d.distribution = "page" => IF d.auth = "idc" THEN d.saml = TRUE ELSE d.idp = a.idp
    BY <1>6, <1>7, <1>13
  <2>5. a.idp \notin {Unset, "none"}
    BY AnswersSet DEF Answer
  <2>6. d.distribution = "page" =>
          IF d.auth = "idc" THEN d.saml # Unset /\ d.saml ELSE d.idp \notin {Unset, "none"}
    BY <2>4, <2>5, NoBooleanUnset
  <2>7. QED
    BY <2>1, <2>2, <2>3, <2>6 DEF FeaturesFit
<1>15. /\ d.builds = (a.builds # "no" /\ (c.windows \/ a.builds # "skip"))
       /\ d.buildRegion = now /\ d.prior = prior
       /\ d.buildRegion # Unset /\ d.prior # Unset
  BY <1>1, <1>9
<1>16. QED
  BY <1>6, <1>8, <1>11, <1>12, <1>13, <1>14, <1>15 DEF FeaturesOutcome, d, e, f, was, now, prior, token

-----------------------------------------------------------------------------
(* What is saved of the wizard's data, and restored from a profile.        *)

LEMMA ProfileFields ==
    ASSUME NEW x \in Profile
    PROVE  /\ x.auth \in {"oidc", "idc", "none"} /\ x.provider \in {"okta", "google", "azure", Unset}
           /\ x.client \in {"none", "public", "secret", "certificate"} /\ x.port \in BOOLEAN
           /\ x.vpc \in {"none", "new", "own"} /\ x.saml \in BOOLEAN /\ x.idp \in {"none", "okta", "generic"}
           /\ x.federation \in {"direct", "cognito"} /\ x.pool \in Names /\ x.windows \in BOOLEAN
           /\ x.monitoring \in BOOLEAN /\ x.mode \in {"sidecar", "central"} /\ x.analytics \in BOOLEAN
           /\ x.quota \in BOOLEAN /\ x.limit \in {"token", "cost"}
           /\ x.daily \in {"none", "computed", "custom"} /\ x.bypass \in BOOLEAN /\ x.builds \in BOOLEAN
           /\ x.buildRegion \in {"main", "near", "far"} /\ x.prior \in SUBSET {"near", "far"}
           /\ x.websearch \in BOOLEAN /\ x.desktop \in BOOLEAN /\ x.token \in BOOLEAN
           /\ x.delivery \in {"static", "bootstrap"} /\ x.target \in {"user", "managed"}
           /\ x.distribution \in {"off", "presigned", "page"} /\ x.model \in {"us", "eu"}
           /\ x.chat \in BOOLEAN /\ x.alias \in {"none", "opusplan"} /\ x.failMode \in {"open", "closed"}
BY DEF Profile

LEMMA RestoredTyped ==
    ASSUME NEW x \in Profile
    PROVE  /\ ConfigTyped(Restored(x))
           /\ \A k \in Keys \ {"chat", "client"} : Restored(x)[k] = x[k]
           /\ Restored(x).client = IF x.client = "none" THEN Unset ELSE x.client
           /\ Restored(x).chat = IF ~x.chat THEN Unset ELSE x.chat
<1> DEFINE r == Restored(x)
<1>1. /\ DOMAIN r = Keys /\ \A k \in Keys \ {"chat", "client"} : r[k] = x[k]
      /\ r["client"] = IF x.client = "none" THEN Unset ELSE x.client
      /\ r["chat"] = IF ~x.chat THEN Unset ELSE x.chat
  BY DEF Restored, Keys
<1> HIDE DEF r
<1>2. \A k \in Keys \ {"chat", "client"} : Of(x[k], Values[k])
  <2>1. /\ Of(x["auth"], Values["auth"]) /\ Of(x["provider"], Values["provider"])
        /\ Of(x["port"], Values["port"]) /\ Of(x["federation"], Values["federation"])
        /\ Of(x["pool"], Values["pool"]) /\ Of(x["windows"], Values["windows"])
        /\ Of(x["monitoring"], Values["monitoring"]) /\ Of(x["mode"], Values["mode"])
        /\ Of(x["vpc"], Values["vpc"]) /\ Of(x["analytics"], Values["analytics"])
    BY ProfileFields DEF Of, Values
  <2>2. /\ Of(x["quota"], Values["quota"]) /\ Of(x["limit"], Values["limit"])
        /\ Of(x["daily"], Values["daily"]) /\ Of(x["bypass"], Values["bypass"])
        /\ Of(x["builds"], Values["builds"]) /\ Of(x["buildRegion"], Values["buildRegion"])
        /\ Of(x["prior"], Values["prior"]) /\ Of(x["websearch"], Values["websearch"])
        /\ Of(x["desktop"], Values["desktop"])
    BY ProfileFields DEF Of, Values
  <2>3. /\ Of(x["token"], Values["token"]) /\ Of(x["delivery"], Values["delivery"])
        /\ Of(x["target"], Values["target"]) /\ Of(x["distribution"], Values["distribution"])
        /\ Of(x["saml"], Values["saml"]) /\ Of(x["idp"], Values["idp"]) /\ Of(x["model"], Values["model"])
    BY ProfileFields DEF Of, Values
  <2>4. QED
    BY <2>1, <2>2, <2>3 DEF Keys
<1>3. Of(r["client"], Values["client"]) /\ Of(r["chat"], Values["chat"])
  BY <1>1, ProfileFields DEF Of, Values
<1>4. ConfigTyped(r)
  BY <1>1, <1>2, <1>3 DEF ConfigTyped
<1>5. QED
  BY <1>1, <1>4 DEF r

LEMMA SavedTyped ==
    ASSUME NEW c, ConfigTyped(c), AwsFits(c), c.monitoring # Unset, ModelFits(c),
           NEW before, before \in {Absent, Broken} \/ before \in Profile
    PROVE  Saved(c, before) \in Profile
<1> DEFINE auth == Get(c, "auth", "oidc")
           client == Get(c, "client", "none")
           port == Get(c, "port", FALSE)
           federation == Get(c, "federation", "cognito")
           vpc == Get(c, "vpc", "none")
           mode == Get(c, "mode", "sidecar")
           analytics == c.monitoring /\ Get(c, "analytics", TRUE)
           quota == c.monitoring /\ Get(c, "quota", FALSE)
           limit == Get(c, "limit", "token")
           daily == Get(c, "daily", "none")
           bypass == Get(c, "bypass", FALSE)
           builds == Get(c, "builds", FALSE)
           buildRegion == Get(c, "buildRegion", "main")
           prior == Get(c, "prior", {})
           websearch == Get(c, "websearch", FALSE)
           desktop == Get(c, "desktop", TRUE)
           token == Get(c, "token", FALSE)
           delivery == Get(c, "delivery", "static")
           target == Get(c, "target", "user")
           distribution == Get(c, "distribution", "off")
           saml == Get(c, "saml", FALSE)
           idp == Get(c, "idp", "none")
           chat == Get(c, "chat", TRUE)
           failMode == IF IsProfile(before) THEN before.failMode ELSE "open"
<1>1. /\ auth \in {"oidc", "idc", "none"} /\ client \in {"none", "public", "secret", "certificate"}
      /\ port \in BOOLEAN /\ federation \in {"direct", "cognito"} /\ vpc \in {"none", "new", "own"}
      /\ mode \in {"sidecar", "central"} /\ limit \in {"token", "cost"}
      /\ daily \in {"none", "computed", "custom"} /\ bypass \in BOOLEAN /\ builds \in BOOLEAN
  BY FieldsTyped DEF Get, Of
<1>2. /\ buildRegion \in {"main", "near", "far"} /\ prior \in SUBSET {"near", "far"}
      /\ websearch \in BOOLEAN /\ desktop \in BOOLEAN /\ token \in BOOLEAN
      /\ delivery \in {"static", "bootstrap"} /\ target \in {"user", "managed"}
      /\ distribution \in {"off", "presigned", "page"} /\ saml \in BOOLEAN
      /\ idp \in {"none", "okta", "generic"} /\ chat \in BOOLEAN
  BY FieldsTyped DEF Get, Of
<1>3. analytics \in BOOLEAN /\ quota \in BOOLEAN
  OBVIOUS
<1>4. /\ c.provider \in {"okta", "google", "azure", Unset} /\ c.pool \in Names /\ c.windows \in BOOLEAN
      /\ c.monitoring \in BOOLEAN /\ c.model \in {"us", "eu"}
  BY FieldsTyped DEF AwsFits, ModelFits, Of
<1>5. failMode \in {"open", "closed"}
  BY ProfileFields DEF IsProfile
<1>6. Saved(c, before) =
        [auth |-> auth, provider |-> c.provider, client |-> client, port |-> port, federation |-> federation,
         vpc |-> vpc, pool |-> c.pool, windows |-> c.windows, monitoring |-> c.monitoring, mode |-> mode,
         analytics |-> analytics, quota |-> quota, limit |-> limit, daily |-> daily, bypass |-> bypass,
         builds |-> builds, buildRegion |-> buildRegion, prior |-> prior, websearch |-> websearch,
         desktop |-> desktop, token |-> token, delivery |-> delivery, target |-> target,
         distribution |-> distribution, saml |-> saml, idp |-> idp, model |-> c.model, chat |-> chat,
         alias |-> "none", failMode |-> failMode]
  BY DEF Saved
<1> HIDE DEF auth, client, port, federation, vpc, mode, analytics, quota, limit, daily, bypass, builds,
             buildRegion, prior, websearch, desktop, token, delivery, target, distribution, saml, idp,
             chat, failMode
<1>7. QED
  BY <1>1, <1>2, <1>3, <1>4, <1>5, <1>6 DEF Profile

LEMMA SavedFields ==
    ASSUME NEW c, NEW before
    PROVE  LET x == Saved(c, before)
           IN /\ \A k \in {"auth", "client", "port", "federation", "vpc", "mode", "limit", "daily",
                           "bypass", "builds", "buildRegion", "prior", "websearch", "desktop", "token",
                           "delivery", "target", "distribution", "saml", "idp", "chat"} :
                    c[k] # Unset => x[k] = c[k]
              /\ \A k \in {"provider", "pool", "windows", "monitoring", "model"} : x[k] = c[k]
              /\ x.analytics = (c.monitoring /\ (c.analytics # Unset => c.analytics))
              /\ x.quota = (c.monitoring /\ c.quota # Unset /\ c.quota)
<1> DEFINE x == Saved(c, before)
<1>1. /\ x["auth"] = Get(c, "auth", "oidc") /\ x["client"] = Get(c, "client", "none")
      /\ x["port"] = Get(c, "port", FALSE) /\ x["federation"] = Get(c, "federation", "cognito")
      /\ x["vpc"] = Get(c, "vpc", "none") /\ x["mode"] = Get(c, "mode", "sidecar")
      /\ x["limit"] = Get(c, "limit", "token") /\ x["daily"] = Get(c, "daily", "none")
      /\ x["bypass"] = Get(c, "bypass", FALSE) /\ x["builds"] = Get(c, "builds", FALSE)
  BY DEF Saved
<1>2. /\ x["buildRegion"] = Get(c, "buildRegion", "main") /\ x["prior"] = Get(c, "prior", {})
      /\ x["websearch"] = Get(c, "websearch", FALSE) /\ x["desktop"] = Get(c, "desktop", TRUE)
      /\ x["token"] = Get(c, "token", FALSE) /\ x["delivery"] = Get(c, "delivery", "static")
      /\ x["target"] = Get(c, "target", "user") /\ x["distribution"] = Get(c, "distribution", "off")
      /\ x["saml"] = Get(c, "saml", FALSE) /\ x["idp"] = Get(c, "idp", "none")
      /\ x["chat"] = Get(c, "chat", TRUE)
  BY DEF Saved
<1>3. \A k \in {"provider", "pool", "windows", "monitoring", "model"} : x[k] = c[k]
  BY DEF Saved
<1>4. /\ x.analytics = (c.monitoring /\ Get(c, "analytics", TRUE))
      /\ x.quota = (c.monitoring /\ Get(c, "quota", FALSE))
  BY DEF Saved
<1> HIDE DEF x
<1>5. /\ x.analytics = (c.monitoring /\ (c.analytics # Unset => c.analytics))
      /\ x.quota = (c.monitoring /\ c.quota # Unset /\ c.quota)
  BY <1>4 DEF Get
<1>6. \A k \in {"auth", "client", "port", "federation", "vpc", "mode", "limit", "daily",
                "bypass", "builds", "buildRegion", "prior", "websearch", "desktop", "token",
                "delivery", "target", "distribution", "saml", "idp", "chat"} : c[k] # Unset => x[k] = c[k]
  BY <1>1, <1>2, ZenonT(60) DEF Get
<1>7. QED
  BY <1>3, <1>5, <1>6 DEF x

LEMMA SavedFits ==
    ASSUME NEW c, ConfigTyped(c), AuthFits(c), MonitoringFits(c), FeaturesFit(c), NEW before
    PROVE  Fits(Saved(c, before))
<1> DEFINE x == Saved(c, before)
<1>1. /\ \A k \in {"auth", "client", "port", "federation", "vpc", "mode", "limit", "daily",
                   "bypass", "builds", "buildRegion", "prior", "websearch", "desktop", "token",
                   "delivery", "target", "distribution", "saml", "idp", "chat"} :
            c[k] # Unset => x[k] = c[k]
      /\ \A k \in {"provider", "pool", "windows", "monitoring", "model"} : x[k] = c[k]
      /\ x.analytics = (c.monitoring /\ (c.analytics # Unset => c.analytics))
      /\ x.quota = (c.monitoring /\ c.quota # Unset /\ c.quota)
  BY SavedFields
<1> HIDE DEF x
<1>2. /\ x.auth = c.auth /\ x.provider = c.provider /\ x.windows = c.windows
      /\ x.monitoring = c.monitoring
  BY <1>1 DEF AuthFits
<1>3. AuthFits(x)
  BY <1>1, <1>2 DEF AuthFits
<1>4. MonitoringFits(x)
  <2>1. CASE c.monitoring
    <3>1. x.mode = c.mode /\ x.vpc = c.vpc
      BY <1>1, <2>1 DEF MonitoringFits
    <3>2. /\ x.analytics \in BOOLEAN /\ (x.analytics => c.analytics)
          /\ x.quota \in BOOLEAN /\ (x.quota => c.quota)
      BY <1>1, <2>1 DEF MonitoringFits
    <3>3. x.quota => QuotaFits(x)
      <4> SUFFICES ASSUME x.quota PROVE QuotaFits(x)
        OBVIOUS
      <4>1. QuotaFits(c)
        BY <2>1, <3>2 DEF MonitoringFits
      <4>2. x.limit = c.limit /\ x.daily = c.daily /\ x.bypass = c.bypass
        BY <1>1, <4>1 DEF QuotaFits
      <4>3. QED
        BY <1>2, <3>1, <4>1, <4>2 DEF QuotaFits
    <3>4. QED
      BY <1>2, <2>1, <3>1, <3>2, <3>3, NoBooleanUnset DEF MonitoringFits
  <2>2. CASE ~c.monitoring
    BY <1>2, <2>2 DEF MonitoringFits
  <2>3. QED
    BY <2>1, <2>2
<1>5. FeaturesFit(x)
  <2>1. x.builds = c.builds /\ x.websearch = c.websearch /\ x.distribution = c.distribution
    BY <1>1 DEF FeaturesFit
  <2>2. c.builds => x.buildRegion = c.buildRegion
    BY <1>1, UnsetAssumption DEF FeaturesFit
  <2>3. c.distribution = "page" => IF c.auth = "idc" THEN x.saml = c.saml ELSE x.idp = c.idp
    BY <1>1 DEF FeaturesFit
  <2>4. QED
    BY <1>2, <2>1, <2>2, <2>3 DEF FeaturesFit
<1>6. x.quota \/ x.analytics => x.monitoring
  BY <1>1, <1>2
<1>7. QED
  BY <1>3, <1>4, <1>5, <1>6 DEF Fits, x

LEMMA SavedMeans ==
    ASSUME NEW c, ConfigTyped(c), AuthFits(c), AwsFits(c), MonitoringFits(c), FeaturesFit(c), ModelFits(c),
           NEW a \in Answer, NEW before,
           MeantAuth(c, a), MeantAws(c, a, wizard.name), MeantMonitoring(c, a), MeantFeatures(c, a), MeantModel(c, a)
    PROVE  DeployView(Saved(c, before)) = Meant(a, wizard.name)
<1> DEFINE x == Saved(c, before)
<1>1. /\ \A k \in {"auth", "client", "port", "federation", "vpc", "mode", "limit", "daily",
                   "bypass", "builds", "buildRegion", "prior", "websearch", "desktop", "token",
                   "delivery", "target", "distribution", "saml", "idp", "chat"} :
            c[k] # Unset => x[k] = c[k]
      /\ \A k \in {"provider", "pool", "windows", "monitoring", "model"} : x[k] = c[k]
      /\ x.analytics = (c.monitoring /\ (c.analytics # Unset => c.analytics))
      /\ x.quota = (c.monitoring /\ c.quota # Unset /\ c.quota)
  BY SavedFields
<1> HIDE DEF x
<1>2. x.auth = a.auth /\ x.pool = wizard.name /\ x.model = a.model
  BY <1>1 DEF AuthFits, MeantAuth, MeantAws, MeantModel
<1>3. x.monitoring = (a.monitoring # "off")
  BY <1>1 DEF MeantMonitoring
<1>4. (IF x.monitoring THEN x.mode ELSE "off") = a.monitoring
  <2>1. a.monitoring # "off" => c.monitoring
    BY DEF MeantMonitoring
  <2>2. a.monitoring # "off" => x.mode = a.monitoring
    BY <1>1, <2>1 DEF MonitoringFits, MeantMonitoring
  <2>3. QED
    BY <1>3, <2>2
<1>5. (x.monitoring /\ x.mode = "central" /\ x.analytics) = (a.monitoring = "central" /\ a.analytics)
  <2>1. CASE a.monitoring = "off"
    BY <1>3, <2>1
  <2>2. CASE a.monitoring # "off"
    <3>1. c.monitoring /\ c.analytics # Unset
      BY <2>2 DEF MeantMonitoring, MonitoringFits
    <3>2. x.analytics <=> (a.monitoring = "central" /\ a.analytics)
      BY <1>1, <2>2, <3>1 DEF MeantMonitoring
    <3>3. x.mode = a.monitoring
      BY <1>3, <1>4, <2>2
    <3>4. QED
      BY <1>3, <2>2, <3>2, <3>3
  <2>3. QED
    BY <2>1, <2>2
<1>6. (IF x.quota THEN x.limit ELSE "off") =
        IF a.monitoring = "off" \/ a.auth = "none" THEN "off" ELSE a.quota
  <2>1. CASE a.monitoring = "off"
    <3>1. ~c.monitoring
      BY <2>1 DEF MeantMonitoring
    <3>2. ~x.quota
      BY <1>1, <3>1
    <3>3. QED
      BY <2>1, <3>2
  <2>2. CASE a.monitoring # "off"
    <3>1. c.monitoring /\ c.quota # Unset
      BY <2>2 DEF MeantMonitoring, MonitoringFits
    <3>2. x.quota <=> (a.quota # "off" /\ a.auth # "none")
      BY <1>1, <2>2, <3>1 DEF MeantMonitoring
    <3>3. a.quota # "off" /\ a.auth # "none" => x.limit = a.quota
      BY <1>1, <2>2, AnswersSet DEF MeantMonitoring
    <3>4. QED
      BY <2>2, <3>2, <3>3
  <2>3. QED
    BY <2>1, <2>2
<1>7. /\ x.distribution = a.distribution /\ x.websearch = (a.websearch /\ a.auth # "idc")
      /\ x.builds = (a.builds # "no" /\ (a.windows \/ a.builds # "skip"))
  <2>1. x.distribution = c.distribution /\ x.websearch = c.websearch /\ x.builds = c.builds
    BY <1>1 DEF FeaturesFit
  <2>2. (a.auth # "idc" /\ a.websearch) = (a.websearch /\ a.auth # "idc")
    OBVIOUS
  <2>3. QED
    BY <2>1, <2>2 DEF MeantFeatures
<1>8. (IF x.builds THEN x.buildRegion ELSE "none") =
        IF a.builds = "no" THEN "none" ELSE IF a.windows THEN "main"
        ELSE IF a.builds = "skip" THEN "none" ELSE a.builds
  <2>1. a.builds \in {"no", "near", "far", "skip"}
    BY DEF Answer
  <2>2. a.builds # "no" /\ (a.windows \/ a.builds # "skip") =>
            c.buildRegion = IF a.windows THEN "main" ELSE a.builds
    BY DEF MeantFeatures
  <2>3. a.builds # "no" /\ (a.windows \/ a.builds # "skip") => x.buildRegion = c.buildRegion
    BY <1>1, <2>1, <2>2, UnsetAssumption
  <2>4. x.builds <=> (a.builds # "no" /\ (a.windows \/ a.builds # "skip"))
    BY <1>7
  <2>5. QED
    BY <2>2, <2>3, <2>4
<1>9. (IF x.distribution # "page" THEN "none"
       ELSE IF x.auth # "idc" THEN x.idp ELSE IF x.saml THEN "saml" ELSE "none") =
        IF a.distribution # "page" THEN "none" ELSE IF a.auth = "idc" THEN "saml" ELSE a.idp
  <2>1. a.distribution = "page" /\ a.auth = "idc" => x.saml
    <3>1. a.distribution = "page" /\ a.auth = "idc" => c.saml = TRUE
      BY DEF MeantFeatures
    <3>2. QED
      BY <1>1, <3>1, NoBooleanUnset
  <2>2. a.distribution = "page" /\ a.auth # "idc" => x.idp = a.idp
    BY <1>1, AnswersSet DEF MeantFeatures
  <2>3. QED
    BY <1>2, <1>7, <2>1, <2>2
<1>10. DeployView(x) = Meant(a, wizard.name)
  BY <1>2, <1>4, <1>5, <1>6, <1>7, <1>8, <1>9 DEF DeployView, Meant
<1>11. QED
  BY <1>10 DEF x

-----------------------------------------------------------------------------
(* Sections of which every default is accepted, in an update.              *)
(* The keys that are never loose, and what they are restored to.           *)
LEMMA FollowsFirm ==
    ASSUME NEW c, NEW was \in Profile, Follows(c, was)
    PROVE  /\ \A k \in {"auth", "provider", "port", "federation", "pool", "windows", "monitoring", "mode",
                        "vpc", "analytics", "quota", "limit", "bypass", "builds", "websearch", "desktop",
                        "delivery", "target", "saml", "idp", "model"} : c[k] = was[k]
           /\ c.client = IF was.client = "none" THEN Unset ELSE was.client
           /\ was.distribution # "off" => c.distribution = was.distribution
           /\ was.daily # "custom" => c.daily = was.daily
           /\ was.buildRegion # "far" => c.buildRegion = was.buildRegion /\ c.prior = was.prior
           /\ was.token => c.token = was.token
<1>1. \A k \in Keys \ Loose(was) : k \notin {"chat", "client"} => c[k] = was[k]
  BY RestoredTyped DEF Follows
<1>2. \A k \in {"auth", "provider", "port", "federation", "pool", "windows", "monitoring", "mode",
                "vpc", "analytics", "quota", "limit", "bypass", "builds", "websearch", "desktop",
                "delivery", "target", "saml", "idp", "model", "client"} : k \in Keys \ Loose(was)
  BY DEF Loose, Keys
<1>3. c["client"] = IF was.client = "none" THEN Unset ELSE was.client
  BY <1>2, RestoredTyped DEF Follows
<1>4. /\ was.distribution # "off" => "distribution" \in Keys \ Loose(was)
      /\ was.daily # "custom" => "daily" \in Keys \ Loose(was)
      /\ was.buildRegion # "far" => "buildRegion" \in Keys \ Loose(was) /\ "prior" \in Keys \ Loose(was)
      /\ was.token => "token" \in Keys \ Loose(was)
  BY DEF Loose, Keys
<1>5. QED
  BY <1>1, <1>2, <1>3, <1>4

(* What has not changed follows still.                                     *)
LEMMA FollowsKept ==
    ASSUME NEW was, NEW c, Follows(c, was), NEW d, NEW changed,
           \A k \in Keys \ changed : d[k] = c[k],
           \A k \in changed : k \in Keys \ Loose(was) => d[k] = c[k]
    PROVE  Follows(d, was)
BY DEF Follows

LEMMA AuthAccepted ==
    ASSUME NEW c, ConfigTyped(c), NEW p, NEW was \in Profile, Fits(was), Follows(c, was)
    PROVE  Follows(AuthAnswers(c, Defaults(c, p)), was)
<1> DEFINE a == Defaults(c, p)
           d == AuthAnswers(c, a)
<1>1. a \in Answer
  BY DefaultsTyped
<1>2. /\ a.auth = Get(c, "auth", "oidc") /\ a.provider = Get(c, "provider", "okta")
      /\ a.client = Get(c, "client", "public") /\ a.port = Get(c, "port", FALSE)
      /\ a.federation = Get(c, "federation", "direct")
  BY DEF Defaults
<1> HIDE DEF a
<1>3. /\ \A k \in Keys \ {"auth", "provider", "client", "port", "federation"} : d[k] = c[k]
      /\ d.auth = a.auth
      /\ a.auth # "oidc" => \A k \in {"provider", "client", "port", "federation"} : d[k] = c[k]
      /\ a.auth = "oidc" =>
            /\ d.provider = a.provider /\ d.federation = a.federation
            /\ d.port = (a.port \/ Get(c, "port", FALSE))
            /\ d.client = IF a.provider = "azure" THEN a.client ELSE c.client
  BY <1>1, AuthAsked
<1> HIDE DEF d
<1>4. /\ c.auth = was.auth /\ c.provider = was.provider /\ c.port = was.port
      /\ c.federation = was.federation
      /\ c.client = IF was.client = "none" THEN Unset ELSE was.client
  BY FollowsFirm
<1>5. /\ was.auth # Unset
      /\ was.auth = "oidc" => was.provider # Unset
      /\ was.auth = "oidc" /\ was.provider = "azure" => was.client # Unset /\ was.client # "none"
  BY DEF Fits, AuthFits
<1>6. was.port \in BOOLEAN /\ was.port # Unset /\ was.federation # Unset
  BY ProfileFields, UnsetAssumption
<1>7. d.auth = c.auth /\ a.auth = c.auth
  BY <1>3, <1>2, <1>4, <1>5 DEF Get
<1>8. \A k \in {"provider", "client", "port", "federation"} : d[k] = c[k]
  <2>1. CASE a.auth = "oidc"
    <3>1. d.provider = c.provider /\ a.provider = c.provider /\ d.federation = c.federation
      BY <1>3, <1>2, <1>4, <1>5, <1>6, <1>7, <2>1 DEF Get
    <3>2. d.port = c.port
      BY <1>3, <1>2, <1>4, <1>6, <2>1 DEF Get
    <3>3. d.client = c.client
      BY <1>3, <1>2, <1>4, <1>5, <1>7, <2>1, <3>1 DEF Get
    <3>4. QED
      BY <3>1, <3>2, <3>3
  <2>2. QED
    BY <1>3, <2>1
<1>9. Follows(d, was)
  BY <1>3, <1>7, <1>8 DEF Follows
<1>10. QED
  BY <1>9 DEF d, a

LEMMA AwsAccepted ==
    ASSUME NEW c, ConfigTyped(c), NEW p \in Names, NEW was \in Profile, Follows(c, was), wizard.accepts = TRUE
    PROVE  Follows(AwsAnswers(c, Defaults(c, p), p), was)
<1> DEFINE a == Defaults(c, p)
           d == AwsAnswers(c, a, p)
<1>1. a \in Answer
  BY DefaultsTyped
<1>2. a.windows = Get(c, "windows", TRUE)
  BY DEF Defaults
<1> HIDE DEF a
<1>3. /\ \A k \in Keys \ {"pool", "windows"} : d[k] = c[k]
      /\ d.pool = Get(c, "pool", p) /\ d.windows = a.windows
  BY <1>1, AwsAsked
<1> HIDE DEF d
<1>4. c.pool = was.pool /\ c.windows = was.windows
  BY FollowsFirm
<1>5. was.pool # Unset /\ was.windows # Unset
  BY ProfileFields, UnsetAssumption
<1>6. Follows(d, was)
  BY <1>3, <1>2, <1>4, <1>5 DEF Follows, Get
<1>7. QED
  BY <1>6 DEF d, a

LEMMA MonitoringAccepted ==
    ASSUME NEW c, ConfigTyped(c), NEW p, NEW was \in Profile, Fits(was), Follows(c, was),
           NEW vpc \in ConfigureVpc(c, Defaults(c, p))
    PROVE  Follows(QuotaAnswers(MonitoringAnswers(c, Defaults(c, p), vpc), Defaults(c, p)), was)
<1> DEFINE a == Defaults(c, p)
           d == QuotaAnswers(MonitoringAnswers(c, a, vpc), a)
           changed == {"monitoring", "mode", "vpc", "analytics", "quota", "limit", "daily", "bypass"}
<1>1. /\ \A k \in Keys \ changed : d[k] = c[k]
      /\ d.monitoring = (a.monitoring # "off")
      /\ a.monitoring = "off" =>
            \A k \in {"mode", "vpc", "analytics", "quota", "limit", "daily", "bypass"} : d[k] = c[k]
      /\ a.monitoring # "off" =>
            /\ d.mode = a.monitoring /\ d.vpc = vpc
            /\ d.analytics = (a.monitoring = "central" /\ a.analytics)
            /\ d.quota = (a.quota # "off" /\ c.auth # "none")
      /\ ~QuotaWanted(c, a) => \A k \in {"limit", "daily", "bypass"} : d[k] = c[k]
      /\ QuotaWanted(c, a) =>
            /\ d.limit = a.quota
            /\ d.daily = IF a.quota = "cost" THEN "none"
                         ELSE IF a.customDaily THEN "custom" ELSE "computed"
            /\ d.bypass = (a.monitoring = "sidecar" /\ a.bypass)
  BY MonitoringSection, DefaultsTyped
<1>2. /\ c.auth = was.auth /\ c.monitoring = was.monitoring /\ c.mode = was.mode /\ c.vpc = was.vpc
      /\ c.analytics = was.analytics /\ c.quota = was.quota /\ c.limit = was.limit /\ c.bypass = was.bypass
      /\ was.daily # "custom" => c.daily = was.daily
  BY FollowsFirm
<1>3. /\ was.auth # Unset /\ was.monitoring # Unset /\ was.mode # Unset /\ was.vpc # Unset
      /\ was.analytics # Unset /\ was.quota # Unset /\ was.limit # Unset /\ was.bypass # Unset
  BY ProfileFields, UnsetAssumption
<1>4. a.monitoring = IF was.monitoring THEN was.mode ELSE "off"
  BY <1>2, <1>3 DEF Defaults, Get
<1>5. a.quota = IF was.quota THEN was.limit ELSE "off"
  BY <1>2, <1>3 DEF Defaults, Get
<1>6. /\ a.vpc = IF was.vpc = "none" THEN "new" ELSE was.vpc
      /\ a.analytics = was.analytics /\ a.customDaily = FALSE /\ a.bypass = was.bypass
  BY <1>2, <1>3 DEF Defaults, Get
<1>7. vpc \in IF a.monitoring # "central" THEN {"none"} ELSE {a.vpc, was.vpc} \ {"none"}
  BY <1>2, <1>3 DEF ConfigureVpc, Get
<1> HIDE DEF a, d
<1>8. /\ was.monitoring \in BOOLEAN /\ was.analytics \in BOOLEAN /\ was.quota \in BOOLEAN
      /\ was.bypass \in BOOLEAN /\ was.mode \in {"sidecar", "central"} /\ was.limit \in {"token", "cost"}
      /\ was.daily \in {"none", "computed", "custom"}
  BY ProfileFields
<1>9. CASE ~was.monitoring
  <2>1. a.monitoring = "off"
    BY <1>4, <1>9
  <2>2. d.monitoring = c.monitoring
    BY <1>1, <1>2, <1>8, <1>9, <2>1
  <2>3. \A k \in changed : d[k] = c[k]
    BY <1>1, <2>1, <2>2
  <2>4. QED
    BY <1>1, <2>3, FollowsKept DEF d, a
<1>10. CASE was.monitoring
  <2>1. a.monitoring = was.mode /\ a.monitoring # "off"
    BY <1>4, <1>8, <1>10
  <2>2. d.monitoring = c.monitoring /\ d.mode = c.mode
    BY <1>1, <1>2, <1>8, <1>10, <2>1
  <2>3. was.vpc = "none" <=> was.mode = "sidecar"
    BY <1>10 DEF Fits, MonitoringFits
  <2>4. d.vpc = c.vpc
    BY <1>1, <1>2, <1>6, <1>7, <1>8, <2>1, <2>3
  <2>5. was.analytics => was.mode = "central"
    BY <1>10 DEF Fits, MonitoringFits
  <2>6. d.analytics = c.analytics
    BY <1>1, <1>2, <1>6, <1>8, <2>1, <2>5
  <2>7. CASE ~was.quota
    <3>1. a.quota = "off" /\ ~QuotaWanted(c, a)
      BY <1>5, <2>7 DEF QuotaWanted
    <3>2. d.quota = c.quota
      BY <1>1, <1>2, <1>8, <2>1, <2>7, <3>1
    <3>3. d.limit = c.limit /\ d.daily = c.daily /\ d.bypass = c.bypass
      BY <1>1, <3>1
    <3>4. \A k \in changed : d[k] = c[k]
      BY <2>2, <2>4, <2>6, <3>2, <3>3
    <3>5. QED
      BY <1>1, <3>4, FollowsKept DEF d, a
  <2>8. CASE was.quota
    <3>1. QuotaFits(was)
      BY <1>10, <2>8 DEF Fits, MonitoringFits
    <3>2. a.quota = was.limit /\ a.quota # "off" /\ QuotaWanted(c, a)
      BY <1>2, <1>5, <1>8, <2>1, <2>8, <3>1 DEF QuotaWanted, QuotaFits
    <3>3. d.quota = c.quota
      BY <1>1, <1>2, <1>8, <2>1, <2>8, <3>1, <3>2 DEF QuotaFits
    <3>4. d.limit = c.limit
      BY <1>1, <1>2, <3>2
    <3>5. d.bypass = c.bypass
      BY <1>1, <1>2, <1>6, <1>8, <2>1, <3>1, <3>2 DEF QuotaFits
    <3>6. was.daily # "custom" => d.daily = c.daily
      <4>1. d.daily = IF was.limit = "cost" THEN "none" ELSE "computed"
        BY <1>1, <1>6, <3>2
      <4>2. was.limit = "cost" <=> was.daily = "none"
        BY <3>1 DEF QuotaFits
      <4>3. QED
        BY <1>2, <1>8, <4>1, <4>2
    <3>7. was.daily = "custom" => "daily" \in Loose(was)
      BY DEF Loose
    <3>8. \A k \in changed : k \in Keys \ Loose(was) => d[k] = c[k]
      BY <2>2, <2>4, <2>6, <3>3, <3>4, <3>5, <3>6, <3>7
    <3>9. QED
      BY <1>1, <3>8, FollowsKept DEF d, a
  <2>9. QED
    BY <2>7, <2>8
<1>11. QED
  BY <1>9, <1>10

LEMMA FeaturesAccepted ==
    ASSUME NEW c, ConfigTyped(c), NEW p, NEW was \in Profile, Fits(was), Follows(c, was),
           AuthFits(c), AwsFits(c), c.distribution = was.distribution
    PROVE  LET a == Defaults(c, p)
           IN Follows(DistributionAnswers(DesktopAnswers(CodeBuildAnswers(c, a), a), a), was)
<1> DEFINE a == Defaults(c, p)
           d == DistributionAnswers(DesktopAnswers(CodeBuildAnswers(c, a), a), a)
           region == Get(c, "buildRegion", "main")
           now == IF a.builds = "no" THEN region
                  ELSE IF c.windows \/ a.builds = "skip" THEN "main" ELSE a.builds
           changed == {"builds", "buildRegion", "prior", "websearch", "desktop", "token",
                       "delivery", "target", "distribution", "saml", "idp"}
<1>1. a \in Answer
  BY DefaultsTyped
<1>2. /\ a.builds = IF Get(c, "builds", FALSE) THEN "near" ELSE "no"
      /\ a.websearch = Get(c, "websearch", FALSE) /\ a.desktop = Get(c, "desktop", TRUE)
      /\ a.delivery = Get(c, "delivery", "static") /\ a.target = Get(c, "target", "user")
      /\ a.distribution = IF Get(c, "distribution", "off") = "off" THEN "presigned" ELSE c.distribution
      /\ a.idp = IF Get(c, "idp", "none") = "none" THEN "okta" ELSE c.idp
  BY DEF Defaults
<1> HIDE DEF a
<1>3. FeaturesOutcome(c, a, d)
  BY <1>1, FeaturesSection
<1> HIDE DEF d
<1>4. /\ \A k \in Keys \ changed : d[k] = c[k]
      /\ d.builds = (a.builds # "no" /\ (c.windows \/ a.builds # "skip"))
      /\ d.buildRegion = now
      /\ d.prior = IF region \in {"main", now} THEN Get(c, "prior", {})
                   ELSE Get(c, "prior", {}) \cup {region}
      /\ d.websearch = (c.auth # "idc" /\ a.websearch) /\ d.desktop = a.desktop
      /\ d.token = IF a.desktop /\ Get(c, "mode", "central") = "central"
                   THEN TRUE ELSE Get(c, "token", FALSE)
      /\ d.delivery = IF a.desktop /\ c.auth = "oidc" THEN a.delivery ELSE c.delivery
      /\ d.target = a.target /\ d.distribution = a.distribution
      /\ d.saml = IF a.distribution = "page" /\ c.auth = "idc" THEN TRUE ELSE c.saml
      /\ d.idp = IF a.distribution = "page" /\ c.auth # "idc" THEN a.idp ELSE c.idp
  BY <1>3 DEF FeaturesOutcome
<1>5. /\ c.auth = was.auth /\ c.windows = was.windows /\ c.builds = was.builds
      /\ c.websearch = was.websearch /\ c.desktop = was.desktop /\ c.delivery = was.delivery
      /\ c.target = was.target /\ c.saml = was.saml /\ c.idp = was.idp
      /\ was.buildRegion # "far" => c.buildRegion = was.buildRegion /\ c.prior = was.prior
      /\ was.token => c.token = was.token
  BY FollowsFirm
<1>6. /\ was.builds # Unset /\ was.websearch # Unset /\ was.desktop # Unset /\ was.delivery # Unset
      /\ was.target # Unset /\ was.idp # Unset /\ was.buildRegion # Unset /\ was.prior # Unset
      /\ was.distribution # Unset
  BY ProfileFields, UnsetAssumption
<1>7. /\ was.windows \in BOOLEAN /\ was.builds \in BOOLEAN /\ was.websearch \in BOOLEAN
      /\ was.token \in BOOLEAN /\ was.saml \in BOOLEAN /\ was.buildRegion \in {"main", "near", "far"}
  BY ProfileFields
<1>8. FeaturesFit(was)
  BY DEF Fits
<1>9. a.builds = IF was.builds THEN "near" ELSE "no"
  BY <1>2, <1>5, <1>6 DEF Get
<1>10. d.builds = c.builds
  BY <1>4, <1>5, <1>7, <1>9
<1>11. d.websearch = c.websearch
  <2>1. a.websearch = was.websearch
    BY <1>2, <1>5, <1>6 DEF Get
  <2>2. was.websearch => was.auth # "idc"
    BY <1>8 DEF FeaturesFit
  <2>3. QED
    BY <1>4, <1>5, <1>7, <2>1, <2>2
<1>12. d.desktop = c.desktop /\ d.delivery = c.delivery /\ d.target = c.target
  BY <1>2, <1>4, <1>5, <1>6 DEF Get
<1>13. a.distribution = IF was.distribution = "off" THEN "presigned" ELSE was.distribution
  BY <1>2, <1>6 DEF Get
<1>14. was.distribution # "off" => d.distribution = c.distribution
  BY <1>4, <1>13
<1>15. d.saml = c.saml /\ d.idp = c.idp
  <2>1. a.distribution = "page" => was.distribution = "page"
    BY <1>13
  <2>2. was.distribution = "page" /\ was.auth = "idc" => was.saml
    BY <1>8 DEF FeaturesFit
  <2>3. was.distribution = "page" /\ was.auth # "idc" => was.idp # "none"
    BY <1>8 DEF FeaturesFit
  <2>4. d.saml = c.saml
    BY <1>4, <1>5, <1>7, <2>1, <2>2
  <2>5. was.idp # "none" => a.idp = was.idp
    BY <1>2, <1>5, <1>6 DEF Get
  <2>6. d.idp = c.idp
    BY <1>4, <1>5, <2>1, <2>3, <2>5
  <2>7. QED
    BY <2>4, <2>6
<1>16. was.buildRegion # "far" => d.buildRegion = c.buildRegion /\ d.prior = c.prior
  <2> SUFFICES ASSUME was.buildRegion # "far"
               PROVE  d.buildRegion = c.buildRegion /\ d.prior = c.prior
    OBVIOUS
  <2>1. region = was.buildRegion /\ Get(c, "prior", {}) = was.prior
    BY <1>5, <1>6 DEF Get
  <2>2. now = was.buildRegion
    <3>1. CASE ~was.builds
      BY <1>9, <2>1, <3>1
    <3>2. CASE was.builds /\ was.windows
      <4>1. was.buildRegion = "main"
        BY <1>8, <3>2 DEF FeaturesFit
      <4>2. QED
        BY <1>5, <1>9, <3>2, <4>1
    <3>3. CASE was.builds /\ ~was.windows
      <4>1. was.buildRegion \in {"near", "far"}
        BY <1>8, <3>3 DEF FeaturesFit
      <4>2. QED
        BY <1>5, <1>9, <3>3, <4>1
    <3>4. QED
      BY <1>7, <3>1, <3>2, <3>3
  <2>3. QED
    BY <1>4, <1>5, <2>1, <2>2
<1>17. was.token => d.token = c.token
  <2> SUFFICES ASSUME was.token PROVE d.token = c.token
    OBVIOUS
  <2>1. c.token = TRUE
    BY <1>5, <1>7
  <2>2. Get(c, "token", FALSE) = TRUE
    BY <2>1, NoBooleanUnset DEF Get
  <2>3. QED
    BY <1>4, <2>1, <2>2
<1>18. \A k \in changed : k \in Keys \ Loose(was) => d[k] = c[k]
  <2>1. /\ was.distribution = "off" => "distribution" \in Loose(was)
        /\ was.buildRegion = "far" => "buildRegion" \in Loose(was) /\ "prior" \in Loose(was)
        /\ ~was.token => "token" \in Loose(was)
    BY DEF Loose
  <2>2. QED
    BY <1>10, <1>11, <1>12, <1>14, <1>15, <1>16, <1>17, <2>1
<1>19. Follows(d, was)
  BY <1>4, <1>18, FollowsKept
<1>20. QED
  BY <1>19 DEF d, a

LEMMA ModelAccepted ==
    ASSUME NEW c, ConfigTyped(c), NEW p, NEW was \in Profile, Follows(c, was)
    PROVE  Follows(ModelAnswers(c, Defaults(c, p)), was)
<1> DEFINE a == Defaults(c, p)
           d == ModelAnswers(c, a)
<1>1. a \in Answer
  BY DefaultsTyped
<1>2. a.model = Get(c, "model", "us")
  BY DEF Defaults
<1> HIDE DEF a
<1>3. d.model = a.model /\ \A k \in Keys \ {"model"} : d[k] = c[k]
  BY <1>1, ModelAsked
<1> HIDE DEF d
<1>4. c.model = was.model /\ was.model # Unset
  BY FollowsFirm, ProfileFields, UnsetAssumption
<1>5. d.model = c.model
  BY <1>2, <1>3, <1>4 DEF Get
<1>6. Follows(d, was)
  BY <1>3, <1>5 DEF Follows
<1>7. QED
  BY <1>6 DEF d, a

(* Saved again, such a profile is what it was, but for what is loose.      *)
LEMMA AcceptedSaved ==
    ASSUME NEW c, ConfigTyped(c), NEW was \in Profile, Fits(was), Follows(c, was)
    PROVE  \A k \in DOMAIN was \ (Loose(was) \cup {"alias"}) : Saved(c, was)[k] = was[k]
<1> DEFINE x == Saved(c, was)
<1>1. /\ \A k \in {"auth", "client", "port", "federation", "vpc", "mode", "limit", "daily",
                   "bypass", "builds", "buildRegion", "prior", "websearch", "desktop", "token",
                   "delivery", "target", "distribution", "saml", "idp", "chat"} :
            c[k] # Unset => x[k] = c[k]
      /\ \A k \in {"provider", "pool", "windows", "monitoring", "model"} : x[k] = c[k]
      /\ x.analytics = (c.monitoring /\ (c.analytics # Unset => c.analytics))
      /\ x.quota = (c.monitoring /\ c.quota # Unset /\ c.quota)
  BY SavedFields
<1>2. x.client = IF c.client = Unset THEN "none" ELSE c.client
  BY DEF Saved, Get
<1>3. x.failMode = was.failMode
  BY FilesAssumption DEF Saved, IsProfile
<1> HIDE DEF x
<1>4. /\ \A k \in {"auth", "provider", "port", "federation", "pool", "windows", "monitoring", "mode",
                   "vpc", "analytics", "quota", "limit", "bypass", "builds", "websearch", "desktop",
                   "delivery", "target", "saml", "idp", "model"} : c[k] = was[k]
      /\ c.client = IF was.client = "none" THEN Unset ELSE was.client
      /\ was.distribution # "off" => c.distribution = was.distribution
      /\ was.daily # "custom" => c.daily = was.daily
      /\ was.buildRegion # "far" => c.buildRegion = was.buildRegion /\ c.prior = was.prior
      /\ was.token => c.token = was.token
  BY FollowsFirm
<1>5. \A k \in {"auth", "port", "federation", "vpc", "mode", "limit", "bypass", "builds", "websearch",
                "desktop", "delivery", "target", "saml", "idp", "analytics", "quota", "distribution",
                "daily", "buildRegion", "prior", "token", "client"} : was[k] # Unset
  BY ProfileFields, UnsetAssumption
<1>6. \A k \in {"auth", "port", "federation", "vpc", "mode", "limit", "bypass", "builds", "websearch",
                "desktop", "delivery", "target", "saml", "idp"} : x[k] = was[k]
  BY <1>1, <1>4, <1>5
<1>7. \A k \in {"provider", "pool", "windows", "monitoring", "model"} : x[k] = was[k]
  BY <1>1, <1>4
<1>8. x.client = was.client
  BY <1>2, <1>4, <1>5
<1>9. /\ was.distribution # "off" => x.distribution = was.distribution
      /\ was.daily # "custom" => x.daily = was.daily
      /\ was.buildRegion # "far" => x.buildRegion = was.buildRegion /\ x.prior = was.prior
      /\ was.token => x.token = was.token
  BY <1>1, <1>4, <1>5
<1>10. x.analytics = was.analytics /\ x.quota = was.quota
  <2>1. was.monitoring \in BOOLEAN /\ was.analytics \in BOOLEAN /\ was.quota \in BOOLEAN
    BY ProfileFields
  <2>2. was.quota \/ was.analytics => was.monitoring
    BY DEF Fits
  <2>3. x.analytics = (was.monitoring /\ was.analytics) /\ x.quota = (was.monitoring /\ was.quota)
    BY <1>1, <1>4, <1>5
  <2>4. QED
    BY <2>1, <2>2, <2>3
<1>11. DOMAIN was \ {"alias", "chat", "distribution", "daily", "buildRegion", "prior", "token"} \subseteq
         {"auth", "port", "federation", "vpc", "mode", "limit", "bypass", "builds", "websearch",
          "desktop", "delivery", "target", "saml", "idp", "provider", "pool", "windows", "monitoring",
          "model", "client", "analytics", "quota", "failMode"}
  BY DEF Profile
<1>12. /\ "chat" \in Loose(was)
       /\ was.distribution = "off" => "distribution" \in Loose(was)
       /\ was.daily = "custom" => "daily" \in Loose(was)
       /\ was.buildRegion = "far" => "buildRegion" \in Loose(was) /\ "prior" \in Loose(was)
       /\ ~was.token => "token" \in Loose(was)
  BY DEF Loose
<1>13. QED
  BY <1>3, <1>6, <1>7, <1>8, <1>9, <1>10, <1>11, <1>12 DEF x

(* A region that is left, or that was left before, is kept in mind.        *)
LEMMA RegionsKept ==
    ASSUME NEW c, ConfigTyped(c), NEW a \in Answer, AuthFits(c), AwsFits(c),
           c.prior # Unset, c.buildRegion # Unset
    PROVE  Regions(c) \subseteq
             Regions(DistributionAnswers(DesktopAnswers(CodeBuildAnswers(c, a), a), a))
<1> DEFINE d == DistributionAnswers(DesktopAnswers(CodeBuildAnswers(c, a), a), a)
           region == Get(c, "buildRegion", "main")
           now == IF a.builds = "no" THEN region
                  ELSE IF c.windows \/ a.builds = "skip" THEN "main" ELSE a.builds
<1>1. /\ d.buildRegion = now
      /\ d.prior = IF region \in {"main", now} THEN Get(c, "prior", {})
                   ELSE Get(c, "prior", {}) \cup {region}
  BY FeaturesSection DEF FeaturesOutcome
<1> HIDE DEF d, now
<1>2. region = c.buildRegion /\ Get(c, "prior", {}) = c.prior
  BY DEF Get
<1>3. Regions(c) \subseteq Regions(d)
  BY <1>1, <1>2 DEF Regions
<1>4. QED
  BY <1>3 DEF d

-----------------------------------------------------------------------------
(* The invariant: the first state, and steps that ask nothing.             *)

LEMMA Blank ==
    /\ ConfigTyped(EmptyConfig) /\ MemoryTyped(NoProgress) /\ Kept(NoProgress)
    /\ Asleep.intent \in Intents
<1>1. ConfigTyped(EmptyConfig)
  BY DEF ConfigTyped, EmptyConfig, Of
<1>2. MemoryTyped(NoProgress) /\ Kept(NoProgress)
  BY <1>1 DEF MemoryTyped, Kept, NoProgress
<1>3. Asleep.intent \in Intents
  BY AnswersAssumption DEF Asleep
<1>4. QED
  BY <1>1, <1>2, <1>3

LEMMA ProfileNoMark == \A x \in Profile : IsProfile(x) /\ x # Absent /\ x # Broken
BY FilesAssumption DEF IsProfile

LEMMA OldFits ==
    ASSUME NEW p \in Names
    PROVE  OldProfile(p) \in Profile /\ Fits(OldProfile(p))
<1>1. OldProfile(p) \in Profile
  BY DEF OldProfile, Profile
<1>2. AuthFits(OldProfile(p))
  BY UnsetAssumption DEF OldProfile, AuthFits
<1>3. MonitoringFits(OldProfile(p))
  BY UnsetAssumption DEF OldProfile, MonitoringFits
<1>4. FeaturesFit(OldProfile(p))
  BY UnsetAssumption DEF OldProfile, FeaturesFit
<1>5. OldProfile(p).quota \/ OldProfile(p).analytics => OldProfile(p).monitoring
  BY DEF OldProfile
<1>6. QED
  BY <1>1, <1>2, <1>3, <1>4, <1>5 DEF Fits

(* A wizard that does not run, or has only begun, has nothing in use.      *)
LEMMA NothingInUse ==
    ASSUME wizard'.pc \in {"off", "asked"},
           wizard'.accepts /\ wizard'.pc = "asked" => IsProfile(store[wizard.name])'
    PROVE  Sections' /\ AnsweredAsMeant' /\ Updating' /\ Saving'
<1>1. wizard'.pc \notin InQuestions /\ wizard'.pc \notin {"write", "activate", "activating", "features"}
  BY DEF InQuestions
<1>2. /\ wizard'.pc \notin PastAuth /\ wizard'.pc \notin PastAws /\ wizard'.pc \notin PastMonitoring
      /\ wizard'.pc \notin PastFeatures /\ wizard'.pc \notin PastBedrock
  BY DEF InQuestions, PastAuth, PastAws, PastMonitoring, PastFeatures, PastBedrock
<1>3. Sections'
  BY <1>1, <1>2 DEF Sections, SectionsAt, Skipping
<1>4. AnsweredAsMeant'
  BY <1>2 DEF AnsweredAsMeant, MeantAt
<1>5. Updating'
  BY <1>1 DEF Updating
<1>6. Saving'
  BY <1>1 DEF Saving
<1>7. QED
  BY <1>3, <1>4, <1>5, <1>6

LEMMA WizardInvInit == WizardInit => WizardInv
<1> SUFFICES ASSUME WizardInit PROVE WizardInv
  OBVIOUS
<1>1. /\ store = [p \in Names |-> Absent] /\ active = NoName /\ progress = NoProgress /\ wizard = Asleep
  BY DEF WizardInit
<1>2. legacy \in [good: SUBSET Names, default: Names, pending: BOOLEAN]
  BY LegaciesAssumption DEF WizardInit
<1>3. WizardTyped
  BY <1>1, Blank, WizardAssumption DEF WizardTyped, Asleep, Places
<1>4. FilesTyped
  BY <1>1, <1>2, Blank DEF FilesTyped
<1>5. wizard.pc = "off" /\ wizard.memory = NoProgress
  BY <1>1 DEF Asleep
<1>6. Sections /\ AnsweredAsMeant /\ Updating /\ Saving
  BY <1>5 DEF Sections, SectionsAt, Skipping, AnsweredAsMeant, MeantAt, Updating, Saving,
              InQuestions, PastAuth, PastAws, PastMonitoring, PastFeatures, PastBedrock
<1>7. Progress /\ ProfilesFit /\ ActiveExists
  BY <1>1, <1>5, Blank DEF Progress, ProfilesFit, IsProfile, ActiveExists
<1>8. QED
  BY <1>3, <1>4, <1>6, <1>7 DEF WizardInv

LEMMA MigrateKeepsInv ==
    ASSUME WizardInv, Migrate
    PROVE  WizardInv'
<1>1. /\ wizard' = wizard /\ progress' = progress /\ wizard.pc = "off"
      /\ store' = [p \in Names |-> IF p \in legacy.good THEN OldProfile(p) ELSE store[p]]
      /\ active' = legacy.default /\ legacy' = [legacy EXCEPT !.pending = FALSE]
  BY DEF Migrate, Sleeping
<1>2. legacy \in [good: SUBSET Names, default: Names, pending: BOOLEAN]
  BY DEF WizardInv, FilesTyped
<1>3. /\ legacy' \in [good: SUBSET Names, default: Names, pending: BOOLEAN]
      /\ legacy'.default = legacy.default /\ legacy'.good = legacy.good
  BY <1>1, <1>2
<1>4. \A p \in Names : store'[p] \in {Absent, Broken} \/ store'[p] \in Profile
  BY <1>1, OldFits DEF WizardInv, FilesTyped
<1>5. WizardTyped' /\ FilesTyped'
  BY <1>1, <1>2, <1>3, <1>4 DEF WizardInv, WizardTyped, FilesTyped
<1>6. ProfilesFit'
  BY <1>1, OldFits DEF WizardInv, ProfilesFit
<1>7. Sections' /\ AnsweredAsMeant' /\ Updating' /\ Saving'
  BY <1>1, NothingInUse
<1>8. Progress'
  BY <1>1 DEF WizardInv, Progress
<1>9. ActiveExists'
  BY <1>1, <1>2, <1>3, OldFits, ProfileNoMark DEF ActiveExists, Files
<1>10. QED
  BY <1>5, <1>6, <1>7, <1>8, <1>9 DEF WizardInv

LEMMA BeginKeepsInv ==
    ASSUME WizardInv, NEW p \in Names, NEW accepts \in BOOLEAN, NEW a \in Intents, Begin(p, accepts, a)
    PROVE  WizardInv'
<1>1. /\ UNCHANGED <<store, active, legacy, progress>> /\ wizard.pc = "off" /\ wizard.inits < MaxInits
      /\ accepts => IsProfile(store[p])
      /\ wizard' = [wizard EXCEPT !.pc = "asked", !.name = p, !.accepts = accepts, !.intent = a,
                                  !.memory = progress, !.inits = @ + 1]
  BY DEF Begin, Sleeping
<1>2. /\ wizard'.pc = "asked" /\ wizard'.name = p /\ wizard'.accepts = accepts /\ wizard'.intent = a
      /\ wizard'.memory = progress /\ wizard'.inits = wizard.inits + 1 /\ wizard'.kills = wizard.kills
      /\ wizard'.update = wizard.update /\ wizard'.resumed = wizard.resumed
      /\ wizard'.config = wizard.config /\ DOMAIN wizard' = DOMAIN wizard
  BY <1>1 DEF WizardInv, WizardTyped
<1>3. wizard'.inits \in 0 .. MaxInits
  BY <1>1, <1>2, WizardAssumption DEF WizardInv, WizardTyped
<1>4. WizardTyped'
  BY <1>1, <1>2, <1>3 DEF WizardInv, WizardTyped, FilesTyped, Places
<1>5. FilesTyped' /\ ProfilesFit' /\ ActiveExists'
  BY <1>1 DEF WizardInv, FilesTyped, ProfilesFit, ActiveExists, Files
<1>6. Progress'
  BY <1>1, <1>2 DEF WizardInv, Progress
<1>7. Sections' /\ AnsweredAsMeant' /\ Updating' /\ Saving'
  BY <1>1, <1>2, NothingInUse
<1>8. QED
  BY <1>4, <1>5, <1>6, <1>7 DEF WizardInv

LEMMA FilesStay ==
    ASSUME WizardInv, UNCHANGED <<store, active, legacy>>, MemoryTyped(progress')
    PROVE  FilesTyped' /\ ProfilesFit' /\ ActiveExists'
BY DEF WizardInv, FilesTyped, ProfilesFit, ActiveExists, Files

LEMMA UpdateKeepsInv ==
    ASSUME WizardInv, Update
    PROVE  WizardInv'
<1> DEFINE was == store[wizard.name]
<1>1. /\ UNCHANGED <<store, active, legacy, progress>> /\ wizard.pc = "asked" /\ IsProfile(was)
      /\ wizard' = [wizard EXCEPT !.pc = "auth", !.update = TRUE, !.config = Restored(was)]
  BY DEF Update
<1>2. /\ wizard'.pc = "auth" /\ wizard'.name = wizard.name /\ wizard'.accepts = wizard.accepts
      /\ wizard'.intent = wizard.intent /\ wizard'.memory = wizard.memory
      /\ wizard'.inits = wizard.inits /\ wizard'.kills = wizard.kills
      /\ wizard'.update = TRUE /\ wizard'.resumed = wizard.resumed
      /\ wizard'.config = Restored(was) /\ DOMAIN wizard' = DOMAIN wizard
  BY <1>1 DEF WizardInv, WizardTyped
<1>3. wizard.name \in Names /\ was \in Profile
  BY <1>1 DEF WizardInv, WizardTyped, FilesTyped, IsProfile
<1>4. WizardTyped'
  BY <1>1, <1>2, <1>3, RestoredTyped DEF WizardInv, WizardTyped, Places, InQuestions
<1>5. FilesTyped' /\ ProfilesFit' /\ ActiveExists'
  BY <1>1, FilesStay DEF WizardInv, FilesTyped
<1>6. Progress'
  BY <1>1, <1>2 DEF WizardInv, Progress
<1>7. Sections' /\ AnsweredAsMeant' /\ Saving'
  BY <1>2 DEF Sections, SectionsAt, Skipping, AnsweredAsMeant, MeantAt, Saving,
              InQuestions, PastAuth, PastAws, PastMonitoring, PastFeatures, PastBedrock
<1>8. Updating'
  <2>1. store'[wizard'.name] = was
    BY <1>1, <1>2
  <2>2. Restored(was).prior = was.prior /\ Restored(was).buildRegion = was.buildRegion
        /\ Restored(was).distribution = was.distribution
    BY <1>3, RestoredTyped DEF Keys
  <2>3. was.prior # Unset /\ was.buildRegion # Unset
    BY <1>3, ProfileFields, UnsetAssumption
  <2>4. Regions(was) \subseteq Regions(Restored(was))
    BY <2>2 DEF Regions
  <2>5. Follows(Restored(was), was)
    BY DEF Follows
  <2>6. KeptFrom(was)'
    BY <1>1, <1>2, <2>2, <2>5 DEF KeptFrom
  <2>7. QED
    BY <1>1, <1>2, <2>1, <2>2, <2>3, <2>4, <2>6 DEF Updating
<1>9. QED
  BY <1>4, <1>5, <1>6, <1>7, <1>8 DEF WizardInv

LEMMA StartFreshKeepsInv ==
    ASSUME WizardInv, StartFresh
    PROVE  WizardInv'
<1>1. /\ UNCHANGED <<store, active, legacy>> /\ wizard.pc = "asked" /\ ~wizard.accepts
      /\ progress' \in {progress, NoProgress}
      /\ wizard' = [wizard EXCEPT !.pc = "auth", !.config = EmptyConfig, !.memory = NoProgress]
  BY DEF StartFresh
<1>2. /\ wizard'.pc = "auth" /\ wizard'.name = wizard.name /\ wizard'.accepts = wizard.accepts
      /\ wizard'.intent = wizard.intent /\ wizard'.memory = NoProgress
      /\ wizard'.inits = wizard.inits /\ wizard'.kills = wizard.kills
      /\ wizard'.update = wizard.update /\ wizard'.resumed = wizard.resumed
      /\ wizard'.config = EmptyConfig /\ DOMAIN wizard' = DOMAIN wizard
  BY <1>1 DEF WizardInv, WizardTyped
<1>3. ~wizard.update
  BY <1>1 DEF WizardInv, WizardTyped
<1>4. WizardTyped'
  BY <1>1, <1>2, Blank DEF WizardInv, WizardTyped, Places, InQuestions
<1>5. FilesTyped' /\ ProfilesFit' /\ ActiveExists'
  BY <1>1, FilesStay, Blank DEF WizardInv, FilesTyped
<1>6. Progress'
  BY <1>1, <1>2, Blank DEF WizardInv, Progress
<1>7. Sections' /\ AnsweredAsMeant' /\ Saving'
  BY <1>2 DEF Sections, SectionsAt, Skipping, AnsweredAsMeant, MeantAt, Saving,
              InQuestions, PastAuth, PastAws, PastMonitoring, PastFeatures, PastBedrock
<1>8. Updating'
  BY <1>1, <1>2, <1>3 DEF Updating
<1>9. QED
  BY <1>4, <1>5, <1>6, <1>7, <1>8 DEF WizardInv

LEMMA ResumeKeepsInv ==
    ASSUME WizardInv, Resume
    PROVE  WizardInv'
<1> DEFINE last == wizard.memory.last
           data == wizard.memory.data
<1>1. /\ UNCHANGED <<store, active, legacy, progress>> /\ wizard.pc = "asked"
      /\ ~IsProfile(store[wizard.name]) /\ last # "start"
      /\ wizard' = [wizard EXCEPT !.pc = ResumeAt(last), !.resumed = TRUE, !.config = data]
  BY DEF Resume
<1>2. /\ wizard'.pc = ResumeAt(last) /\ wizard'.name = wizard.name /\ wizard'.accepts = wizard.accepts
      /\ wizard'.intent = wizard.intent /\ wizard'.memory = wizard.memory
      /\ wizard'.inits = wizard.inits /\ wizard'.kills = wizard.kills
      /\ wizard'.update = wizard.update /\ wizard'.resumed = TRUE
      /\ wizard'.config = data /\ DOMAIN wizard' = DOMAIN wizard
  BY <1>1 DEF WizardInv, WizardTyped
<1>3. ~wizard.update /\ ~wizard.accepts
  BY <1>1 DEF WizardInv, WizardTyped, Updating
<1>4. last \in {"oidc", "aws", "monitoring", "bedrock"} /\ ConfigTyped(data)
  BY <1>1 DEF WizardInv, WizardTyped, MemoryTyped
<1>5. ResumeAt(last) = IF last = "aws" THEN "monitoring"
                       ELSE IF last \in {"monitoring", "bedrock"} THEN "features" ELSE "auth"
  BY <1>4 DEF ResumeAt
<1>6. WizardTyped'
  BY <1>1, <1>2, <1>4, <1>5 DEF WizardInv, WizardTyped, Places, InQuestions
<1>7. FilesTyped' /\ ProfilesFit' /\ ActiveExists'
  BY <1>1, FilesStay DEF WizardInv, FilesTyped
<1>8. Progress'
  BY <1>1, <1>2, <1>5 DEF WizardInv, Progress
<1>9. Kept(wizard.memory)
  BY DEF WizardInv, Progress
<1>10. SectionsAt(ResumeAt(last), data)
  BY <1>4, <1>5, <1>9 DEF SectionsAt, Kept,
              InQuestions, PastAuth, PastAws, PastMonitoring, PastFeatures, PastBedrock
<1>11. Sections'
  BY <1>2, <1>9, <1>10 DEF Sections, Skipping, Kept
<1>12. AnsweredAsMeant' /\ Saving' /\ Updating'
  BY <1>2, <1>3, <1>5 DEF AnsweredAsMeant, Saving, Updating
<1>13. QED
  BY <1>6, <1>7, <1>8, <1>11, <1>12 DEF WizardInv

-----------------------------------------------------------------------------
(* The invariant: the questions.                                           *)

(* A section that is over: what d must be for the invariant to stay.       *)
LEMMA KeepKeepsInv ==
    ASSUME WizardInv, wizard.pc \in {"auth", "aws", "monitoring", "bedrock"},
           NEW step \in {"oidc", "aws", "monitoring", "bedrock"}, NEW d, ConfigTyped(d),
           NEW next \in {"keepAuth", "keepAws", "keepMonitoring", "keepBedrock"}, Keep(step, d, next),
           SectionsAt(next, d),
           step \in {"aws", "monitoring", "bedrock"} => AuthFits(d) /\ AwsFits(d),
           step \in {"monitoring", "bedrock"} => AuthFits(d) /\ MonitoringFits(d),
           step = "bedrock" => ModelFits(d),
           next = "keepMonitoring" => step = "monitoring",
           ~wizard.accepts /\ ~wizard.resumed => MeantAt(next, d, wizard.intent, wizard.name),
           d.prior = wizard.config.prior, d.buildRegion = wizard.config.buildRegion,
           next # "keepBedrock" => wizard.pc # "bedrock" /\ d.distribution = wizard.config.distribution,
           wizard.accepts => Follows(d, store[wizard.name])
    PROVE  WizardInv'
<1> DEFINE memory == [last |-> step, data |-> Merged(wizard.memory.data, d)]
<1>1. /\ progress' = NoProgress /\ UNCHANGED <<store, active, legacy>>
      /\ wizard' = [wizard EXCEPT !.pc = next, !.config = d, !.memory = memory]
  BY DEF Keep
<1>2. ConfigTyped(wizard.memory.data) /\ ConfigTyped(wizard.config)
  BY DEF WizardInv, WizardTyped, MemoryTyped
<1>3. memory.last = step /\ memory.data = Merged(wizard.memory.data, d)
  OBVIOUS
<1> HIDE DEF memory
<1>4. /\ wizard'.pc = next /\ wizard'.name = wizard.name /\ wizard'.accepts = wizard.accepts
      /\ wizard'.intent = wizard.intent /\ wizard'.memory = memory
      /\ wizard'.inits = wizard.inits /\ wizard'.kills = wizard.kills
      /\ wizard'.update = wizard.update /\ wizard'.resumed = wizard.resumed
      /\ wizard'.config = d /\ DOMAIN wizard' = DOMAIN wizard
  BY <1>1 DEF WizardInv, WizardTyped
<1>5. MemoryTyped(memory)
  BY <1>2, <1>3, MergedFits DEF MemoryTyped
<1>6. Kept(memory)
  BY <1>2, <1>3, MergedFits DEF Kept
<1>7. next \in InQuestions /\ next # "features"
  BY DEF InQuestions
<1>8. WizardTyped'
  BY <1>4, <1>5, <1>7 DEF WizardInv, WizardTyped, Places
<1>9. FilesTyped' /\ ProfilesFit' /\ ActiveExists'
  BY <1>1, FilesStay, Blank
<1>10. Progress'
  BY <1>1, <1>3, <1>4, <1>6, Blank DEF Progress
<1>11. Sections'
  BY <1>4, <1>7 DEF Sections, Skipping
<1>12. AnsweredAsMeant'
  BY <1>4 DEF AnsweredAsMeant
<1>13. Saving'
  BY <1>4, <1>7 DEF Saving
<1>14. Updating'
  <2>1. wizard.pc \in InQuestions
    BY DEF InQuestions
  <2>2. Regions(d) = Regions(wizard.config)
    BY DEF Regions
  <2>3. ASSUME wizard.accepts
        PROVE  KeptFrom(store[wizard.name])'
    <3>1. KeptFrom(store[wizard.name])
      BY <2>1, <2>3 DEF WizardInv, Updating
    <3>2. CASE next = "keepBedrock"
      BY <1>1, <1>4, <2>3, <3>2 DEF KeptFrom, PastFeatures
    <3>3. CASE next # "keepBedrock"
      <4>1. wizard.pc \notin PastFeatures
        BY <3>3 DEF PastFeatures
      <4>2. d.distribution = store[wizard.name].distribution
        BY <3>1, <3>3, <4>1 DEF KeptFrom
      <4>3. QED
        BY <1>1, <1>4, <2>3, <4>2 DEF KeptFrom
    <3>4. QED
      BY <3>2, <3>3
  <2>4. wizard.accepts => IsProfile(store[wizard.name])
    BY <2>1 DEF WizardInv, Updating
  <2>5. wizard.update =>
          /\ IsProfile(store[wizard.name])
          /\ wizard.config.prior # Unset /\ wizard.config.buildRegion # Unset
          /\ Regions(store[wizard.name]) \subseteq Regions(wizard.config)
    BY <2>1 DEF WizardInv, Updating
  <2>6. QED
    BY <1>1, <1>4, <1>7, <2>2, <2>3, <2>4, <2>5 DEF Updating
<1>15. QED
  BY <1>8, <1>9, <1>10, <1>11, <1>12, <1>13, <1>14 DEF WizardInv

(* What the questions build on.                                            *)
LEMMA Asking ==
    ASSUME WizardInv, wizard.pc \in InQuestions
    PROVE  /\ Given \in Answer /\ wizard.intent \in Answer /\ ConfigTyped(wizard.config) /\ wizard.name \in Names
           /\ wizard.accepts \in BOOLEAN
           /\ ~wizard.accepts => Given = wizard.intent
           /\ wizard.accepts => /\ Given = Defaults(wizard.config, wizard.name)
                                /\ store[wizard.name] \in Profile /\ Fits(store[wizard.name])
                                /\ Follows(wizard.config, store[wizard.name])
                                /\ wizard.pc \notin PastFeatures =>
                                     wizard.config.distribution = store[wizard.name].distribution
<1>1. Given \in Answer
  BY GivenTyped DEF WizardInv
<1>2. wizard.pc # "off"
  BY DEF InQuestions
<1>3. /\ ConfigTyped(wizard.config) /\ wizard.name \in Names /\ wizard.intent \in Answer
      /\ wizard.accepts \in BOOLEAN
  BY <1>2, AnswersAssumption DEF WizardInv, WizardTyped
<1>4. ASSUME wizard.accepts
      PROVE  /\ IsProfile(store[wizard.name]) /\ KeptFrom(store[wizard.name])
             /\ store[wizard.name] \in Profile /\ Fits(store[wizard.name])
  <2>1. IsProfile(store[wizard.name]) /\ KeptFrom(store[wizard.name])
    BY <1>4 DEF WizardInv, Updating
  <2>2. store[wizard.name] \in Profile
    BY <1>3, <2>1 DEF WizardInv, FilesTyped, IsProfile
  <2>3. Fits(store[wizard.name])
    BY <1>3, <2>1 DEF WizardInv, ProfilesFit
  <2>4. QED
    BY <2>1, <2>2, <2>3
<1>5. QED
  BY <1>1, <1>3, <1>4 DEF Given, KeptFrom

LEMMA AskAuthKeepsInv ==
    ASSUME WizardInv, AskAuth
    PROVE  WizardInv'
<1> DEFINE c == wizard.config
           d == AuthAnswers(c, Given)
<1>1. wizard.pc = "auth" /\ wizard.pc \in InQuestions
  BY DEF AskAuth, Asks, InQuestions
<1>2. Given \in Answer /\ ConfigTyped(c)
  BY <1>1, Asking
<1>3. ConfigTyped(d) /\ AuthFits(d)
  BY <1>2, AuthAsked, AuthSection
<1>4. /\ \A k \in Keys \ {"auth", "provider", "client", "port", "federation"} : d[k] = c[k]
      /\ d.auth = Given.auth
  BY <1>2, AuthAsked
<1>5. SectionsAt("keepAuth", d) /\ SectionsAt("aws", d)
  BY <1>3 DEF SectionsAt, InQuestions, PastAuth, PastAws, PastMonitoring, PastFeatures, PastBedrock
<1>6. ~wizard.accepts => /\ MeantAt("keepAuth", d, wizard.intent, wizard.name)
                         /\ MeantAt("aws", d, wizard.intent, wizard.name)
  BY <1>1, <1>4, Asking
     DEF MeantAt, MeantAuth, InQuestions, PastAuth, PastAws, PastMonitoring, PastFeatures, PastBedrock
<1>7. d.prior = c.prior /\ d.buildRegion = c.buildRegion /\ d.distribution = c.distribution
  BY <1>4 DEF Keys
<1>8. wizard.accepts => Follows(d, store[wizard.name])
  BY <1>1, Asking, AuthAccepted
<1>9. CASE Given.auth = "oidc"
  <2>1. Keep("oidc", d, "keepAuth")
    BY <1>9 DEF AskAuth
  <2> HIDE DEF d
  <2>2. QED
    BY <1>1, <1>3, <1>5, <1>6, <1>7, <1>8, <2>1, KeepKeepsInv
<1>10. CASE Given.auth # "oidc"
  <2>1. /\ UNCHANGED <<store, active, legacy, progress>>
        /\ wizard' = [wizard EXCEPT !.pc = "aws", !.config = d]
    BY <1>10 DEF AskAuth
  <2> HIDE DEF d
  <2>2. /\ wizard'.pc = "aws" /\ wizard'.name = wizard.name /\ wizard'.accepts = wizard.accepts
        /\ wizard'.intent = wizard.intent /\ wizard'.memory = wizard.memory
        /\ wizard'.inits = wizard.inits /\ wizard'.kills = wizard.kills
        /\ wizard'.update = wizard.update /\ wizard'.resumed = wizard.resumed
        /\ wizard'.config = d /\ DOMAIN wizard' = DOMAIN wizard
    BY <2>1 DEF WizardInv, WizardTyped
  <2>3. "aws" \in InQuestions /\ "aws" \notin PastFeatures /\ wizard.pc \notin PastFeatures
    BY <1>1 DEF InQuestions, PastFeatures
  <2>4. WizardTyped'
    BY <1>1, <1>3, <2>1, <2>2, <2>3 DEF WizardInv, WizardTyped, Places
  <2>5. FilesTyped' /\ ProfilesFit' /\ ActiveExists'
    BY <2>1, FilesStay DEF WizardInv, FilesTyped
  <2>6. Progress'
    BY <2>1, <2>2 DEF WizardInv, Progress
  <2>7. Sections'
    BY <1>5, <2>2 DEF Sections, Skipping
  <2>8. AnsweredAsMeant'
    BY <1>6, <2>2 DEF AnsweredAsMeant
  <2>9. Saving'
    BY <2>2 DEF Saving
  <2>10. Updating'
    <3>1. wizard.accepts => IsProfile(store[wizard.name]) /\ KeptFrom(store[wizard.name])
      BY <1>1 DEF WizardInv, Updating
    <3>2. wizard.accepts => KeptFrom(store[wizard.name])'
      BY <1>7, <1>8, <2>1, <2>2, <2>3, <3>1 DEF KeptFrom
    <3>3. wizard.update =>
            /\ IsProfile(store[wizard.name])
            /\ c.prior # Unset /\ c.buildRegion # Unset
            /\ Regions(store[wizard.name]) \subseteq Regions(c)
      BY <1>1 DEF WizardInv, Updating
    <3>4. Regions(d) = Regions(c)
      BY <1>7 DEF Regions
    <3>5. QED
      BY <1>7, <2>1, <2>2, <3>1, <3>2, <3>3, <3>4 DEF Updating
  <2>11. QED
    BY <2>4, <2>5, <2>6, <2>7, <2>8, <2>9, <2>10 DEF WizardInv
<1>11. QED
  BY <1>9, <1>10

LEMMA AskAwsKeepsInv ==
    ASSUME WizardInv, AskAws
    PROVE  WizardInv'
<1> DEFINE c == wizard.config
           d == AwsAnswers(c, Given, wizard.name)
<1>1. wizard.pc = "aws" /\ Keep("aws", d, "keepAws")
  BY DEF AskAws, Asks
<1>2. wizard.pc \in InQuestions
  BY <1>1 DEF InQuestions
<1>3. Given \in Answer /\ ConfigTyped(c) /\ wizard.name \in Names /\ wizard.accepts \in BOOLEAN
  BY <1>2, Asking
<1>4. AuthFits(c)
  BY <1>1 DEF WizardInv, Sections, SectionsAt, InQuestions, PastAuth
<1>5. ConfigTyped(d) /\ AuthFits(d) /\ AwsFits(d)
  BY <1>3, <1>4, AwsAsked, AwsSection
<1>6. /\ \A k \in Keys \ {"pool", "windows"} : d[k] = c[k]
      /\ d.pool = IF wizard.accepts THEN Get(c, "pool", wizard.name) ELSE wizard.name
      /\ d.windows = Given.windows
  BY <1>3, AwsAsked
<1>7. SectionsAt("keepAws", d)
  BY <1>5 DEF SectionsAt, InQuestions, PastAuth, PastAws, PastMonitoring, PastFeatures, PastBedrock
<1>8. d.auth = c.auth /\ d.prior = c.prior /\ d.buildRegion = c.buildRegion /\ d.distribution = c.distribution
  BY <1>6 DEF Keys
<1>9. ASSUME ~wizard.accepts, ~wizard.resumed
      PROVE  MeantAt("keepAws", d, wizard.intent, wizard.name)
  <2>1. MeantAuth(c, wizard.intent)
    BY <1>1, <1>9 DEF WizardInv, AnsweredAsMeant, MeantAt, InQuestions, PastAuth
  <2>2. MeantAuth(d, wizard.intent) /\ MeantAws(d, wizard.intent, wizard.name)
    BY <1>2, <1>6, <1>8, <1>9, <2>1, Asking DEF MeantAuth, MeantAws
  <2>3. QED
    BY <2>2 DEF MeantAt, InQuestions, PastAuth, PastAws, PastMonitoring, PastFeatures, PastBedrock
<1>10. wizard.accepts => Follows(d, store[wizard.name])
  BY <1>2, <1>3, Asking, AwsAccepted
<1> HIDE DEF d
<1>11. QED
  BY <1>1, <1>5, <1>7, <1>8, <1>9, <1>10, KeepKeepsInv

LEMMA AskMonitoringKeepsInv ==
    ASSUME WizardInv, AskMonitoring
    PROVE  WizardInv'
<1> DEFINE c == wizard.config
           a == Given
<1>1. PICK vpc \in ConfigureVpc(c, a) :
          Keep("monitoring", QuotaAnswers(MonitoringAnswers(c, a, vpc), a), "keepMonitoring")
  BY DEF AskMonitoring
<1> DEFINE d == QuotaAnswers(MonitoringAnswers(c, a, vpc), a)
<1>2. wizard.pc = "monitoring" /\ wizard.pc \in InQuestions
  BY DEF AskMonitoring, Asks, InQuestions
<1>3. a \in Answer /\ ConfigTyped(c)
  BY <1>2, Asking
<1>4. AuthFits(c) /\ AwsFits(c)
  BY <1>2 DEF WizardInv, Sections, SectionsAt, InQuestions, PastAuth, PastAws
<1>5. wizard.accepts => Follows(d, store[wizard.name])
  BY <1>2, <1>3, Asking, MonitoringAccepted
<1>6. ~wizard.accepts => a = wizard.intent
  BY <1>2, Asking
<1> HIDE DEF a
<1>7. /\ ConfigTyped(d) /\ MonitoringFits(d)
      /\ \A k \in Keys \ {"monitoring", "mode", "vpc", "analytics", "quota", "limit", "daily",
                          "bypass"} : d[k] = c[k]
      /\ d.monitoring = (a.monitoring # "off")
      /\ a.monitoring # "off" =>
            /\ d.mode = a.monitoring
            /\ d.analytics = (a.monitoring = "central" /\ a.analytics)
            /\ d.quota = (a.quota # "off" /\ c.auth # "none")
      /\ QuotaWanted(c, a) => d.limit = a.quota
  BY <1>3, MonitoringSection
<1>8. Keep("monitoring", d, "keepMonitoring")
  BY <1>1
<1> HIDE DEF d
<1>9. /\ d.auth = c.auth /\ d.provider = c.provider /\ d.client = c.client /\ d.pool = c.pool
      /\ d.windows = c.windows
      /\ d.prior = c.prior /\ d.buildRegion = c.buildRegion /\ d.distribution = c.distribution
  BY <1>7 DEF Keys
<1>10. AuthFits(d) /\ AwsFits(d)
  BY <1>4, <1>9 DEF AuthFits, AwsFits
<1>11. SectionsAt("keepMonitoring", d)
  BY <1>7, <1>10 DEF SectionsAt, InQuestions, PastAuth, PastAws, PastMonitoring, PastFeatures, PastBedrock
<1>12. ASSUME ~wizard.accepts, ~wizard.resumed
       PROVE  MeantAt("keepMonitoring", d, wizard.intent, wizard.name)
  <2>1. MeantAuth(c, wizard.intent) /\ MeantAws(c, wizard.intent, wizard.name)
    BY <1>2, <1>12 DEF WizardInv, AnsweredAsMeant, MeantAt, InQuestions, PastAuth, PastAws
  <2>2. MeantAuth(d, a) /\ MeantAws(d, a, wizard.name)
    BY <1>6, <1>9, <1>12, <2>1 DEF MeantAuth, MeantAws
  <2>3. a.auth = c.auth
    BY <1>6, <1>12, <2>1 DEF MeantAuth
  <2>4. MeantMonitoring(d, a)
    BY <1>7, <2>3 DEF MeantMonitoring, QuotaWanted
  <2>5. QED
    BY <1>6, <1>12, <2>2, <2>4
       DEF MeantAt, InQuestions, PastAuth, PastAws, PastMonitoring, PastFeatures, PastBedrock
<1>13. QED
  BY <1>2, <1>5, <1>7, <1>8, <1>9, <1>10, <1>11, <1>12, KeepKeepsInv

LEMMA AskBedrockKeepsInv ==
    ASSUME WizardInv, AskBedrock
    PROVE  WizardInv'
<1> DEFINE c == wizard.config
           d == ModelAnswers(c, Given)
<1>1. wizard.pc = "bedrock" /\ Keep("bedrock", d, "keepBedrock")
  BY DEF AskBedrock, Asks
<1>2. wizard.pc \in InQuestions
  BY <1>1 DEF InQuestions
<1>3. Given \in Answer /\ ConfigTyped(c)
  BY <1>2, Asking
<1>4. AuthFits(c) /\ AwsFits(c) /\ MonitoringFits(c) /\ FeaturesFit(c)
  BY <1>1 DEF WizardInv, Sections, SectionsAt, InQuestions, PastAuth, PastAws, PastMonitoring, PastFeatures
<1>5. wizard.accepts => Follows(d, store[wizard.name])
  BY <1>2, <1>3, Asking, ModelAccepted
<1>6. ConfigTyped(d) /\ d.model = Given.model /\ \A k \in Keys \ {"model"} : d[k] = c[k]
  BY <1>3, ModelAsked
<1> HIDE DEF d
<1>7. ModelFits(d)
  BY <1>3, <1>6, AnswersSet DEF ModelFits
<1>8. AuthFits(d) /\ AwsFits(d) /\ MonitoringFits(d) /\ FeaturesFit(d)
  <2>1. \A k \in {"auth", "provider", "client", "pool", "windows", "monitoring", "mode", "vpc", "analytics",
                  "quota", "limit", "daily", "bypass", "builds", "buildRegion", "websearch",
                  "distribution", "saml", "idp"} : d[k] = c[k]
    BY <1>6 DEF Keys
  <2>2. AuthFits(d) /\ AwsFits(d)
    BY <1>4, <2>1, FitsKept
  <2>3. MonitoringFits(d)
    BY <1>4, <2>1, FitsKept
  <2>4. FeaturesFit(d)
    BY <1>4, <2>1, FitsKept
  <2>5. QED
    BY <2>2, <2>3, <2>4
<1>9. SectionsAt("keepBedrock", d)
  BY <1>7, <1>8 DEF SectionsAt
<1>10. ASSUME ~wizard.accepts, ~wizard.resumed
       PROVE  MeantAt("keepBedrock", d, wizard.intent, wizard.name)
  <2>1. /\ MeantAuth(c, wizard.intent) /\ MeantAws(c, wizard.intent, wizard.name)
        /\ MeantMonitoring(c, wizard.intent) /\ MeantFeatures(c, wizard.intent)
    BY <1>1, <1>10
       DEF WizardInv, AnsweredAsMeant, MeantAt, InQuestions, PastAuth, PastAws, PastMonitoring, PastFeatures
  <2>2. /\ d.auth = c.auth /\ d.pool = c.pool /\ d.windows = c.windows /\ d.monitoring = c.monitoring
        /\ d.mode = c.mode /\ d.analytics = c.analytics /\ d.quota = c.quota /\ d.limit = c.limit
        /\ d.builds = c.builds /\ d.buildRegion = c.buildRegion /\ d.websearch = c.websearch
        /\ d.distribution = c.distribution /\ d.saml = c.saml /\ d.idp = c.idp
    BY <1>6 DEF Keys
  <2>3. MeantAuth(d, wizard.intent) /\ MeantAws(d, wizard.intent, wizard.name)
    BY <2>1, <2>2 DEF MeantAuth, MeantAws
  <2>4. MeantMonitoring(d, wizard.intent)
    BY <2>1, <2>2 DEF MeantMonitoring
  <2>5. MeantFeatures(d, wizard.intent)
    BY <2>1, <2>2 DEF MeantFeatures
  <2>6. MeantModel(d, wizard.intent)
    BY <1>2, <1>6, <1>10, Asking DEF MeantModel
  <2>7. QED
    BY <2>3, <2>4, <2>5, <2>6 DEF MeantAt
<1>11. d.prior = c.prior /\ d.buildRegion = c.buildRegion
  BY <1>6 DEF Keys
<1>12. QED
  BY <1>1, <1>5, <1>6, <1>7, <1>8, <1>9, <1>10, <1>11, KeepKeepsInv

LEMMA AskFeaturesKeepsInv ==
    ASSUME WizardInv, AskFeatures
    PROVE  WizardInv'
<1> DEFINE c == wizard.config
           a == Given
           d == DistributionAnswers(DesktopAnswers(CodeBuildAnswers(c, a), a), a)
           next == IF wizard.resumed /\ wizard.memory.last = "bedrock" THEN "review" ELSE "bedrock"
<1>1. /\ wizard.pc = "features" /\ UNCHANGED <<store, active, legacy, progress>>
      /\ wizard' = [wizard EXCEPT !.pc = next, !.config = d]
  BY DEF AskFeatures, Asks
<1>2. wizard.pc \in InQuestions /\ wizard.pc \notin PastFeatures
  BY <1>1 DEF InQuestions, PastFeatures
<1>3. a \in Answer /\ ConfigTyped(c)
  BY <1>2, Asking
<1>4. AuthFits(c) /\ AwsFits(c) /\ MonitoringFits(c)
  BY <1>1 DEF WizardInv, Sections, SectionsAt, InQuestions, PastAuth, PastAws, PastMonitoring
<1>5. next = "review" => ModelFits(c)
  BY <1>1 DEF WizardInv, Sections, Skipping
<1>6. wizard.accepts => Follows(d, store[wizard.name])
  BY <1>2, <1>3, <1>4, Asking, FeaturesAccepted
<1>7. c.prior # Unset /\ c.buildRegion # Unset => Regions(c) \subseteq Regions(d)
  BY <1>3, <1>4, RegionsKept
<1>8. FeaturesOutcome(c, a, d)
  BY <1>3, <1>4, FeaturesSection
<1>9. ~wizard.accepts => a = wizard.intent
  BY <1>2, Asking
<1>10. next \in {"review", "bedrock"} /\ (~wizard.resumed => next = "bedrock")
  OBVIOUS
<1> HIDE DEF d, a, next
<1>11. /\ wizard'.pc = next /\ wizard'.name = wizard.name /\ wizard'.accepts = wizard.accepts
       /\ wizard'.intent = wizard.intent /\ wizard'.memory = wizard.memory
       /\ wizard'.inits = wizard.inits /\ wizard'.kills = wizard.kills
       /\ wizard'.update = wizard.update /\ wizard'.resumed = wizard.resumed
       /\ wizard'.config = d /\ DOMAIN wizard' = DOMAIN wizard
  BY <1>1 DEF WizardInv, WizardTyped
<1>12. next \in InQuestions /\ next \in PastFeatures
  BY <1>10 DEF InQuestions, PastFeatures
<1>13. ConfigTyped(d) /\ FeaturesFit(d) /\ d.prior # Unset /\ d.buildRegion # Unset
  BY <1>8 DEF FeaturesOutcome
<1>14. \A k \in {"auth", "provider", "client", "pool", "windows", "monitoring", "mode", "vpc", "analytics",
                 "quota", "limit", "daily", "bypass", "model"} : d[k] = c[k]
  BY <1>8 DEF FeaturesOutcome, Keys
<1>15. WizardTyped'
  BY <1>1, <1>10, <1>11, <1>12, <1>13 DEF WizardInv, WizardTyped, Places
<1>16. FilesTyped' /\ ProfilesFit' /\ ActiveExists'
  BY <1>1, FilesStay DEF WizardInv, FilesTyped
<1>17. Progress'
  BY <1>1, <1>10, <1>11 DEF WizardInv, Progress
<1>18. Sections'
  <2>1. AuthFits(d) /\ AwsFits(d)
    BY <1>4, <1>14, FitsKept
  <2>2. MonitoringFits(d)
    BY <1>4, <1>14, FitsKept
  <2>3. next = "review" => ModelFits(d)
    BY <1>5, <1>14, FitsKept
  <2>4. SectionsAt(next, d)
    BY <1>10, <1>13, <2>1, <2>2, <2>3 DEF SectionsAt, PastBedrock
  <2>5. QED
    BY <1>10, <1>11, <2>4 DEF Sections, Skipping
<1>19. AnsweredAsMeant'
  <2> SUFFICES ASSUME ~wizard.accepts, ~wizard.resumed
               PROVE  MeantAt(next, d, wizard.intent, wizard.name)
    BY <1>11 DEF AnsweredAsMeant
  <2>1. /\ MeantAuth(c, wizard.intent) /\ MeantAws(c, wizard.intent, wizard.name)
        /\ MeantMonitoring(c, wizard.intent)
    BY <1>1 DEF WizardInv, AnsweredAsMeant, MeantAt, InQuestions, PastAuth, PastAws, PastMonitoring
  <2>2. /\ d.auth = c.auth /\ d.pool = c.pool /\ d.windows = c.windows /\ d.monitoring = c.monitoring
        /\ d.mode = c.mode /\ d.analytics = c.analytics /\ d.quota = c.quota /\ d.limit = c.limit
    BY <1>14
  <2>3. MeantAuth(d, wizard.intent) /\ MeantAws(d, wizard.intent, wizard.name)
    BY <2>1, <2>2 DEF MeantAuth, MeantAws
  <2>4. MeantMonitoring(d, wizard.intent)
    BY <2>1, <2>2 DEF MeantMonitoring
  <2>5. a.auth = c.auth /\ a.windows = c.windows /\ a = wizard.intent
    BY <1>9, <2>1 DEF MeantAuth, MeantAws
  <2>6. MeantFeatures(d, a)
    BY <1>8, <2>5 DEF FeaturesOutcome, MeantFeatures
  <2>7. next \notin PastBedrock
    BY <1>10 DEF PastBedrock
  <2>8. QED
    BY <2>3, <2>4, <2>5, <2>6, <2>7 DEF MeantAt
<1>20. Saving'
  BY <1>10, <1>11 DEF Saving
<1>21. Updating'
  <2>1. wizard.accepts => IsProfile(store[wizard.name]) /\ KeptFrom(store[wizard.name])'
    BY <1>1, <1>2, <1>6, <1>11, <1>12 DEF WizardInv, Updating, KeptFrom
  <2>2. wizard.update => /\ IsProfile(store[wizard.name])
                         /\ Regions(store[wizard.name]) \subseteq Regions(d)
    BY <1>2, <1>7 DEF WizardInv, Updating
  <2>3. QED
    BY <1>1, <1>11, <1>13, <2>1, <2>2 DEF Updating
<1>22. QED
  BY <1>15, <1>16, <1>17, <1>18, <1>19, <1>20, <1>21 DEF WizardInv

LEMMA WriteProgressKeepsInv ==
    ASSUME WizardInv, WriteProgress
    PROVE  WizardInv'
<1> DEFINE next == After[wizard.pc]
<1>1. /\ wizard.pc \in {"keepAuth", "keepAws", "keepMonitoring", "keepBedrock"}
      /\ progress' = wizard.memory /\ UNCHANGED <<store, active, legacy>>
      /\ wizard' = [wizard EXCEPT !.pc = next]
  BY DEF WriteProgress, After, WizardInv, WizardTyped
<1>2. /\ wizard.pc = "keepAuth" => next = "aws"
      /\ wizard.pc = "keepAws" => next = "monitoring"
      /\ wizard.pc = "keepMonitoring" => next = "features"
      /\ wizard.pc = "keepBedrock" => next = "review"
  BY DEF After
<1> HIDE DEF next
<1>3. /\ wizard'.pc = next /\ wizard'.name = wizard.name /\ wizard'.accepts = wizard.accepts
      /\ wizard'.intent = wizard.intent /\ wizard'.memory = wizard.memory
      /\ wizard'.inits = wizard.inits /\ wizard'.kills = wizard.kills
      /\ wizard'.update = wizard.update /\ wizard'.resumed = wizard.resumed
      /\ wizard'.config = wizard.config /\ DOMAIN wizard' = DOMAIN wizard
  BY <1>1 DEF WizardInv, WizardTyped
<1>4. next \in {"aws", "monitoring", "features", "review"} /\ next \in InQuestions /\ wizard.pc \in InQuestions
  BY <1>1, <1>2 DEF InQuestions
<1>5. /\ next \in PastAuth <=> wizard.pc \in PastAuth
      /\ next \in PastAws <=> wizard.pc \in PastAws
      /\ next \in PastMonitoring <=> wizard.pc \in PastMonitoring
      /\ next \in PastFeatures <=> wizard.pc \in PastFeatures
      /\ next \in PastBedrock <=> wizard.pc \in PastBedrock
  BY <1>1, <1>2 DEF InQuestions, PastAuth, PastAws, PastMonitoring, PastFeatures, PastBedrock
<1>6. WizardTyped'
  BY <1>1, <1>3, <1>4 DEF WizardInv, WizardTyped, Places
<1>7. FilesTyped' /\ ProfilesFit' /\ ActiveExists'
  BY <1>1, FilesStay DEF WizardInv, WizardTyped
<1>8. Progress'
  BY <1>1, <1>3, <1>4 DEF WizardInv, Progress
<1>9. Sections'
  <2>1. SectionsAt(next, wizard.config)
    BY <1>5 DEF WizardInv, Sections, SectionsAt
  <2>2. next = "features" => wizard.memory.last = "monitoring"
    BY <1>1, <1>2 DEF WizardInv, Progress
  <2>3. QED
    BY <1>3, <2>1, <2>2 DEF Sections, Skipping
<1>10. AnsweredAsMeant'
  BY <1>3, <1>5 DEF WizardInv, AnsweredAsMeant, MeantAt
<1>11. Updating'
  BY <1>1, <1>3, <1>4, <1>5 DEF WizardInv, Updating, KeptFrom
<1>12. Saving'
  BY <1>3, <1>4 DEF Saving
<1>13. QED
  BY <1>6, <1>7, <1>8, <1>9, <1>10, <1>11, <1>12 DEF WizardInv

-----------------------------------------------------------------------------
(* The invariant: the profile is saved, and what else is done to profiles. *)

(* All that is needed has been answered when the answers are reviewed.     *)
LEMMA Reviewed ==
    ASSUME WizardInv, wizard.pc = "review"
    PROVE  LET c == wizard.config
           IN /\ AuthFits(c) /\ AwsFits(c) /\ MonitoringFits(c) /\ FeaturesFit(c) /\ ModelFits(c)
              /\ \A k \in Needed : c[k] # Unset
              /\ wizard.name \in Names /\ ConfigTyped(c)
              /\ store[wizard.name] \in {Absent, Broken} \/ store[wizard.name] \in Profile
<1> DEFINE c == wizard.config
<1>1. AuthFits(c) /\ AwsFits(c) /\ MonitoringFits(c) /\ FeaturesFit(c) /\ ModelFits(c)
  BY DEF WizardInv, Sections, SectionsAt,
         InQuestions, PastAuth, PastAws, PastMonitoring, PastFeatures, PastBedrock
<1>2. \A k \in Needed : c[k] # Unset
  BY <1>1 DEF Needed, AwsFits, MonitoringFits, ModelFits
<1>3. wizard.name \in Names /\ ConfigTyped(c)
  BY DEF WizardInv, WizardTyped
<1>4. store[wizard.name] \in {Absent, Broken} \/ store[wizard.name] \in Profile
  BY <1>3 DEF WizardInv, FilesTyped
<1>5. QED
  BY <1>1, <1>2, <1>3, <1>4

(* A wizard past its questions keeps nothing of them in use.               *)
LEMMA PastQuestions ==
    ASSUME wizard'.pc \in {"write", "activate", "activating"}
    PROVE  Sections' /\ AnsweredAsMeant' /\ Updating'
<1>1. wizard'.pc \notin InQuestions /\ wizard'.pc # "asked" /\ wizard'.pc # "features"
  BY DEF InQuestions
<1>2. /\ wizard'.pc \notin PastAuth /\ wizard'.pc \notin PastAws /\ wizard'.pc \notin PastMonitoring
      /\ wizard'.pc \notin PastFeatures /\ wizard'.pc \notin PastBedrock
  BY DEF InQuestions, PastAuth, PastAws, PastMonitoring, PastFeatures, PastBedrock
<1>3. QED
  BY <1>1, <1>2 DEF Sections, SectionsAt, Skipping, AnsweredAsMeant, MeantAt, Updating

LEMMA OpenProfileFileKeepsInv ==
    ASSUME WizardInv, OpenProfileFile
    PROVE  WizardInv'
<1> DEFINE c == wizard.config
           before == store[wizard.name]
           x == Saved(c, before)
<1>1. /\ wizard.pc = "review" /\ UNCHANGED <<active, legacy, progress>>
      /\ wizard' = [wizard EXCEPT !.pc = "write", !.held = x]
      /\ store' = [store EXCEPT ![wizard.name] = Broken]
  BY Reviewed DEF OpenProfileFile, Asks
<1>2. /\ AuthFits(c) /\ AwsFits(c) /\ MonitoringFits(c) /\ FeaturesFit(c) /\ ModelFits(c)
      /\ wizard.name \in Names /\ ConfigTyped(c)
      /\ before \in {Absent, Broken} \/ before \in Profile
  BY <1>1, Reviewed
<1>3. x \in Profile
  BY <1>2, SavedTyped DEF MonitoringFits
<1>4. Fits(x)
  BY <1>2, SavedFits
<1>5. ASSUME ~wizard.accepts, ~wizard.resumed
      PROVE  DeployView(x) = Meant(wizard.intent, wizard.name)
  <2>1. wizard.intent \in Answer
    BY AnswersAssumption DEF WizardInv, WizardTyped
  <2>2. /\ MeantAuth(c, wizard.intent) /\ MeantAws(c, wizard.intent, wizard.name)
        /\ MeantMonitoring(c, wizard.intent) /\ MeantFeatures(c, wizard.intent)
        /\ MeantModel(c, wizard.intent)
    BY <1>1, <1>5 DEF WizardInv, AnsweredAsMeant, MeantAt,
         InQuestions, PastAuth, PastAws, PastMonitoring, PastFeatures, PastBedrock
  <2>3. QED
    BY <1>2, <2>1, <2>2, SavedMeans
<1> HIDE DEF x
<1>6. /\ wizard'.pc = "write" /\ wizard'.name = wizard.name /\ wizard'.accepts = wizard.accepts
      /\ wizard'.intent = wizard.intent /\ wizard'.memory = wizard.memory /\ wizard'.held = x
      /\ wizard'.inits = wizard.inits /\ wizard'.kills = wizard.kills
      /\ wizard'.update = wizard.update /\ wizard'.resumed = wizard.resumed
      /\ wizard'.config = wizard.config /\ DOMAIN wizard' = DOMAIN wizard
  BY <1>1 DEF WizardInv, WizardTyped
<1>7. WizardTyped'
  BY <1>1, <1>6 DEF WizardInv, WizardTyped, Places
<1>8. DOMAIN store' = Names /\ \A p \in Names : store'[p] = IF p = wizard.name THEN Broken ELSE store[p]
  BY <1>1, <1>2 DEF WizardInv, FilesTyped
<1>9. FilesTyped'
  BY <1>1, <1>8 DEF WizardInv, FilesTyped
<1>10. ProfilesFit'
  BY <1>8 DEF WizardInv, ProfilesFit, IsProfile
<1>11. ActiveExists'
  BY <1>1, <1>8, FilesAssumption DEF WizardInv, ActiveExists, Files
<1>12. Progress'
  BY <1>1, <1>6 DEF WizardInv, Progress
<1>13. Sections' /\ AnsweredAsMeant' /\ Updating'
  BY <1>6, PastQuestions
<1>14. Saving'
  BY <1>3, <1>4, <1>5, <1>6 DEF Saving, SavedAsMeant
<1>15. QED
  BY <1>7, <1>9, <1>10, <1>11, <1>12, <1>13, <1>14 DEF WizardInv

LEMMA WriteProfileFileKeepsInv ==
    ASSUME WizardInv, WriteProfileFile
    PROVE  WizardInv'
<1>1. /\ wizard.pc = "write" /\ UNCHANGED <<active, legacy, progress>>
      /\ wizard' = [wizard EXCEPT !.pc = "activate"]
      /\ store' = [store EXCEPT ![wizard.name] = wizard.held]
  BY DEF WriteProfileFile
<1>2. wizard.held \in Profile /\ Fits(wizard.held) /\ wizard.name \in Names
  BY <1>1 DEF WizardInv, Saving, WizardTyped
<1>3. /\ wizard'.pc = "activate" /\ wizard'.name = wizard.name /\ wizard'.accepts = wizard.accepts
      /\ wizard'.intent = wizard.intent /\ wizard'.memory = wizard.memory
      /\ wizard'.inits = wizard.inits /\ wizard'.kills = wizard.kills
      /\ wizard'.update = wizard.update /\ wizard'.resumed = wizard.resumed
      /\ wizard'.config = wizard.config /\ DOMAIN wizard' = DOMAIN wizard
  BY <1>1 DEF WizardInv, WizardTyped
<1>4. WizardTyped'
  BY <1>1, <1>3 DEF WizardInv, WizardTyped, Places
<1>5. DOMAIN store' = Names
      /\ \A p \in Names : store'[p] = IF p = wizard.name THEN wizard.held ELSE store[p]
  BY <1>1, <1>2 DEF WizardInv, FilesTyped
<1>6. FilesTyped' /\ ProfilesFit'
  BY <1>1, <1>2, <1>5 DEF WizardInv, FilesTyped, ProfilesFit
<1>7. ActiveExists'
  BY <1>1, <1>2, <1>5, ProfileNoMark DEF WizardInv, ActiveExists, Files
<1>8. Progress'
  BY <1>1, <1>3 DEF WizardInv, Progress
<1>9. Sections' /\ AnsweredAsMeant' /\ Updating'
  BY <1>3, PastQuestions
<1>10. Saving'
  BY <1>2, <1>3, <1>5, ProfileNoMark DEF Saving
<1>11. QED
  BY <1>4, <1>6, <1>7, <1>8, <1>9, <1>10 DEF WizardInv

LEMMA OpenGlobalKeepsInv ==
    ASSUME WizardInv, OpenGlobal
    PROVE  WizardInv'
<1>1. /\ wizard.pc = "activate" /\ UNCHANGED <<store, legacy, progress>> /\ active' = NoName
      /\ wizard' = [wizard EXCEPT !.pc = "activating"]
  BY DEF OpenGlobal
<1>2. /\ wizard'.pc = "activating" /\ wizard'.name = wizard.name /\ wizard'.accepts = wizard.accepts
      /\ wizard'.intent = wizard.intent /\ wizard'.memory = wizard.memory
      /\ wizard'.inits = wizard.inits /\ wizard'.kills = wizard.kills
      /\ wizard'.update = wizard.update /\ wizard'.resumed = wizard.resumed
      /\ wizard'.config = wizard.config /\ DOMAIN wizard' = DOMAIN wizard
  BY <1>1 DEF WizardInv, WizardTyped
<1>3. WizardTyped' /\ FilesTyped'
  BY <1>1, <1>2 DEF WizardInv, WizardTyped, FilesTyped, Places
<1>4. ProfilesFit' /\ ActiveExists' /\ Progress'
  BY <1>1, <1>2 DEF WizardInv, ProfilesFit, ActiveExists, Progress
<1>5. Sections' /\ AnsweredAsMeant' /\ Updating'
  BY <1>2, PastQuestions
<1>6. Saving'
  BY <1>1, <1>2 DEF WizardInv, Saving
<1>7. QED
  BY <1>3, <1>4, <1>5, <1>6 DEF WizardInv

(* The wizard ends, of itself or before its time.                          *)
LEMMA AsleepAgain ==
    ASSUME WizardInv, NEW kills \in 0 .. MaxKills,
           wizard' = [Asleep EXCEPT !.inits = wizard.inits, !.kills = kills]
    PROVE  /\ WizardTyped' /\ Sections' /\ AnsweredAsMeant' /\ Updating' /\ Saving'
           /\ Kept(progress)' => Progress'
<1>1. /\ wizard'.pc = "off" /\ wizard'.name = NoName /\ wizard'.update = FALSE /\ wizard'.resumed = FALSE
      /\ wizard'.accepts = FALSE /\ wizard'.intent = Asleep.intent /\ wizard'.config = EmptyConfig
      /\ wizard'.memory = NoProgress /\ wizard'.inits = wizard.inits /\ wizard'.kills = kills
      /\ DOMAIN wizard' = {"pc", "name", "update", "resumed", "accepts", "intent", "config", "memory",
                           "held", "inits", "kills"}
  BY DEF Asleep
<1>2. WizardTyped'
  BY <1>1, Blank DEF WizardInv, WizardTyped, Places
<1>3. Sections' /\ AnsweredAsMeant' /\ Updating' /\ Saving'
  BY <1>1, NothingInUse
<1>4. Kept(progress)' => Progress'
  BY <1>1, Blank DEF Progress
<1>5. QED
  BY <1>2, <1>3, <1>4

LEMMA ActivateKeepsInv ==
    ASSUME WizardInv, Activate
    PROVE  WizardInv'
<1>1. /\ wizard.pc = "activating" /\ UNCHANGED <<store, legacy>> /\ active' = wizard.name
      /\ progress' \in {progress, NoProgress}
      /\ wizard' = [Asleep EXCEPT !.inits = wizard.inits, !.kills = wizard.kills]
  BY DEF Activate, Sleep
<1>2. wizard.kills \in 0 .. MaxKills /\ wizard.name \in Names /\ store[wizard.name] # Absent
  BY <1>1 DEF WizardInv, WizardTyped, Saving
<1>3. MemoryTyped(progress') /\ Kept(progress')
  BY <1>1, Blank DEF WizardInv, FilesTyped, Progress
<1>4. /\ WizardTyped' /\ Sections' /\ AnsweredAsMeant' /\ Updating' /\ Saving' /\ Progress'
  BY <1>1, <1>2, <1>3, AsleepAgain
<1>5. FilesTyped' /\ ProfilesFit'
  BY <1>1, <1>2, <1>3 DEF WizardInv, FilesTyped, ProfilesFit
<1>6. ActiveExists'
  BY <1>1, <1>2 DEF ActiveExists, Files
<1>7. QED
  BY <1>4, <1>5, <1>6 DEF WizardInv

LEMMA LeaveKeepsInv ==
    ASSUME WizardInv, Leave
    PROVE  WizardInv'
<1>1. /\ UNCHANGED <<store, active, legacy, progress>> /\ wizard.kills < MaxKills
      /\ wizard' = [Asleep EXCEPT !.inits = wizard.inits, !.kills = wizard.kills + 1]
  BY DEF Leave
<1>2. wizard.kills + 1 \in 0 .. MaxKills
  BY <1>1, WizardAssumption DEF WizardInv, WizardTyped
<1>3. MemoryTyped(progress') /\ Kept(progress')
  BY <1>1 DEF WizardInv, FilesTyped, Progress
<1>4. /\ WizardTyped' /\ Sections' /\ AnsweredAsMeant' /\ Updating' /\ Saving' /\ Progress'
  BY <1>1, <1>2, <1>3, AsleepAgain
<1>5. FilesTyped' /\ ProfilesFit' /\ ActiveExists'
  BY <1>1, <1>3, FilesStay
<1>6. QED
  BY <1>4, <1>5 DEF WizardInv

LEMMA UseProfileKeepsInv ==
    ASSUME WizardInv, NEW p \in Names, UseProfile(p)
    PROVE  WizardInv'
<1>1. UNCHANGED <<store, legacy, progress, wizard>> /\ active' = p /\ p \in Files
  BY DEF UseProfile
<1>2. WizardTyped' /\ FilesTyped' /\ ProfilesFit' /\ Progress'
  BY <1>1 DEF WizardInv, WizardTyped, FilesTyped, ProfilesFit, Progress
<1>3. ActiveExists'
  BY <1>1 DEF ActiveExists, Files
<1>4. Sections' /\ AnsweredAsMeant' /\ Updating' /\ Saving'
  BY <1>1, NothingInUse DEF UseProfile, Sleeping
<1>5. QED
  BY <1>2, <1>3, <1>4 DEF WizardInv

LEMMA EditProfileKeepsInv ==
    ASSUME WizardInv, NEW p \in Names, EditProfile(p)
    PROVE  WizardInv'
<1> DEFINE x == [store[p] EXCEPT !.alias = "opusplan", !.chat = FALSE, !.failMode = "closed"]
<1>1. /\ UNCHANGED <<active, legacy, progress, wizard>> /\ IsProfile(store[p]) /\ wizard.pc = "off"
      /\ store' = [store EXCEPT ![p] = x]
  BY DEF EditProfile, Sleeping, WizardInv, FilesTyped
<1>2. store[p] \in Profile
  BY <1>1 DEF WizardInv, FilesTyped, IsProfile
<1>3. x \in Profile
  <2> DEFINE y == [store[p] EXCEPT !.alias = "opusplan"]
             z == [y EXCEPT !.chat = FALSE]
  <2>1. y \in Profile
    BY <1>2 DEF Profile
  <2> HIDE DEF y
  <2>2. z \in Profile
    BY <2>1, ZenonT(60) DEF Profile
  <2> HIDE DEF z
  <2>3. [z EXCEPT !.failMode = "closed"] \in Profile
    BY <2>2 DEF Profile
  <2>4. x = [z EXCEPT !.failMode = "closed"]
    BY DEF y, z
  <2>5. QED
    BY <2>3, <2>4
<1>4. \A k \in DOMAIN store[p] \ {"alias", "chat", "failMode"} : x[k] = store[p][k]
  OBVIOUS
<1>5. \A k \in {"auth", "provider", "client", "windows", "monitoring", "mode", "vpc", "analytics", "quota",
                "limit", "daily", "bypass", "builds", "buildRegion", "websearch", "distribution", "saml",
                "idp"} : x[k] = store[p][k]
  BY <1>2, <1>4 DEF Profile
<1> HIDE DEF x
<1>6. Fits(store[p])
  BY <1>1 DEF WizardInv, ProfilesFit
<1>7. Fits(x)
  <2>1. AuthFits(x)
    BY <1>5, <1>6, FitsKept DEF Fits
  <2>2. MonitoringFits(x)
    BY <1>5, <1>6, FitsKept DEF Fits
  <2>3. FeaturesFit(x)
    BY <1>5, <1>6, FitsKept DEF Fits
  <2>4. x.quota \/ x.analytics => x.monitoring
    BY <1>5, <1>6 DEF Fits
  <2>5. QED
    BY <2>1, <2>2, <2>3, <2>4 DEF Fits
<1>8. DOMAIN store' = Names /\ \A q \in Names : store'[q] = IF q = p THEN x ELSE store[q]
  BY <1>1 DEF WizardInv, FilesTyped
<1>9. WizardTyped' /\ Progress'
  BY <1>1 DEF WizardInv, WizardTyped, Progress
<1>10. FilesTyped' /\ ProfilesFit'
  BY <1>1, <1>3, <1>7, <1>8 DEF WizardInv, FilesTyped, ProfilesFit
<1>11. ActiveExists'
  BY <1>1, <1>3, <1>8, ProfileNoMark DEF WizardInv, ActiveExists, Files
<1>12. Sections' /\ AnsweredAsMeant' /\ Updating' /\ Saving'
  BY <1>1, NothingInUse
<1>13. QED
  BY <1>9, <1>10, <1>11, <1>12 DEF WizardInv

LEMMA ExpireKeepsInv ==
    ASSUME WizardInv, Expire
    PROVE  WizardInv'
<1>1. UNCHANGED <<store, active, legacy, wizard>> /\ progress' = NoProgress /\ wizard.pc = "off"
  BY DEF Expire, Sleeping
<1>2. FilesTyped' /\ ProfilesFit' /\ ActiveExists'
  BY <1>1, FilesStay, Blank
<1>3. WizardTyped' /\ Progress'
  BY <1>1, Blank DEF WizardInv, WizardTyped, Progress
<1>4. Sections' /\ AnsweredAsMeant' /\ Updating' /\ Saving'
  BY <1>1, NothingInUse
<1>5. QED
  BY <1>2, <1>3, <1>4 DEF WizardInv

LEMMA WizardInvNext == WizardInv /\ [WizardNext]_wizardVars => WizardInv'
<1> SUFFICES ASSUME WizardInv, [WizardNext]_wizardVars PROVE WizardInv'
  OBVIOUS
<1>1. CASE Migrate
  BY <1>1, MigrateKeepsInv
<1>2. CASE \E p \in Names, accepts \in BOOLEAN, a \in Intents : Begin(p, accepts, a)
  BY <1>2, BeginKeepsInv
<1>3. CASE Update \/ StartFresh \/ Resume
  BY <1>3, UpdateKeepsInv, StartFreshKeepsInv, ResumeKeepsInv
<1>4. CASE Question
  BY <1>4, AskAuthKeepsInv, AskAwsKeepsInv, AskMonitoringKeepsInv, AskFeaturesKeepsInv,
     AskBedrockKeepsInv DEF Question
<1>5. CASE WriteProgress
  BY <1>5, WriteProgressKeepsInv
<1>6. CASE OpenProfileFile \/ WriteProfileFile \/ OpenGlobal \/ Activate
  BY <1>6, OpenProfileFileKeepsInv, WriteProfileFileKeepsInv, OpenGlobalKeepsInv, ActivateKeepsInv
<1>7. CASE Leave \/ Expire
  BY <1>7, LeaveKeepsInv, ExpireKeepsInv
<1>8. CASE \E p \in Names : UseProfile(p) \/ EditProfile(p)
  BY <1>8, UseProfileKeepsInv, EditProfileKeepsInv
<1>9. CASE UNCHANGED wizardVars
  BY <1>9 DEF wizardVars, WizardInv, WizardTyped, FilesTyped, Sections, Skipping, Progress, ProfilesFit,
              AnsweredAsMeant, Updating, KeptFrom, Saving, SavedAsMeant, ActiveExists, Files
<1>10. QED
  BY <1>1, <1>2, <1>3, <1>4, <1>5, <1>6, <1>7, <1>8, <1>9 DEF WizardNext

LEMMA WizardInvariant == WizardSpec => []WizardInv
BY WizardInvInit, WizardInvNext, PTL DEF WizardSpec

-----------------------------------------------------------------------------
(* Theorems.                                                               *)

(* Type correctness: the profile files hold profiles, or nothing that can  *)
(* be read; the wizard's data and the progress hold the wizard's keys.     *)
THEOREM WizardTypeCorrect == WizardSpec => []WizardTypeOK
<1>1. WizardInv => WizardTypeOK
  BY DEF WizardInv, WizardTyped, FilesTyped, MemoryTyped, ConfigTyped, WizardTypeOK, Places, InQuestions, After
<1>2. QED
  BY <1>1, WizardInvariant, PTL

(* Whatever was saved, interrupted or edited before, a wizard that took up *)
(* no earlier progress saves a profile that deploys what its own answers   *)
(* meant: AnsweredAsMeant, read at the review, is what is saved.           *)
THEOREM WizardSavesAsMeant == WizardSpec => []SavedAsMeant
<1>1. WizardInv => SavedAsMeant
  BY DEF WizardInv, Saving, SavedAsMeant
<1>2. QED
  BY <1>1, WizardInvariant, PTL

(* No wizard reviews answers of which one that is needed is missing, also  *)
(* when it skipped sections because an earlier one had answered them.      *)
THEOREM WizardMissesNothing == WizardSpec => []NothingMissing
<1>1. WizardInv => NothingMissing
  BY Reviewed DEF NothingMissing
<1>2. QED
  BY <1>1, WizardInvariant, PTL

(* The active profile has a file, or was the default of an older version.  *)
THEOREM WizardActiveExists == WizardSpec => []ActiveExists
<1>1. WizardInv => ActiveExists
  BY DEF WizardInv
<1>2. QED
  BY <1>1, WizardInvariant, PTL

(* What is saved when the answers are confirmed.                           *)
LEMMA SavesReviewed ==
    ASSUME WizardInv, [WizardNext]_wizardVars, Saves
    PROVE  wizard'.held = Saved(wizard.config, store[wizard.name])
<1>1. wizard.pc = "review" /\ wizard'.pc = "write"
  BY DEF Saves
<1>2. DOMAIN wizard = {"pc", "name", "update", "resumed", "accepts", "intent", "config", "memory",
                       "held", "inits", "kills"}
  BY DEF WizardInv, WizardTyped
<1>3. wizard' # wizard
  BY <1>1
<1>4. CASE OpenProfileFile
  <2>1. wizard' = [wizard EXCEPT !.pc = "write", !.held = Saved(wizard.config, store[wizard.name])]
    BY <1>1, <1>4, Reviewed DEF OpenProfileFile
  <2>2. QED
    BY <1>2, <2>1
<1>5. CASE Leave
  BY <1>1, <1>5 DEF Leave, Asleep
<1>6. CASE Migrate \/ Expire \/ \E p \in Names : UseProfile(p) \/ EditProfile(p)
  BY <1>3, <1>6 DEF Migrate, Expire, UseProfile, EditProfile
<1>7. CASE \E p \in Names, accepts \in BOOLEAN, a \in Intents : Begin(p, accepts, a)
  BY <1>1, <1>7 DEF Begin, Sleeping
<1>8. CASE Update \/ StartFresh \/ Resume
  BY <1>1, <1>8 DEF Update, StartFresh, Resume
<1>9. CASE Question
  BY <1>1, <1>9 DEF Question, AskAuth, AskAws, AskMonitoring, AskFeatures, AskBedrock, Asks
<1>10. CASE WriteProgress \/ WriteProfileFile \/ OpenGlobal \/ Activate
  BY <1>1, <1>10 DEF WriteProgress, After, WriteProfileFile, OpenGlobal, Activate
<1>11. CASE UNCHANGED wizardVars
  BY <1>3, <1>11 DEF wizardVars
<1>12. QED
  BY <1>4, <1>5, <1>6, <1>7, <1>8, <1>9, <1>10, <1>11 DEF WizardNext

(* To accept every default of an update saves the profile as it was, but   *)
(* for the fields the defaults cannot give back.                           *)
THEOREM WizardAcceptKeeps == WizardSpec => AcceptKeeps
<1>1. ASSUME WizardInv, [WizardNext]_wizardVars, Saves, wizard.accepts
      PROVE  LET was == store[wizard.name]
             IN \A k \in DOMAIN was \ (Loose(was) \cup {"alias"}) : wizard'.held[k] = was[k]
  <2> DEFINE was == store[wizard.name]
  <2>1. wizard.pc \in InQuestions
    BY <1>1 DEF Saves, InQuestions
  <2>2. ConfigTyped(wizard.config) /\ was \in Profile /\ Fits(was) /\ Follows(wizard.config, was)
    BY <1>1, <2>1, Asking
  <2>3. wizard'.held = Saved(wizard.config, was)
    BY <1>1, SavesReviewed
  <2>4. QED
    BY <2>2, <2>3, AcceptedSaved
<1>2. ASSUME WizardInv, [WizardNext]_wizardVars, Saves, wizard.accepts
      PROVE  LET was == store[wizard.name]
                 loose == {"alias", "chat"}
                     \cup (IF was.distribution = "off" THEN {"distribution"} ELSE {})
                     \cup (IF was.daily = "custom" THEN {"daily"} ELSE {})
                     \cup (IF was.buildRegion = "far" THEN {"buildRegion", "prior"} ELSE {})
                     \cup (IF was.token THEN {} ELSE {"token"})
             IN \A k \in DOMAIN was \ loose : wizard'.held[k] = was[k]
  BY <1>1, <1>2 DEF Loose
<1>3. QED
  BY <1>2, WizardInvariant, PTL DEF WizardSpec, AcceptKeeps

(* An update never forgets a region in which a CodeBuild stack may be.     *)
THEOREM WizardRegionRemembered == WizardSpec => RegionRemembered
<1>1. ASSUME WizardInv, [WizardNext]_wizardVars, Saves, wizard.update
      PROVE  LET was == store[wizard.name]
             IN (was.prior \cup {was.buildRegion}) \ {"main"}
                   \subseteq wizard'.held.prior \cup {wizard'.held.buildRegion}
  <2> DEFINE was == store[wizard.name]
             c == wizard.config
  <2>1. wizard.pc \in InQuestions
    BY <1>1 DEF Saves, InQuestions
  <2>2. c.prior # Unset /\ c.buildRegion # Unset /\ Regions(was) \subseteq Regions(c)
    BY <1>1, <2>1 DEF WizardInv, Updating
  <2>3. wizard'.held = Saved(c, was)
    BY <1>1, SavesReviewed
  <2>4. Saved(c, was).prior = c.prior /\ Saved(c, was).buildRegion = c.buildRegion
    BY <2>2, SavedFields
  <2>5. QED
    BY <2>2, <2>3, <2>4 DEF Regions
<1>2. QED
  BY <1>1, WizardInvariant, PTL DEF WizardSpec, RegionRemembered

=============================================================================
