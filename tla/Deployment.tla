----------------------------- MODULE Deployment -----------------------------
(***************************************************************************)
(* "ccwb deploy", its --parallel waves, and "ccwb destroy"                  *)
(* (cli/commands/deploy.py, destroy.py) over the CloudFormation stacks of   *)
(* one profile (cli/utils/cloudformation.py).  A command works through a    *)
(* list of waves: a sequential command has one stack per wave, --parallel   *)
(* one thread per stack of a wave.  An action is one request to             *)
(* CloudFormation, one observation of its answer, or one access to the      *)
(* profile's file.  CloudFormation goes on working after the command has    *)
(* stopped waiting or was killed.                                           *)
(***************************************************************************)
EXTENDS Naturals, Sequences

CONSTANTS
    Profiles,    \* what the wizard's answers may be
    MaxCommands, \* bound on the commands given
    MaxTrouble   \* bound on what is refused, fails, takes too long or is interrupted

CodeBuildIn == [east |-> "codebuild-east", west |-> "codebuild-west"]
Builders == {"codebuild-east", "codebuild-west"}
Stacks == {"auth", "networking", "distribution", "s3bucket", "monitoring", "dashboard",
           "cowork-dashboard", "analytics", "quota", "websearch", "bootstrap"} \cup Builders

(* "ownVpc": monitoring_config.create_vpc is false.  A gateway is "unfit"   *)
(* when it is wanted and websearch_preflight refuses it.  "builds" is the   *)
(* answer about Windows builds in a region that has no Windows containers.  *)
Answers == [auth: BOOLEAN, monitoring: {"off", "central", "sidecar"}, ownVpc: BOOLEAN,
            analytics: BOOLEAN, distribution: {"off", "page", "presigned"}, quota: BOOLEAN,
            websearch: {"off", "unfit", "on"}, bootstrap: BOOLEAN, builds: {"no", "skip", "east", "west"}]

ASSUME ProfilesAssumption == Profiles \subseteq Answers
ASSUME DeployBoundsAssumption == MaxCommands \in Nat /\ MaxTrouble \in Nat

VARIABLES
    profile,  \* the answers saved last
    region,   \* codebuild_region of the saved profile
    prior,    \* codebuild_prior_regions of the saved profile
    file,     \* the addresses in the profile's file, and whether it can be parsed
    cloud,    \* the status of each stack
    command,  \* the command given last and how it ended
    todo,     \* the waves it still has to work through
    step,     \* what the thread of each stack of the wave does
    mem,      \* the addresses in the profile object all threads share
    held,     \* what a thread that saves the profile is about to write
    failures, \* stacks_with_failures
    missed,   \* what failed without being told when the collector's address was to be saved
    trouble   \* what went wrong so far

saved == <<profile, region, prior, file>>
work == <<command, todo, step, mem, held, failures, missed>>
vars == <<saved, cloud, work, trouble>>

Busy == {"creating", "updating", "deleting"}
Statuses == Busy \cup {"absent", "complete", "restored", "rollback", "deleteFailed"}
Steps == {"off", "clearing", "waiting", "save", "write", "ok", "failed"}
Addresses == [endpoint: {"none", "current", "old"}, gateway: {"none", "current", "old"}]
NoAddresses == [endpoint |-> "none", gateway |-> "none"]
Idle == [s \in Stacks |-> "off"]
Shown == {"role", "collector", "limits"}
Wave == [act: {"sweep", "deploy", "destroy", "prior", "save"} \cup Shown, stacks: SUBSET Stacks]

TypeOK ==
    /\ profile \in Profiles /\ region \in {"none", "east", "west"} /\ prior \subseteq {"east", "west"}
    /\ file \in [whole: BOOLEAN, at: Addresses]
    /\ cloud \in [Stacks -> Statuses]
    /\ command \in [kind: {"none", "deploy", "destroy"}, only: Stacks \cup {"all"}, parallel: BOOLEAN,
                    exit: {"none", "running", "zero", "one"}, given: 0 .. MaxCommands]
    /\ todo \in Seq(Wave)
    /\ step \in [Stacks -> Steps]
    /\ mem \in Addresses /\ held \in [{"monitoring", "websearch"} -> Addresses]
    /\ failures \subseteq Stacks /\ missed \subseteq {"early", "late"}
    /\ trouble \in 0 .. MaxTrouble

Running == command.exit = "running"
Enabled(c) == c.builds \in {"east", "west"}

Init ==
    /\ profile \in Profiles
    /\ region = IF Enabled(profile) THEN profile.builds ELSE "none"
    /\ prior = {}
    /\ file = [whole |-> TRUE, at |-> NoAddresses]
    /\ cloud = [s \in Stacks |-> "absent"]
    /\ command = [kind |-> "none", only |-> "all", parallel |-> FALSE, exit |-> "none", given |-> 0]
    /\ todo = <<>> /\ step = Idle
    /\ mem = NoAddresses /\ held = [s \in {"monitoring", "websearch"} |-> NoAddresses]
    /\ failures = {} /\ missed = {} /\ trouble = 0

-----------------------------------------------------------------------------
(* Which stacks a command is about, and in which order.                     *)

Central(c) == c.monitoring = "central"
QuotaWanted(c) == c.monitoring # "off" /\ c.quota /\ c.auth

Selected(c) ==
    {s \in Stacks :
        \/ s = "auth" /\ c.auth
        \/ s = "networking" /\ ~c.ownVpc /\ (Central(c) \/ c.distribution # "off")
        \/ s = "distribution" /\ c.distribution # "off"
        \/ s = "s3bucket" /\ (Central(c) \/ QuotaWanted(c))
        \/ s \in {"monitoring", "cowork-dashboard"} /\ Central(c)
        \/ s = "dashboard" /\ c.monitoring # "off"
        \/ s = "analytics" /\ Central(c) /\ c.analytics
        \/ s = "quota" /\ QuotaWanted(c)
        \/ s \in Builders /\ Enabled(c) /\ s = CodeBuildIn[region]
        \/ s = "websearch" /\ c.websearch = "on"
        \/ s = "bootstrap" /\ c.bootstrap}

(* What "ccwb deploy <stack>" accepts: other guards than a full deploy's,   *)
(* and no s3bucket at all.                                                  *)
Accepted(c) ==
    (Selected(c) \ {"s3bucket", "networking"})
        \cup (IF Central(c) THEN {"networking"} ELSE {})
        \cup (IF c.monitoring # "off" THEN {"analytics"} ELSE {})

CentralOrder ==
    <<"auth", "networking", "distribution", "s3bucket", "monitoring", "dashboard", "cowork-dashboard",
      "analytics", "quota", "codebuild-east", "codebuild-west", "websearch", "bootstrap">>
OtherOrder ==
    <<"auth", "networking", "distribution", "dashboard", "s3bucket",
      "quota", "codebuild-east", "codebuild-west", "websearch", "bootstrap">>
FullOrder == IF Central(profile) THEN CentralOrder ELSE OtherOrder

(* A plausible fault: s3bucket is taken for something quota does not need.  *)
QuotaInFirstWave ==
    <<{"auth", "networking", "s3bucket", "quota"} \cup Builders,
      {"monitoring", "distribution", "websearch"},
      {"dashboard", "cowork-dashboard", "analytics", "bootstrap"}>>

DEPLOY_WAVES ==
    <<{"auth", "networking", "s3bucket"} \cup Builders,
      {"monitoring", "distribution", "quota", "websearch"},
      {"dashboard", "cowork-dashboard", "analytics", "bootstrap"}>>

(* The order in which _check_orphaned_stacks lists what it finds, reversed. *)
SweepOrder ==
    <<"websearch", "bootstrap", "codebuild-east", "codebuild-west", "quota", "analytics",
      "cowork-dashboard", "dashboard", "monitoring", "networking", "distribution", "auth">>

DESTROYABLE_STACKS ==
    <<"bootstrap", "websearch", "codebuild-east", "codebuild-west", "analytics", "quota",
      "cowork-dashboard", "dashboard", "monitoring", "distribution", "networking", "s3bucket", "auth">>

(* A stack that is passed over leaves a wave without stacks, which is over  *)
(* at once.                                                                 *)
OneByOne(act, order, set) ==
    [i \in DOMAIN order |-> [act |-> act, stacks |-> {order[i]} \cap set]]

PlanWaves(set) ==
    [i \in DOMAIN DEPLOY_WAVES |-> [act |-> "deploy", stacks |-> DEPLOY_WAVES[i] \cap set]]

(* The stacks the loop of "destroy" does not skip.                          *)
Covered(c) ==
    {s \in Stacks :
        /\ s \in {"monitoring", "dashboard", "networking", "analytics", "s3bucket"} => c.monitoring # "off"
        /\ s \in {"networking", "monitoring", "analytics", "s3bucket"} => c.monitoring # "sidecar"
        /\ s = "quota" => c.quota
        /\ s = "distribution" => c.distribution # "off"
        /\ s = "websearch" => c.websearch # "off"
        /\ s \in Builders => Enabled(c) /\ s = CodeBuildIn[region]}

(* A plausible fault: what destroy would skip is taken for what is not      *)
(* deployed.                                                                *)
OrphansOfDestroy ==
    {s \in Stacks \ (Builders \cup {"s3bucket"}) :
        s \notin Covered(profile) /\ cloud[s] \notin {"absent", "deleting"}}

(* Stacks that exist though the profile does not select them; s3bucket and  *)
(* the CodeBuild stacks of other regions are never looked for.              *)
Orphans ==
    {s \in (Stacks \ (Builders \cup {"s3bucket"}))
              \cup (IF region = "none" THEN {} ELSE {CodeBuildIn[region]}) :
        s \notin Selected(profile) /\ cloud[s] \notin {"absent", "deleting"}}

Abandoned == {CodeBuildIn[r] : r \in prior \ {region}}

-----------------------------------------------------------------------------
(* The commands.                                                            *)

(* The outputs of the stacks are shown at the end of every deploy: of the   *)
(* sign-in, of the collector, and of the quota service.                     *)
ShowOutputs ==
    <<[act |-> "role", stacks |-> {}], [act |-> "collector", stacks |-> {}],
      [act |-> "limits", stacks |-> {}]>>

Give(kind, only, parallel, plan) ==
    /\ file.whole /\ command.given < MaxCommands
    /\ command' = [kind |-> kind, only |-> only, parallel |-> parallel, given |-> command.given + 1,
                   exit |-> "running"]
    /\ todo' = plan
    /\ mem' = file.at /\ failures' = {} /\ missed' = {} /\ step' = Idle
    /\ UNCHANGED <<saved, cloud, held, trouble>>

DeployAll(parallel) ==
    ~Running /\ \E sweep \in {<<>>, OneByOne("sweep", SweepOrder, Orphans)} :
        Give("deploy", "all", parallel,
             sweep
                \o (IF parallel THEN PlanWaves(Selected(profile))
                                ELSE OneByOne("deploy", FullOrder, Selected(profile)))
                \o ShowOutputs)

DeployOne(s) ==
    /\ ~Running /\ s \in Accepted(profile)
    /\ Give("deploy", s, FALSE, <<[act |-> "deploy", stacks |-> {s}]>> \o ShowOutputs)

(* The abandoned regions are cleaned whatever the command was about.        *)
Destroy(only) ==
    /\ ~Running
    /\ Give("destroy", only, FALSE,
            OneByOne("destroy", IF only = "all" THEN DESTROYABLE_STACKS ELSE <<only>>, Covered(profile))
                \o OneByOne("prior", <<"codebuild-east", "codebuild-west">>, Abandoned))

(* A plausible fault: "skip" is taken for the name of a region.             *)
RegionAsTyped(c) == IF c.builds = "no" THEN region ELSE c.builds

(* The region of Windows builds is kept when the answer is "no".            *)
RegionAfter(c) ==
    CASE c.builds = "no" -> region [] c.builds = "skip" -> "none" [] OTHER -> c.builds

(* The wizard saves new answers.  The region of Windows builds is           *)
(* remembered as abandoned when another one is chosen or the choice is      *)
(* skipped.                                                                 *)
Reconfigure(c) ==
    /\ ~Running /\ c \in Profiles \ {profile} /\ command.given < MaxCommands
    /\ profile' = c
    /\ region' = RegionAfter(c)
    /\ prior' = IF c.builds # "no" /\ region \notin {"none", c.builds} THEN prior \cup {region} ELSE prior
    /\ file' = IF file.whole THEN file ELSE [whole |-> TRUE, at |-> NoAddresses]
    /\ command' = [command EXCEPT !.kind = "none", !.exit = "none"]
    /\ UNCHANGED <<cloud, todo, step, mem, held, failures, missed, trouble>>

-----------------------------------------------------------------------------
(* A wave: its threads start together, and it is over when all are done.    *)

Act == Head(todo).act
Mine(s) == Running /\ todo # <<>> /\ s \in Head(todo).stacks
Goes(s, to) == step' = [step EXCEPT ![s] = to]
Becomes(s, status) == cloud' = [cloud EXCEPT ![s] = status]
Trouble == trouble < MaxTrouble /\ trouble' = trouble + 1
NoTrouble == UNCHANGED trouble
Plan == <<command, todo, failures>>
Control == <<Plan, missed>>
Misses(what) == missed' = missed \cup {what}

(* The addresses of a stack that is gone are of no use any more.            *)
Outdated(at, s) ==
    [at EXCEPT !.endpoint = IF s = "monitoring" /\ @ = "current" THEN "old" ELSE @,
               !.gateway = IF s = "websearch" /\ @ = "current" THEN "old" ELSE @]
Vanishes(s) ==
    /\ Becomes(s, "absent")
    /\ file' = [file EXCEPT !.at = Outdated(@, s)]
    /\ mem' = Outdated(mem, s)
    /\ UNCHANGED <<profile, region, prior, held>>

HasOutputs(s) == cloud[s] \notin {"absent", "creating", "rollback"}

(* The outputs of other stacks that _deploy_stack insists on: the collector *)
(* and the landing page live in the network, unless a network of one's own  *)
(* is given; the lambdas of the quota stack are packaged into the bucket.   *)
CollectorPrepared == profile.ownVpc \/ HasOutputs("networking")
PagePrepared == profile.distribution = "page" => HasOutputs("networking")
QuotaPrepared == HasOutputs("s3bucket")
Prepared(s) ==
    CASE s = "monitoring" -> CollectorPrepared
      [] s = "distribution" -> PagePrepared
      [] s = "quota" -> QuotaPrepared
      [] OTHER -> TRUE

(* A stack is deployed once CloudFormation is done, but for the address     *)
(* that is written into the profile afterwards.                             *)
Deployed(s) == Goes(s, IF s \in {"monitoring", "websearch"} THEN "save" ELSE "ok")

StartDeploy(s) ==
    /\ Mine(s) /\ Act = "deploy" /\ step[s] = "off"
    /\ \/ /\ ~Prepared(s) \/ cloud[s] \in Busy \cup {"deleteFailed"}
          /\ Goes(s, "failed") /\ UNCHANGED cloud /\ NoTrouble
       \/ /\ Prepared(s) /\ cloud[s] = "rollback"
          /\ Goes(s, "clearing") /\ Becomes(s, "deleting") /\ NoTrouble
       \/ /\ Prepared(s) /\ cloud[s] = "absent"
          /\ Goes(s, "waiting") /\ Becomes(s, "creating") /\ NoTrouble
       \/ /\ Prepared(s) /\ cloud[s] \in {"complete", "restored"}
          /\ Goes(s, "waiting") /\ Becomes(s, "updating") /\ NoTrouble
       \/ /\ Prepared(s) /\ cloud[s] = "complete" \* no updates are to be performed
          /\ Deployed(s) /\ UNCHANGED cloud /\ NoTrouble
       \/ /\ s \in Builders \* an older profile's region may have no Windows containers
          /\ Goes(s, "ok") /\ UNCHANGED cloud /\ NoTrouble
    /\ UNCHANGED <<saved, mem, held, Control>>

(* CloudFormation refuses, or the stack's own branch does (the returns of 1 *)
(* between deploy.py:1086 and 1875): the sign-in's account, provider or     *)
(* template is wrong, the outputs of another stack cannot be read, the      *)
(* lambdas cannot be packaged, the bootstrap's endpoints or secret are not  *)
(* known, or the gateway is no longer fit.                                  *)
RefuseDeploy(s) ==
    /\ Mine(s) /\ Act = "deploy" /\ step[s] = "off"
    /\ Prepared(s) /\ cloud[s] \notin Busy
    /\ Goes(s, "failed") /\ Trouble
    /\ UNCHANGED <<saved, cloud, mem, held, Control>>

(* The failed creation is deleted first, and the stack then created.        *)
Recreate(s) ==
    /\ step[s] = "clearing" /\ cloud[s] = "deleting"
    /\ \/ Becomes(s, "creating") /\ Goes(s, "waiting") /\ NoTrouble
       \/ Becomes(s, "deleteFailed") /\ Goes(s, "failed") /\ Trouble
    /\ UNCHANGED <<saved, mem, held, Control>>

DeployEnds(s) ==
    /\ step[s] = "waiting" /\ cloud[s] \in {"creating", "updating"}
    /\ \/ Becomes(s, "complete") /\ Deployed(s) /\ NoTrouble
       \/ /\ Becomes(s, IF cloud[s] = "creating" THEN "rollback" ELSE "restored")
          /\ Goes(s, "failed") /\ Trouble
    /\ UNCHANGED <<saved, mem, held, Control>>

(* The waiter gives up.  What CloudFormation does from now on is not seen,  *)
(* not even if it finished just before.                                     *)
WaitTimeout(s) ==
    /\ step[s] \in {"clearing", "waiting"}
    /\ Goes(s, "failed") /\ Trouble
    /\ UNCHANGED <<saved, cloud, mem, held, Control>>

(* The address is put into the shared profile, whose file is opened and     *)
(* thereby emptied; what is written was taken from the profile just then.   *)
WithAddress(s) ==
    IF s = "monitoring" THEN [mem EXCEPT !.endpoint = "current"] ELSE [mem EXCEPT !.gateway = "current"]

OpenProfile(s) ==
    /\ step[s] = "save" /\ Goes(s, "write")
    /\ mem' = WithAddress(s) /\ held' = [held EXCEPT ![s] = WithAddress(s)]
    /\ file' = [file EXCEPT !.whole = FALSE]
    /\ UNCHANGED <<profile, region, prior, cloud, Control, trouble>>

(* An error while the outputs are read reads as "no outputs": nothing is    *)
(* saved, and the deployment of the stack counts as a success.              *)
OutputsUnread(s) ==
    /\ step[s] = "save" /\ Goes(s, "ok") /\ Trouble
    /\ IF s = "monitoring" THEN Misses("early") ELSE UNCHANGED missed
    /\ UNCHANGED <<saved, cloud, mem, held, Plan>>

(* A save that fails is ignored for the collector, and of a gateway it only *)
(* fails the thread; a sequential command ends with it, see Interrupt.  The *)
(* address is in the shared profile by then, and a file that was opened     *)
(* stays as far as it was written.                                          *)
SaveFails(s) ==
    /\ step[s] \in {"save", "write"} /\ (s = "websearch" => command.parallel)
    /\ Goes(s, IF s = "monitoring" THEN "ok" ELSE "failed") /\ Trouble /\ Misses("early")
    /\ mem' = IF step[s] = "save" THEN WithAddress(s) ELSE mem
    /\ file' = IF step[s] = "save" THEN file ELSE [file EXCEPT !.whole = FALSE]
    /\ UNCHANGED <<profile, region, prior, cloud, held, Plan>>

(* If another thread has written meanwhile, a shorter text leaves the end   *)
(* of the longer one behind it.                                             *)
Longer(a, b) == \E f \in DOMAIN a : a[f] # "none" /\ b[f] = "none"

WriteProfile(s) ==
    /\ step[s] = "write" /\ Goes(s, "ok")
    /\ file' = [whole |-> ~(file.whole /\ Longer(file.at, held[s])), at |-> held[s]]
    /\ UNCHANGED <<profile, region, prior, cloud, mem, held, Control, trouble>>

(* A deletion.  "destroy" forces the deletion of a stack that could not be  *)
(* deleted before; the sweep of a deploy does not.                          *)
StartDelete(s) ==
    /\ Mine(s) /\ Act # "deploy" /\ step[s] = "off"
    /\ \/ cloud[s] = "absent" /\ Goes(s, "ok") /\ UNCHANGED cloud /\ NoTrouble
       \/ /\ cloud[s] = "updating" \/ (Act = "sweep" /\ cloud[s] = "deleteFailed")
          /\ Goes(s, "failed") /\ UNCHANGED cloud /\ NoTrouble
       \/ /\ cloud[s] \notin {"absent", "updating"} /\ (Act = "sweep" => cloud[s] # "deleteFailed")
          /\ Goes(s, "waiting") /\ Becomes(s, "deleting") /\ NoTrouble
       \/ /\ cloud[s] # "absent" \* the request is refused
          /\ Goes(s, "failed") /\ UNCHANGED cloud /\ Trouble
    /\ UNCHANGED <<saved, mem, held, Control>>

(* CloudFormation cannot delete a network that a stack lives in.            *)
Blocked(s) ==
    s = "networking" /\ \/ cloud["monitoring"] # "absent" /\ ~profile.ownVpc
                        \/ cloud["distribution"] # "absent"

DeleteEnds(s) ==
    /\ step[s] = "waiting" /\ cloud[s] = "deleting"
    /\ \/ ~Blocked(s) /\ Vanishes(s) /\ Goes(s, "ok") /\ NoTrouble
       \/ /\ Becomes(s, "deleteFailed") /\ Goes(s, "failed")
          /\ IF Blocked(s) THEN NoTrouble ELSE Trouble
          /\ UNCHANGED <<saved, mem, held>>
    /\ UNCHANGED Control

(* CloudFormation finishes what nobody waits for.                           *)
Settles(s) ==
    /\ cloud[s] \in Busy /\ step[s] \notin {"clearing", "waiting"}
    /\ \/ /\ cloud[s] # "deleting" /\ Becomes(s, "complete") /\ NoTrouble
          /\ UNCHANGED <<saved, mem, held>>
       \/ cloud[s] = "deleting" /\ ~Blocked(s) /\ Vanishes(s) /\ NoTrouble
       \/ /\ Becomes(s, [creating |-> "rollback", updating |-> "restored",
                          deleting |-> "deleteFailed"][cloud[s]])
          /\ IF Blocked(s) THEN NoTrouble ELSE Trouble
          /\ UNCHANGED <<saved, mem, held>>
    /\ UNCHANGED <<Control, step>>

-----------------------------------------------------------------------------
(* The end of a wave and of the command.                                    *)

Failed == {s \in Head(todo).stacks : step[s] = "failed"}

(* A plausible fault: the rule for abandoned regions applied to every       *)
(* stack.                                                                   *)
RecordedIfListed ==
    IF Act \in {"destroy", "prior"} THEN {s \in Failed : cloud[s] = "deleteFailed"} ELSE {}

(* A failure in an abandoned region counts only if resources are listed     *)
(* that failed to delete, which those of a stack still being deleted are    *)
(* not.                                                                     *)
Recorded ==
    CASE Act = "destroy" -> Failed
      [] Act = "prior" -> {s \in Failed : cloud[s] = "deleteFailed"}
      [] OTHER -> {}

WaveEnds ==
    LET fatal == Act = "deploy" /\ Failed \ {"websearch"} # {}
        last == fatal \/ Tail(todo) = <<>>
    IN /\ Running /\ Act \notin Shown \cup {"save"}
       /\ \A s \in Head(todo).stacks : step[s] \in {"ok", "failed"}
       /\ failures' = failures \cup Recorded
       /\ todo' = IF last THEN <<>> ELSE Tail(todo)
       /\ command' = [command EXCEPT !.exit =
                          IF ~last THEN @ ELSE IF fatal \/ failures' # {} THEN "one" ELSE "zero"]
       /\ step' = IF last THEN Idle ELSE step
       /\ UNCHANGED <<saved, cloud, mem, held, missed, trouble>>

(* One output less to show; after the last one the command has succeeded.   *)
Shows ==
    /\ todo' = Tail(todo)
    /\ command' = [command EXCEPT !.exit = IF Tail(todo) = <<>> THEN "zero" ELSE @]

Found ==
    CASE Act = "role" -> HasOutputs("auth")
      [] Act = "collector" -> profile.monitoring # "off" /\ HasOutputs("monitoring")
      [] Act = "limits" -> profile.monitoring # "off" /\ profile.quota /\ HasOutputs("quota")

(* A plausible fault: the outputs are shown, and nothing is saved.          *)
OutputsOnlyShown ==
    /\ Running /\ Act \in Shown /\ Shows
    /\ UNCHANGED <<saved, cloud, step, mem, held, failures, missed, trouble>>

(* What the outputs say goes into the profile once more: the role of a      *)
(* direct federation, the collector's address, that of the quota service.   *)
OpenOutputs ==
    /\ Running /\ Act \in Shown /\ Found
    /\ todo' = <<[act |-> "save", stacks |-> {}]>> \o Tail(todo)
    /\ mem' = IF Act = "collector" THEN [mem EXCEPT !.endpoint = "current"] ELSE mem
    /\ file' = [file EXCEPT !.whole = FALSE]
    /\ UNCHANGED <<profile, region, prior, cloud, command, step, held, failures, missed, trouble>>

(* There is nothing to save, or so it seems because the outputs cannot be   *)
(* read.                                                                    *)
PassOver ==
    /\ Running /\ Act \in Shown /\ Shows
    /\ \/ (~Found \/ Act = "role") /\ NoTrouble /\ UNCHANGED missed
       \/ /\ Found /\ Trouble
          /\ IF Act = "collector" THEN Misses("late") ELSE UNCHANGED missed
    /\ UNCHANGED <<saved, cloud, step, mem, held, failures>>

WriteOutputs ==
    /\ Running /\ Act = "save" /\ Shows
    /\ file' = [whole |-> TRUE, at |-> mem]
    /\ UNCHANGED <<profile, region, prior, cloud, step, mem, held, failures, missed, trouble>>

(* Ctrl-C, the process is killed, or a save fails where nothing catches it: *)
(* in the middle of a write the file stays as it is.                        *)
Interrupt ==
    /\ Running /\ Trouble
    /\ command' = [command EXCEPT !.exit = "one"]
    /\ todo' = <<>> /\ step' = Idle
    /\ UNCHANGED <<saved, cloud, mem, held, failures, missed>>

Thread(s) ==
    \/ StartDeploy(s) \/ RefuseDeploy(s) \/ Recreate(s) \/ DeployEnds(s) \/ WaitTimeout(s)
    \/ StartDelete(s) \/ DeleteEnds(s) \/ OpenProfile(s) \/ WriteProfile(s)
    \/ OutputsUnread(s) \/ SaveFails(s)

Next ==
    \/ \E parallel \in BOOLEAN : DeployAll(parallel)
    \/ \E s \in Stacks : DeployOne(s) \/ Thread(s) \/ Settles(s)
    \/ \E only \in Stacks \cup {"all"} : Destroy(only)
    \/ \E c \in Profiles : Reconfigure(c)
    \/ WaveEnds \/ OpenOutputs \/ PassOver \/ WriteOutputs \/ Interrupt

Spec == Init /\ [][Next]_vars

-----------------------------------------------------------------------------
(* Properties.                                                              *)

DependsOn(s) ==
    CASE s \in {"monitoring", "distribution"} -> {"networking"}
      [] s = "quota" -> {"s3bucket"}
      [] s = "bootstrap" -> {"s3bucket", "websearch"}
      [] s \in {"dashboard", "cowork-dashboard", "analytics"} -> {"monitoring"}
      [] OTHER -> {}

(* A full deploy works on a stack only when those whose outputs it reads    *)
(* are settled: they are complete (the optional gateway at least tried),    *)
(* also when waves, earlier failures and timeouts are involved.             *)
SettledFirst ==
    Running /\ command.kind = "deploy" /\ command.only = "all" =>
        \A s \in Stacks : step[s] \in {"clearing", "waiting"} /\ Act = "deploy" =>
            \A d \in DependsOn(s) \cap Selected(profile) :
                /\ \A i \in DOMAIN todo : d \notin todo[i].stacks
                /\ d # "websearch" => cloud[d] = "complete"

(* A "destroy" that reports success has left none of the stacks it did not  *)
(* skip, whatever was refused, failed or took too long.                     *)
DestroyTells ==
    command.kind = "destroy" /\ command.only = "all" /\ command.exit = "zero" =>
        \A s \in Covered(profile) : cloud[s] = "absent"

(* A full deploy that reports success has left a profile that can be read,  *)
(* with the address of the collector that runs now, from which packages are *)
(* built.  The address is read and saved twice, and errors of both reads    *)
(* and of the first save are not told: one deploy in a row gets over the    *)
(* loss of either, one in waves only over that of the first, for another    *)
(* thread may have written the file after it.                               *)
EndpointSaved ==
    command.kind = "deploy" /\ command.only = "all" /\ command.exit = "zero" =>
        IF Central(profile)
        THEN "late" \notin missed \/ (~command.parallel /\ "early" \notin missed) =>
                file.whole /\ file.at.endpoint = "current"
        ELSE "early" \notin missed => file.whole

(* A deploy never deletes a stack the profile selects, other than a failed  *)
(* creation it is about to repeat.                                          *)
WantedSpared ==
    [][\A s \in Selected(profile) :
          command.kind = "deploy" /\ cloud'[s] = "deleting" => cloud[s] \in {"deleting", "rollback"}]_vars
=============================================================================
