------------------------------ MODULE Packaging ------------------------------
(***************************************************************************)
(* "ccwb package", "package_cb", "builds" and "distribute" (the modules of  *)
(* these names under cli/commands).  Packages are directories under dist/,  *)
(* built from the source tree on this machine or by AWS CodeBuild, whose    *)
(* projects read one source.zip and write one artifact per platform.  An    *)
(* action is one request to AWS, the writing of one part of a package, or   *)
(* the local work in between.                                               *)
(* One command runs at a time; builds go on while commands come and go.     *)
(***************************************************************************)
EXTENDS Naturals, Sequences

CONSTANTS
    Profiles, NoProfile,
    Setups,      \* what the profiles may be: [codebuild, zero, monitoring, distribution] of each
    Requests,    \* what --target-platform or the prompts may select
    MaxRevision, MaxPackages, MaxBuilds, MaxCommands, MaxTrouble

Platforms == {"windows", "linux", "mac"}
CODEBUILD_PLATFORMS == {"windows", "linux"}
Packs == Platforms \cup {"all-platforms"}
Parts == {"config", "sh", "bat", "settings", "extras"}

(* "zero": identity centre without quota, whose packages hold no binaries.  *)
ASSUME SetupsAssumption ==
    Setups \subseteq [Profiles -> [codebuild: BOOLEAN, zero: BOOLEAN, monitoring: BOOLEAN,
                                  distribution: {"page", "archive"}]]
ASSUME RequestsAssumption == Requests \subseteq (SUBSET Platforms) \ {{}}
ASSUME PackagingBoundsAssumption ==
    /\ MaxRevision \in Nat \ {0} /\ MaxPackages \in Nat /\ MaxBuilds \in Nat
    /\ MaxCommands \in Nat /\ MaxTrouble \in Nat /\ NoProfile \notin Profiles

VARIABLES
    setup,    \* what the profiles are
    revision, \* of the source tree
    clock,    \* how many builds have ended: the time by which files and builds compare
    dist,     \* the packages, oldest first
    cloud,    \* of each profile: source.zip, the builds and their artifacts
    latest,   \* latest-build.json, one for all profiles
    page,     \* the landing page's packages of each profile
    cmd,      \* the command that runs, or ran last
    trouble   \* what was refused, failed or was interrupted so far

packVars == <<setup, revision, clock, dist, cloud, latest, page, cmd, trouble>>

Nothing == [rev |-> 0, at |-> 0]
NoBuilds == [f \in CODEBUILD_PLATFORMS |-> 0]

Asleep == [kind |-> "none", profile |-> NoProfile, package |-> 0, pc |-> "off", targets |-> {},
           todo |-> {}, done |-> {}, failed |-> {}, started |-> NoBuilds, kept |-> FALSE,
           exit |-> "none", given |-> 0]

(* A landing page that was never used, or has what an earlier checkout      *)
(* published: a package for every platform.                                 *)
Unused == [f \in Packs |-> <<>>]
Earlier ==
    [f \in Packs |-> <<[g \in Platforms |->
        IF f \in {g, "all-platforms"} THEN [rev |-> 0, at |-> 1] ELSE Nothing]>>]

PackInit ==
    /\ setup \in Setups
    /\ revision = 1 /\ clock = 0 /\ dist = <<>>
    /\ cloud = [p \in Profiles |-> [source |-> 0, builds |-> <<>>, artifact |-> NoBuilds]]
    /\ latest = [profile |-> NoProfile, builds |-> NoBuilds]
    /\ \E before \in {Unused, Earlier} :
          page = [p \in Profiles |-> IF setup[p].distribution = "page" THEN before ELSE Unused]
    /\ cmd = Asleep /\ trouble = 0

Trouble == trouble < MaxTrouble /\ trouble' = trouble + 1
NoTrouble == UNCHANGED trouble
Running == cmd.exit = "running"
At(kind, pc) == Running /\ cmd.kind = kind /\ cmd.pc = pc
P == cmd.profile
Package == dist[cmd.package]
Newest(numbers) == {i \in numbers : \A j \in numbers : j <= i}
Files(i) == {f \in Platforms : dist[i].bins[f] # Nothing}

Goes(pc) == cmd' = [cmd EXCEPT !.pc = pc]
Exits(code) ==
    cmd' = [cmd EXCEPT !.exit = code, !.pc = "off", !.todo = {}, !.done = {}, !.failed = {}]
Starts(kind, p, pc, package, targets, todo) ==
    /\ ~Running /\ cmd.given < MaxCommands
    /\ cmd' = [Asleep EXCEPT !.kind = kind, !.profile = p, !.package = package, !.pc = pc,
                             !.targets = targets, !.todo = todo, !.exit = "running",
                             !.given = cmd.given + 1]

NewDirectory(p, built, helpers) ==
    /\ Len(dist) < MaxPackages
    /\ dist' = Append(dist, [profile |-> p, helpers |-> helpers, parts |-> {},
                             bins |-> [f \in Platforms |-> IF f \in built THEN [rev |-> revision, at |-> clock]
                                                                          ELSE Nothing]])

-----------------------------------------------------------------------------
(* ccwb package.                                                            *)

(* The binaries of "local" and, with monitoring, their otel-helpers, each   *)
(* of which may fail to build without stopping the others.                  *)
BuildsLocally(p, local) ==
    \E built \in SUBSET local :
        \E helpers \in IF setup[p].monitoring THEN SUBSET local ELSE {{}} :
            /\ IF built = local /\ (setup[p].monitoring => helpers = local) THEN NoTrouble ELSE Trouble
            /\ NewDirectory(p, built, helpers)

(* What is built on this machine.  Go builds for every platform.  The older *)
(* way, also taken where Go is missing or too old, has a tool for each; for *)
(* Windows only on Windows, and elsewhere, or without it, uses CodeBuild.   *)
BuiltHere(p, remote, targets) ==
    IF setup[p].zero THEN {} ELSE IF remote THEN targets \ {"windows"} ELSE targets

PackageStart(p, remote, targets) ==
    LET asks == remote /\ "windows" \in targets /\ ~setup[p].zero
    IN /\ Starts("package", p, IF asks THEN "codebuild" ELSE "finish", Len(dist) + 1, targets, {"windows"})
       /\ BuildsLocally(p, BuiltHere(p, remote, targets))
       /\ UNCHANGED <<setup, revision, clock, cloud, latest, page>>

(* An exception of the Go build ends the command, and leaves its directory  *)
(* behind with what was built before.                                       *)
GoBuildBreaks(p, targets) ==
    /\ ~setup[p].zero /\ ~Running /\ cmd.given < MaxCommands /\ Trouble
    /\ \E built \in SUBSET targets :
          \E helpers \in IF setup[p].monitoring THEN SUBSET targets ELSE {{}} : NewDirectory(p, built, helpers)
    /\ cmd' = [Asleep EXCEPT !.kind = "package", !.profile = p, !.package = Len(dist) + 1, !.targets = targets,
                             !.exit = "one", !.given = cmd.given + 1]
    /\ UNCHANGED <<setup, revision, clock, cloud, latest, page>>

(* A plausible fault: what monitoring needs is not looked at.               *)
IncompleteButForHelpers(built) ==
    LET pending == "windows" \in cmd.targets \ built /\ setup[P].codebuild
        missing == (cmd.targets \ built) \ (IF pending THEN {"windows"} ELSE {})
    IN ~setup[P].zero /\ (IF built = {} THEN ~pending ELSE missing # {})

(* Why the command fails though the package is there.  Windows counts as    *)
(* pending when CodeBuild is enabled, whether or not a build was started;   *)
(* and with Windows pending and nothing else built, nothing is missing.     *)
Incomplete(built) ==
    LET pending == "windows" \in cmd.targets \ built /\ setup[P].codebuild
        missing == (cmd.targets \ built) \ (IF pending THEN {"windows"} ELSE {})
    IN ~setup[P].zero /\ (IF built = {} THEN ~pending
                          ELSE missing # {} \/ (setup[P].monitoring /\ ~(built \subseteq Package.helpers)))

(* The parts of a package are written one after the other.  Whoever looks   *)
(* for packages takes one that has its configuration for finished.          *)
Writes(part) == dist' = [dist EXCEPT ![cmd.package].parts = @ \cup {part}]

(* "package_cb" goes without configuration and installers if the auth stack *)
(* does not answer.                                                         *)
CreateConfig ==
    /\ Running /\ cmd.pc = "finish"
    /\ \/ Writes("config") /\ Goes("installer") /\ NoTrouble
       \/ cmd.kind = "package_cb" /\ UNCHANGED dist /\ Goes("settings") /\ Trouble
    /\ UNCHANGED <<setup, revision, clock, cloud, latest, page>>

CreateInstaller ==
    /\ Running /\ cmd.pc = "installer" /\ Goes("batch")
    /\ Writes("sh")
    /\ UNCHANGED <<setup, revision, clock, cloud, latest, page, trouble>>

(* The installer of Windows, where there is something for it to install.    *)
InstallsOnWindows ==
    LET built == Files(cmd.package)
    IN "windows" \in built \/ setup[P].codebuild \/ (setup[P].zero /\ built = {})

CreateWindowsInstaller ==
    /\ Running /\ cmd.pc = "batch" /\ Goes("settings")
    /\ IF InstallsOnWindows THEN Writes("bat") ELSE UNCHANGED dist
    /\ UNCHANGED <<setup, revision, clock, cloud, latest, page, trouble>>

(* Settings that cannot be written, or lack the collector's address, stop   *)
(* neither "package" nor "package_cb".                                      *)
CreateClaudeSettings ==
    LET Next(code) == CASE cmd.kind = "package" -> Goes("extras")
                        [] cmd.kind = "package_cb" -> Goes(IF cmd.todo = {} THEN "latest" ELSE "codebuild")
                        [] OTHER -> Exits(code)
    IN /\ Running /\ cmd.pc = "settings"
       /\ \/ Writes("settings") /\ NoTrouble /\ Next("zero")
          \/ UNCHANGED dist /\ Trouble /\ Next("one")
       /\ UNCHANGED <<setup, revision, clock, cloud, latest, page>>

(* The extra files, and the end: one that is missing is fatal.              *)
PackageEnds ==
    /\ At("package", "extras")
    /\ \/ /\ Writes("extras") /\ NoTrouble
          /\ Exits(IF Incomplete(Files(cmd.package)) \/ "settings" \notin Package.parts THEN "one" ELSE "zero")
       \/ UNCHANGED dist /\ Exits("one") /\ Trouble
    /\ UNCHANGED <<setup, revision, clock, cloud, latest, page>>

(* --regenerate-installers: the newest directory's binaries in a new one,   *)
(* even if that one was never finished; extra files are left out.           *)
Regenerate(p) ==
    LET Copied(pc, exit) ==
            /\ \E newest \in Newest({i \in DOMAIN dist : dist[i].profile = p}) :
                  /\ Files(newest) # {}
                  /\ dist' = Append(dist, [dist[newest] EXCEPT !.parts = {}])
            /\ cmd' = [Asleep EXCEPT !.kind = "regenerate", !.profile = p, !.package = Len(dist) + 1,
                                     !.pc = pc, !.given = cmd.given + 1, !.exit = exit]
    IN /\ Len(dist) < MaxPackages /\ ~Running /\ cmd.given < MaxCommands
       /\ \/ Copied("finish", "running") /\ NoTrouble
          \/ Copied("off", "one") /\ Trouble \* the federation cannot be resolved
       /\ UNCHANGED <<setup, revision, clock, cloud, latest, page>>

-----------------------------------------------------------------------------
(* CodeBuild.                                                               *)

InProgress(p, f) ==
    \E i \in DOMAIN cloud[p].builds :
        cloud[p].builds[i].platform = f /\ cloud[p].builds[i].status \in {"queued", "running"}

(* "ccwb package_cb": platforms that are being built are left out, a Mac    *)
(* builds for itself, and the package is completed before CodeBuild is      *)
(* asked.  "package" only warns of a build in progress.                     *)
PackageCbStart(p, chosen) ==
    /\ setup[p].codebuild
    /\ Starts("package_cb", p, "finish", Len(dist) + 1, chosen, {f \in chosen : ~InProgress(p, f)})
    /\ \E local \in {{}, {"mac"}} : BuildsLocally(p, local)
    /\ UNCHANGED <<setup, revision, clock, cloud, latest, page>>

GivesUp == IF cmd.kind = "package" THEN Goes("finish") ELSE Exits("one")

(* A plausible fault: a source.zip that is there already is used.           *)
SourceInBucket == IF cloud[P].source = 0 THEN revision ELSE cloud[P].source

(* What is uploaded as source.zip: the source tree as it is.                *)
PackageSource == revision

(* A plausible fault: the build is started before its source is there.      *)
UploadSourceLater ==
    /\ Running /\ cmd.pc = "codebuild" /\ Goes("start")
    /\ UNCHANGED <<setup, revision, clock, dist, cloud, latest, page, trouble>>

UploadSource ==
    /\ Running /\ cmd.pc = "codebuild"
    /\ \/ ~setup[P].codebuild /\ Goes("finish") /\ UNCHANGED cloud /\ NoTrouble
       \/ /\ setup[P].codebuild /\ Goes("start") /\ NoTrouble
          /\ cloud' = [cloud EXCEPT ![P].source = PackageSource]
       \/ setup[P].codebuild /\ GivesUp /\ UNCHANGED cloud /\ Trouble
    /\ UNCHANGED <<setup, revision, clock, dist, latest, page>>

(* One build per platform.  "package_cb" goes on when one cannot be         *)
(* started.                                                                 *)
StartBuild(f) ==
    LET rest == cmd.todo \ {f}
        next == IF rest = {} THEN "latest" ELSE "start"
    IN /\ Running /\ cmd.pc = "start" /\ f \in cmd.todo
       /\ \/ /\ Len(cloud[P].builds) < MaxBuilds /\ NoTrouble
             /\ cloud' = [cloud EXCEPT ![P].builds =
                    Append(@, [platform |-> f, status |-> "queued", rev |-> 0, asked |-> revision, end |-> 0])]
             /\ cmd' = [cmd EXCEPT !.todo = rest, !.pc = next, !.started[f] = Len(cloud[P].builds) + 1]
          \/ /\ Trouble /\ UNCHANGED cloud
             /\ cmd' = [cmd EXCEPT !.todo = rest, !.pc = IF cmd.kind = "package" THEN "finish" ELSE next]
       /\ UNCHANGED <<setup, revision, clock, dist, latest, page>>

(* The builds are noted in latest-build.json.  "package_cb" succeeds even   *)
(* if none could be started.                                                *)
WriteLatest ==
    /\ Running /\ cmd.pc = "latest"
    /\ latest' = IF cmd.started = NoBuilds THEN latest ELSE [profile |-> P, builds |-> cmd.started]
    /\ IF cmd.kind = "package" THEN Goes("finish") ELSE Exits("zero")
    /\ UNCHANGED <<setup, revision, clock, dist, cloud, page, trouble>>

(* A build reads source.zip when it gets going, not when it was asked for.  *)
BuildBegins(p, i) ==
    /\ cloud[p].builds[i].status = "queued"
    /\ cloud' = [cloud EXCEPT ![p].builds[i].status = "running", ![p].builds[i].rev = cloud[p].source]
    /\ UNCHANGED <<setup, revision, clock, dist, latest, page, cmd, trouble>>

BuildEnds(p, i) ==
    LET build == cloud[p].builds[i]
        Over(status) == [cloud EXCEPT ![p].builds[i].status = status, ![p].builds[i].end = clock + 1]
    IN /\ build.status = "running" /\ clock' = clock + 1
       /\ \/ cloud' = [Over("succeeded") EXCEPT ![p].artifact[build.platform] = build.rev] /\ NoTrouble
          \/ cloud' = Over("failed") /\ Trouble
       /\ UNCHANGED <<setup, revision, dist, latest, page, cmd>>

(* The artifact of a platform, whichever build wrote it last, is unpacked   *)
(* into a package.                                                          *)
Unpacked(i, f) ==
    [dist EXCEPT ![i].bins[f] = [rev |-> cloud[P].artifact[f], at |-> clock], ![i].helpers = @ \cup {f}]
Downloadable(f) == setup[P].codebuild /\ cloud[P].artifact[f] # 0

-----------------------------------------------------------------------------
(* ccwb builds --status latest --download.                                  *)

(* What was noted last, whichever profile it was for, decides which         *)
(* platforms are fetched; they go to the newest package of all profiles.    *)
BuildsCheck(p) ==
    LET ok == {f \in CODEBUILD_PLATFORMS : /\ latest.builds[f] # 0
                                           /\ cloud[latest.profile].builds[latest.builds[f]].status = "succeeded"}
    IN /\ latest.profile # NoProfile /\ ok # {} /\ setup[p].codebuild
       /\ \E newest \in Newest({i \in DOMAIN dist : "config" \in dist[i].parts}) :
             Starts("builds", p, "fetch", newest, ok, ok)
       /\ UNCHANGED <<setup, revision, clock, dist, cloud, latest, page, trouble>>

FetchArtifact(f) ==
    LET rest == cmd.todo \ {f}
    IN /\ At("builds", "fetch") /\ f \in cmd.todo
       /\ \/ /\ Downloadable(f) /\ dist' = Unpacked(cmd.package, f) /\ NoTrouble
             /\ IF rest = {} THEN Exits("zero") ELSE cmd' = [cmd EXCEPT !.todo = rest, !.done = @ \cup {f}]
          \/ /\ UNCHANGED dist /\ IF Downloadable(f) THEN Trouble ELSE NoTrouble
             /\ IF rest = {} THEN Exits(IF cmd.done = {} THEN "one" ELSE "zero")
                             ELSE cmd' = [cmd EXCEPT !.todo = rest]
       /\ UNCHANGED <<setup, revision, clock, cloud, latest, page>>

-----------------------------------------------------------------------------
(* ccwb distribute.                                                         *)

(* A package has its configuration or an installer.  --latest takes the     *)
(* profile's own newest one, but the wizard and --build-profile take any.   *)
DistributeStart(p, i) ==
    /\ i \in DOMAIN dist /\ dist[i].parts \cap {"config", "sh", "bat"} # {}
    /\ Starts("distribute", p, "windows", i, {}, {})
    /\ UNCHANGED <<setup, revision, clock, dist, cloud, latest, page, trouble>>

WindowsBuilds == {i \in DOMAIN cloud[P].builds : cloud[P].builds[i].platform = "windows"}
LastOf(statuses) ==
    {cloud[P].builds[i] : i \in Newest({i \in WindowsBuilds : cloud[P].builds[i].status \in statuses})}

(* Whether artifacts are to be fetched before publishing: a package without *)
(* a Windows binary takes them unless a build is in progress; and for an    *)
(* archive a binary is replaced by a newer one, and the build noted in      *)
(* latest-build.json, of any profile and platform, is asked too.            *)
Fetches ==
    LET exe == Package.bins["windows"]
        noted == {f \in CODEBUILD_PLATFORMS : latest.builds[f] # 0}
        first == IF "windows" \in noted THEN "windows" ELSE "linux"
    IN \/ exe = Nothing /\ \E b \in LastOf({"queued", "running", "succeeded"}) : b.status = "succeeded"
       \/ /\ setup[P].distribution # "page"
          /\ \/ exe # Nothing /\ \E b \in LastOf({"succeeded"}) : b.end > exe.at
             \/ exe = Nothing /\ noted # {}
                   /\ cloud[latest.profile].builds[latest.builds[first]].status = "succeeded"

FetchWindows ==
    LET next == IF setup[P].distribution = "page" THEN "detect" ELSE "archive"
        wanted == Fetches /\ ~(setup[P].zero /\ setup[P].distribution = "page")
    IN /\ At("distribute", "windows") /\ Goes(next)
       /\ \/ wanted /\ Downloadable("windows") /\ dist' = Unpacked(cmd.package, "windows") /\ NoTrouble
          \/ /\ UNCHANGED dist
             /\ IF wanted /\ Downloadable("windows") THEN Trouble ELSE NoTrouble
       /\ UNCHANGED <<setup, revision, clock, cloud, latest, page>>

(* The platforms of a package for the landing page: one binary is enough,   *)
(* and a package without binaries, not meant to have any, serves those it   *)
(* has an installer for.                                                    *)
Available ==
    LET found == {f \in Platforms : Package.bins[f] # Nothing \/ f \in Package.helpers}
    IN IF found # {} \/ ~setup[P].zero THEN found
       ELSE {f \in Platforms : (IF f = "windows" THEN "bat" ELSE "sh") \in Package.parts}

Content(f) == IF f = "all-platforms" THEN Package.bins
              ELSE [g \in Platforms |-> IF g = f THEN Package.bins[g] ELSE Nothing]

(* A plausible fault: what is not part of the build, and more, is deleted   *)
(* before it is known that uploads succeed.                                 *)
DetectAndClear ==
    /\ At("distribute", "detect")
    /\ IF Available = {} THEN Exits("one") /\ UNCHANGED page
       ELSE /\ cmd' = [cmd EXCEPT !.pc = "upload", !.targets = Available \cup {"all-platforms"},
                                  !.todo = Available \cup {"all-platforms"}]
            /\ page' = [page EXCEPT ![P] = [f \in Packs |-> <<>>]]
    /\ UNCHANGED <<setup, revision, clock, dist, cloud, latest, trouble>>

Detect ==
    /\ At("distribute", "detect")
    /\ IF Available = {} THEN Exits("one")
       ELSE cmd' = [cmd EXCEPT !.pc = "upload", !.targets = Available \cup {"all-platforms"},
                               !.todo = Available \cup {"all-platforms"}]
    /\ UNCHANGED <<setup, revision, clock, dist, cloud, latest, page, trouble>>

(* Platforms are taken in a fixed order.                                    *)
Turn == [f \in Packs |-> CASE f = "windows" -> 1 [] f = "linux" -> 2 [] f = "mac" -> 3 [] OTHER -> 4]
First(set) == {f \in set : \A g \in set : Turn[f] <= Turn[g]}

(* packages/<platform>/latest.zip is overwritten, or stays as it was.       *)
UploadPack(f) ==
    LET rest == cmd.todo \ {f}
    IN /\ At("distribute", "upload") /\ f \in First(cmd.todo)
       /\ \/ /\ page' = [page EXCEPT ![P][f] = <<Content(f)>>] /\ NoTrouble
             /\ cmd' = [cmd EXCEPT !.todo = rest, !.done = @ \cup {f},
                                   !.pc = IF rest = {} THEN "sweep" ELSE @]
          \/ /\ Trouble /\ UNCHANGED page
             /\ cmd' = [cmd EXCEPT !.todo = rest, !.failed = @ \cup {f},
                                   !.pc = IF rest = {} THEN "sweep" ELSE @]
       /\ UNCHANGED <<setup, revision, clock, dist, cloud, latest>>

(* A plausible fault: something was uploaded, and that will do.             *)
PublishedSome == cmd.done # {}
Published == cmd.done # {} /\ cmd.failed = {}

Stale == {f \in Packs \ cmd.targets : page[P][f] # <<>>}

(* What this build does not have is deleted once something was uploaded; a  *)
(* deletion that fails is ignored.                                          *)
SweepStale(f) ==
    /\ At("distribute", "sweep") /\ cmd.done # {} /\ f \in First(Stale \ cmd.todo)
    /\ \/ page' = [page EXCEPT ![P][f] = <<>>] /\ UNCHANGED cmd /\ NoTrouble
       \/ UNCHANGED page /\ cmd' = [cmd EXCEPT !.kept = TRUE, !.todo = @ \cup {f}] /\ Trouble
    /\ UNCHANGED <<setup, revision, clock, dist, cloud, latest>>

PublishEnds ==
    /\ At("distribute", "sweep") /\ (cmd.done # {} => Stale \subseteq cmd.todo)
    /\ Exits(IF Published THEN "zero" ELSE "one")
    /\ UNCHANGED <<setup, revision, clock, dist, cloud, latest, page, trouble>>

(* Without a landing page the package becomes one archive or, with          *)
(* --per-os, several; how they are handed on is left out.  One without      *)
(* Windows is made only if that is confirmed, and one without any binary    *)
(* only if it is not meant to have any.                                     *)
Archive ==
    /\ At("distribute", "archive")
    /\ IF Files(cmd.package) = {} /\ ~setup[P].zero THEN Exits("one") /\ NoTrouble
       ELSE \/ Exits("zero") /\ NoTrouble
            \/ Exits("one") /\ Trouble
    /\ UNCHANGED <<setup, revision, clock, dist, cloud, latest, page>>

-----------------------------------------------------------------------------
Interrupt ==
    /\ Running /\ Trouble
    /\ Exits("killed")
    /\ UNCHANGED <<setup, revision, clock, dist, cloud, latest, page>>

EditSource ==
    /\ ~Running /\ revision < MaxRevision
    /\ revision' = revision + 1
    /\ UNCHANGED <<setup, clock, dist, cloud, latest, page, cmd, trouble>>

PackNext ==
    \/ \E p \in Profiles :
          \/ \E remote \in BOOLEAN, targets \in Requests : PackageStart(p, remote, targets)
          \/ \E targets \in Requests : GoBuildBreaks(p, targets)
          \/ \E targets \in Requests : PackageCbStart(p, targets \cap CODEBUILD_PLATFORMS)
          \/ Regenerate(p) \/ BuildsCheck(p)
          \/ \E i \in DOMAIN dist : DistributeStart(p, i)
          \/ \E i \in DOMAIN cloud[p].builds : BuildBegins(p, i) \/ BuildEnds(p, i)
    \/ CreateConfig \/ CreateInstaller \/ CreateWindowsInstaller \/ CreateClaudeSettings \/ PackageEnds
    \/ UploadSource \/ WriteLatest
    \/ \E f \in Packs : StartBuild(f) \/ FetchArtifact(f) \/ UploadPack(f) \/ SweepStale(f)
    \/ FetchWindows \/ Detect \/ PublishEnds \/ Archive
    \/ Interrupt \/ EditSource

PackSpec == PackInit /\ [][PackNext]_packVars

-----------------------------------------------------------------------------
(* Properties.                                                              *)

Bin == [rev: 0 .. MaxRevision, at: Nat]
Build == [platform: CODEBUILD_PLATFORMS, status: {"queued", "running", "succeeded", "failed"},
          rev: 0 .. MaxRevision, asked: 1 .. MaxRevision, end: Nat]
Directory ==
    [profile: Profiles, bins: [Platforms -> Bin], helpers: SUBSET Platforms, parts: SUBSET Parts]
Bucket ==
    [source: 0 .. MaxRevision, builds: Seq(Build), artifact: [CODEBUILD_PLATFORMS -> 0 .. MaxRevision]]
Noted == [CODEBUILD_PLATFORMS -> 0 .. MaxBuilds]
Command ==
    [kind: {"none", "package", "regenerate", "package_cb", "builds", "distribute"},
     profile: Profiles \cup {NoProfile}, package: 0 .. MaxPackages,
     pc: {"off", "finish", "installer", "batch", "settings", "extras", "codebuild", "start", "latest",
          "fetch", "windows", "detect", "upload", "sweep", "archive"},
     targets: SUBSET Packs, todo: SUBSET Packs, done: SUBSET Packs, failed: SUBSET Packs,
     started: Noted, kept: BOOLEAN, exit: {"none", "running", "zero", "one", "killed"},
     given: 0 .. MaxCommands]

PackTypeOK ==
    /\ setup \in Setups
    /\ revision \in 1 .. MaxRevision /\ clock \in Nat
    /\ dist \in Seq(Directory) /\ Len(dist) <= MaxPackages
    /\ cloud \in [Profiles -> Bucket]
    /\ \A p \in Profiles :
          /\ Len(cloud[p].builds) <= MaxBuilds
          /\ \A i \in DOMAIN cloud[p].builds :
                cloud[p].builds[i].status = "queued" <=> cloud[p].builds[i].rev = 0
    /\ latest \in [profile: Profiles \cup {NoProfile}, builds: Noted]
    /\ page \in [Profiles -> [Packs -> Seq([Platforms -> Bin])]]
    /\ cmd \in Command
    /\ trouble \in 0 .. MaxTrouble

(* A "package" that succeeds has written every part, the Windows installer  *)
(* if it is for Windows, and, without CodeBuild, a binary, and with         *)
(* monitoring a helper, for each platform it was asked for.                 *)
PackageTellsLocally ==
    cmd.kind = "package" /\ cmd.exit = "zero" =>
        /\ Parts \ {"bat"} \subseteq Package.parts
        /\ "windows" \in Files(cmd.package) => "bat" \in Package.parts
        /\ ~setup[P].codebuild /\ ~setup[P].zero =>
               /\ cmd.targets \subseteq Files(cmd.package)
               /\ setup[P].monitoring => cmd.targets \subseteq Package.helpers

(* A build is made from the source of the command that asked for it, or of  *)
(* a later one: never from what an earlier command left in the bucket.      *)
BuildsOwnSource ==
    \A p \in Profiles : \A i \in DOMAIN cloud[p].builds :
        cloud[p].builds[i].status # "queued" => cloud[p].builds[i].rev >= cloud[p].builds[i].asked

(* A "distribute" to the landing page that succeeds leaves on it exactly    *)
(* the platforms of its package, and of each the content of that package;   *)
(* unless a deletion of a stale one failed, which is ignored.               *)
PublishedWhole ==
    cmd.kind = "distribute" /\ cmd.exit = "zero" /\ setup[P].distribution = "page" /\ ~cmd.kept =>
        \A f \in Packs :
            page[P][f] = IF f \in Available \cup {"all-platforms"} THEN <<Content(f)>> ELSE <<>>

(* The landing page never stops serving a platform the package being        *)
(* published has, and stops serving another one only when something of this *)
(* package is served, whatever fails and whenever the command is killed.    *)
PageKeepsServing ==
    [][\A p \in Profiles, f \in Packs :
          page[p][f] # <<>> /\ page'[p][f] = <<>> =>
              /\ p = P /\ f \notin Available \cup {"all-platforms"}
              /\ \E g \in Packs : page[p][g] = <<Content(g)>>]_packVars
=============================================================================
