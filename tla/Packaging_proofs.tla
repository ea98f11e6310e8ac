--------------------------- MODULE Packaging_proofs ---------------------------
(***************************************************************************)
(* Theorems about Packaging, for any profiles, setups, requests and bounds. *)
(* Shape, an inductive invariant, ties the command that runs to its         *)
(* package and the builds to their source.  What a package has when its     *)
(* command ends (Told) and what the landing page has (Shown) are inductive  *)
(* on top of it, and neither needs the other.                               *)
(***************************************************************************)
EXTENDS Packaging, TLAPS

-----------------------------------------------------------------------------
(* The inductive invariants.                                               *)

(* A command has a profile and a package; one that builds or fetches has   *)
(* to do with the platforms of CodeBuild only.                             *)
Building == {"finish", "installer", "batch", "settings", "extras", "codebuild", "start", "latest", "fetch"}
Placed ==
    /\ ~Running => cmd.pc = "off"
    /\ Running => cmd.kind # "none"
    /\ cmd.kind # "none" => P \in Profiles /\ cmd.package \in DOMAIN dist
    /\ cmd.pc \in Building => cmd.todo \subseteq CODEBUILD_PLATFORMS

(* What is in the bucket is of the present revision or before, and at      *)
(* least what each build was asked for; when builds are about to be        *)
(* started, it is the present revision, for nobody edits meanwhile.        *)
Sourced ==
    /\ \A p \in Profiles :
          /\ cloud[p].source <= revision
          /\ \A i \in DOMAIN cloud[p].builds :
                LET b == cloud[p].builds[i]
                IN b.asked <= cloud[p].source /\ (b.status # "queued" => b.rev >= b.asked)
    /\ cmd.pc = "start" => cloud[P].source = revision

Shape == PackTypeOK /\ Placed /\ Sourced

(* Two parts of Shape that lemmas speak of: the buckets with their builds, *)
(* and the variables most actions leave alone.                             *)
Buckets ==
    /\ cloud \in [Profiles -> Bucket]
    /\ \A p \in Profiles :
          /\ Len(cloud[p].builds) <= MaxBuilds
          /\ cloud[p].source <= revision
          /\ \A i \in DOMAIN cloud[p].builds :
                LET b == cloud[p].builds[i]
                IN /\ b.status = "queued" <=> b.rev = 0
                   /\ b.asked <= cloud[p].source
                   /\ b.status # "queued" => b.rev >= b.asked
Elsewhere ==
    /\ latest \in [profile: Profiles \cup {NoProfile}, builds: Noted]
    /\ page \in [Profiles -> [Packs -> Seq([Platforms -> Bin])]]
    /\ trouble \in 0 .. MaxTrouble

(* The parts written so far.                                               *)
Written ==
    cmd.kind = "package" =>
        /\ cmd.pc \in {"installer", "batch", "settings", "extras"} => "config" \in Package.parts
        /\ cmd.pc \in {"batch", "settings", "extras"} => "sh" \in Package.parts
        /\ cmd.pc \in {"settings", "extras"} => ("windows" \in Files(cmd.package) => "bat" \in Package.parts)

(* What is on the landing page so far.                                     *)
Publishing ==
    cmd.kind = "distribute" /\ Running =>
        /\ cmd.pc \in {"windows", "detect", "upload", "sweep", "archive"}
        /\ cmd.pc \in {"detect", "upload", "sweep"} => setup[P].distribution = "page"
        /\ cmd.pc = "archive" => setup[P].distribution # "page"
        /\ cmd.pc \in {"windows", "detect"} => cmd.done = {} /\ cmd.failed = {} /\ ~cmd.kept
        /\ cmd.pc \in {"upload", "sweep"} =>
              /\ cmd.targets = Available \cup {"all-platforms"}
              /\ \A f \in cmd.done : page[P][f] = <<Content(f)>>
        /\ cmd.pc = "upload" => cmd.todo \cup cmd.done \cup cmd.failed = cmd.targets /\ ~cmd.kept
        /\ cmd.pc = "sweep" => /\ cmd.done \cup cmd.failed = cmd.targets
                               /\ ~cmd.kept => cmd.todo = {}

-----------------------------------------------------------------------------
(* What the pieces of the actions do.                                      *)

LEMMA TroubleTyped ==
    ASSUME Shape, Trouble \/ NoTrouble
    PROVE  trouble' \in 0 .. MaxTrouble
BY PackagingBoundsAssumption DEF Shape, PackTypeOK, Trouble, NoTrouble

LEMMA NoBuildsNoted == NoBuilds \in Noted
BY PackagingBoundsAssumption DEF NoBuilds, Noted

LEMMA CommandTyped ==
    ASSUME Shape
    PROVE  cmd \in Command
BY DEF Shape, PackTypeOK

LEMMA OneMoreGiven ==
    ASSUME Shape, cmd.given < MaxCommands
    PROVE  cmd.given + 1 \in 0 .. MaxCommands
<1>1. cmd.given \in 0 .. MaxCommands
  BY CommandTyped DEF Command
<1>2. QED
  BY <1>1, PackagingBoundsAssumption

(* A command that has just been started.                                   *)
Fresh(kind, p, pc, package, targets, todo) ==
    /\ ~Running /\ cmd' \in Command
    /\ cmd'.kind = kind /\ cmd'.profile = p /\ cmd'.package = package /\ cmd'.pc = pc
    /\ cmd'.targets = targets /\ cmd'.todo = todo /\ cmd'.done = {} /\ cmd'.failed = {}
    /\ cmd'.started = NoBuilds /\ ~cmd'.kept /\ cmd'.exit = "running"

LEMMA CommandStarts ==
    ASSUME Shape, NEW kind, NEW p, NEW pc, NEW package, NEW targets, NEW todo,
           kind \in {"package", "regenerate", "package_cb", "builds", "distribute"},
           p \in Profiles, package \in 0 .. MaxPackages,
           pc \in {"finish", "codebuild", "latest", "fetch", "windows"},
           targets \in SUBSET Packs, todo \in SUBSET Packs,
           Starts(kind, p, pc, package, targets, todo)
    PROVE  Fresh(kind, p, pc, package, targets, todo)
<1>1. /\ ~Running /\ cmd.given < MaxCommands
      /\ cmd' = [Asleep EXCEPT !.kind = kind, !.profile = p, !.package = package, !.pc = pc,
                               !.targets = targets, !.todo = todo, !.exit = "running",
                               !.given = cmd.given + 1]
  BY DEF Starts
<1>2. cmd' = [kind |-> kind, profile |-> p, package |-> package, pc |-> pc, targets |-> targets,
              todo |-> todo, done |-> {}, failed |-> {}, started |-> NoBuilds, kept |-> FALSE,
              exit |-> "running", given |-> cmd.given + 1]
  BY <1>1 DEF Asleep
<1>3. cmd.given + 1 \in 0 .. MaxCommands
  BY <1>1, OneMoreGiven
<1>4. cmd' \in Command
  BY <1>2, <1>3, NoBuildsNoted DEF Command
<1>5. /\ cmd'.kind = kind /\ cmd'.profile = p /\ cmd'.package = package /\ cmd'.pc = pc
      /\ cmd'.targets = targets /\ cmd'.todo = todo /\ cmd'.done = {} /\ cmd'.failed = {}
      /\ cmd'.started = NoBuilds /\ ~cmd'.kept /\ cmd'.exit = "running"
  BY <1>2
<1>6. QED
  BY <1>1, <1>4, <1>5 DEF Fresh

LEMMA CommandGoes ==
    ASSUME Shape, NEW pc \in {"finish", "installer", "batch", "settings", "extras", "codebuild", "start",
                              "latest", "fetch", "windows", "detect", "upload", "sweep", "archive"},
           Goes(pc)
    PROVE  /\ cmd' \in Command /\ cmd'.pc = pc
           /\ cmd'.kind = cmd.kind /\ cmd'.profile = cmd.profile /\ cmd'.package = cmd.package
           /\ cmd'.targets = cmd.targets /\ cmd'.todo = cmd.todo /\ cmd'.done = cmd.done
           /\ cmd'.failed = cmd.failed /\ cmd'.started = cmd.started /\ cmd'.kept = cmd.kept
           /\ cmd'.exit = cmd.exit
BY DEF Shape, PackTypeOK, Command, Goes

LEMMA CommandExits ==
    ASSUME Shape, NEW code \in {"zero", "one", "killed"}, Exits(code)
    PROVE  /\ cmd' \in Command /\ cmd'.pc = "off" /\ cmd'.exit = code
           /\ cmd'.kind = cmd.kind /\ cmd'.profile = cmd.profile /\ cmd'.package = cmd.package
           /\ cmd'.targets = cmd.targets /\ cmd'.todo = {} /\ cmd'.started = cmd.started
           /\ cmd'.kept = cmd.kept
BY DEF Shape, PackTypeOK, Command, Exits

LEMMA DirectoryAdded ==
    ASSUME Shape, NEW d \in Directory, Len(dist) < MaxPackages, dist' = Append(dist, d)
    PROVE  /\ dist' \in Seq(Directory) /\ Len(dist') = Len(dist) + 1 /\ Len(dist') <= MaxPackages
           /\ Len(dist) + 1 \in 0 .. MaxPackages /\ Len(dist) + 1 \in DOMAIN dist'
           /\ \A i \in DOMAIN dist : i \in DOMAIN dist' /\ dist'[i] = dist[i]
           /\ dist'[Len(dist) + 1] = d
<1>1. dist \in Seq(Directory) /\ Len(dist) \in Nat /\ MaxPackages \in Nat
  BY PackagingBoundsAssumption DEF Shape, PackTypeOK
<1>2. /\ dist' \in Seq(Directory) /\ Len(dist') = Len(dist) + 1 /\ dist'[Len(dist) + 1] = d
      /\ \A i \in 1 .. Len(dist) : dist'[i] = dist[i]
  BY <1>1
<1>3. DOMAIN dist = 1 .. Len(dist) /\ DOMAIN dist' = 1 .. Len(dist')
  BY <1>1, <1>2
<1>4. QED
  BY <1>1, <1>2, <1>3

LEMMA DirectoryMade ==
    ASSUME Shape, NEW p \in Profiles, NEW built \in SUBSET Platforms, NEW helpers \in SUBSET Platforms,
           NewDirectory(p, built, helpers)
    PROVE  /\ dist' \in Seq(Directory) /\ Len(dist') = Len(dist) + 1 /\ Len(dist') <= MaxPackages
           /\ Len(dist) + 1 \in 0 .. MaxPackages /\ Len(dist) + 1 \in DOMAIN dist'
           /\ \A i \in DOMAIN dist : i \in DOMAIN dist' /\ dist'[i] = dist[i]
<1> DEFINE d == [profile |-> p, helpers |-> helpers, parts |-> {},
                 bins |-> [f \in Platforms |-> IF f \in built THEN [rev |-> revision, at |-> clock]
                                                              ELSE Nothing]]
<1>1. Len(dist) < MaxPackages /\ dist' = Append(dist, d)
  BY DEF NewDirectory
<1>2. d \in Directory
  BY PackagingBoundsAssumption DEF Directory, Bin, Nothing, Shape, PackTypeOK
<1> HIDE DEF d
<1>3. QED
  BY <1>1, <1>2, DirectoryAdded

LEMMA PartWritten ==
    ASSUME Shape, Running, NEW part \in Parts, Writes(part)
    PROVE  /\ dist' \in Seq(Directory) /\ Len(dist') = Len(dist) /\ DOMAIN dist' = DOMAIN dist
           /\ cmd.package \in DOMAIN dist
           /\ \A i \in DOMAIN dist : i # cmd.package => dist'[i] = dist[i]
           /\ dist'[cmd.package].parts = Package.parts \cup {part}
           /\ dist'[cmd.package].bins = Package.bins /\ dist'[cmd.package].helpers = Package.helpers
<1> DEFINE d == [Package EXCEPT !.parts = @ \cup {part}]
<1>1. cmd.package \in DOMAIN dist /\ dist \in Seq(Directory)
  BY DEF Shape, Placed, PackTypeOK
<1>2. Package \in Directory
  BY <1>1 DEF Package
<1>3. d \in Directory /\ d.parts = Package.parts \cup {part} /\ d.bins = Package.bins
      /\ d.helpers = Package.helpers
  BY <1>2 DEF Directory
<1>4. dist' = [dist EXCEPT ![cmd.package] = d]
  BY DEF Writes, Package
<1> HIDE DEF d
<1>5. /\ dist' \in Seq(Directory) /\ Len(dist') = Len(dist) /\ DOMAIN dist' = DOMAIN dist
      /\ dist'[cmd.package] = d /\ \A i \in DOMAIN dist : i # cmd.package => dist'[i] = dist[i]
  BY <1>1, <1>3, <1>4
<1>6. QED
  BY <1>1, <1>3, <1>5

(* An artifact of CodeBuild put into a package.                            *)
LEMMA ArtifactUnpacked ==
    ASSUME Shape, Running, NEW f \in CODEBUILD_PLATFORMS, dist' = Unpacked(cmd.package, f)
    PROVE  dist' \in Seq(Directory) /\ Len(dist') = Len(dist) /\ DOMAIN dist' = DOMAIN dist
<1> DEFINE i == cmd.package
           bin == [rev |-> cloud[P].artifact[f], at |-> clock]
           d == [dist[i] EXCEPT !.bins[f] = bin]
           e == [d EXCEPT !.helpers = @ \cup {f}]
<1>1. i \in DOMAIN dist /\ dist \in Seq(Directory) /\ P \in Profiles /\ cloud[P] \in Bucket /\ clock \in Nat
  BY DEF Shape, Placed, PackTypeOK
<1>2. bin \in Bin
  BY <1>1 DEF Bucket, Bin
<1>3. f \in Platforms /\ dist[i] \in Directory
  BY <1>1 DEF CODEBUILD_PLATFORMS, Platforms
<1> HIDE DEF bin
<1>4. d \in Directory
  BY <1>2, <1>3 DEF Directory
<1>5. dist' = [dist EXCEPT ![i] = e]
  BY <1>1 DEF Unpacked, bin
<1> HIDE DEF d
<1>6. e \in Directory
  BY <1>3, <1>4 DEF Directory
<1> HIDE DEF e
<1>7. QED
  BY <1>1, <1>5, <1>6

-----------------------------------------------------------------------------
(* Shape from its parts.                                                   *)

LEMMA BucketsTyped ==
    ASSUME Shape
    PROVE  Buckets
BY DEF Shape, PackTypeOK, Sourced, Buckets

LEMMA BucketsKept ==
    ASSUME Shape, UNCHANGED <<cloud, revision>>
    PROVE  Buckets'
BY BucketsTyped DEF Buckets

LEMMA ElsewhereKept ==
    ASSUME Shape, UNCHANGED <<latest, page>>, Trouble \/ NoTrouble
    PROVE  Elsewhere'
BY TroubleTyped DEF Shape, PackTypeOK, Elsewhere

LEMMA ShapeMade ==
    ASSUME Shape, setup' = setup, revision' \in 1 .. MaxRevision, clock' \in Nat,
           dist' \in Seq(Directory), Len(dist') <= MaxPackages, Buckets', Elsewhere',
           cmd' \in Command, Placed', cmd'.pc = "start" => cloud'[cmd'.profile].source = revision'
    PROVE  Shape'
<1>1. PackTypeOK'
  BY DEF Shape, PackTypeOK, Buckets, Elsewhere
<1>2. Sourced'
  BY DEF Sourced, Buckets, P
<1>3. QED
  BY <1>1, <1>2 DEF Shape

(* A step of the command that runs: what it is about stays.                *)
LEMMA ShapeGoes ==
    ASSUME Shape, Running, UNCHANGED <<setup, revision, clock, cloud>>, Elsewhere',
           dist' \in Seq(Directory), Len(dist') <= MaxPackages, DOMAIN dist \subseteq DOMAIN dist',
           cmd' \in Command, UNCHANGED <<cmd.kind, cmd.profile, cmd.package>>,
           cmd'.pc # "off" => cmd'.exit = "running",
           cmd'.exit # "running" => cmd'.pc = "off",
           cmd'.pc \in Building => cmd'.todo \subseteq CODEBUILD_PLATFORMS,
           cmd'.pc = "start" => cloud[P].source = revision
    PROVE  Shape'
<1>1. Placed'
  BY DEF Shape, Placed, Running, P
<1>2. Buckets' /\ revision' \in 1 .. MaxRevision /\ clock' \in Nat
  BY BucketsKept DEF Shape, PackTypeOK
<1>3. QED
  BY <1>1, <1>2, ShapeMade DEF P

(* A step that starts a command.                                           *)
LEMMA ShapeStarts ==
    ASSUME Shape, UNCHANGED <<setup, revision, clock, cloud>>, Elsewhere',
           dist' \in Seq(Directory), Len(dist') <= MaxPackages,
           cmd' \in Command, cmd'.kind # "none", cmd'.profile \in Profiles, cmd'.package \in DOMAIN dist',
           cmd'.pc # "start", cmd'.exit # "running" => cmd'.pc = "off",
           cmd'.pc \in Building => cmd'.todo \subseteq CODEBUILD_PLATFORMS
    PROVE  Shape'
<1>1. Placed'
  BY DEF Placed, Running, P
<1>2. Buckets' /\ revision' \in 1 .. MaxRevision /\ clock' \in Nat
  BY BucketsKept DEF Shape, PackTypeOK
<1>3. QED
  BY <1>1, <1>2, ShapeMade

-----------------------------------------------------------------------------
(* Shape is inductive: "package".                                          *)

LEMMA ShapeInit ==
    ASSUME PackInit
    PROVE  Shape
<1>1. MaxRevision \in Nat \ {0} /\ MaxPackages \in Nat /\ MaxBuilds \in Nat /\ MaxCommands \in Nat
      /\ MaxTrouble \in Nat
  BY PackagingBoundsAssumption
<1>2. setup \in Setups /\ revision \in 1 .. MaxRevision /\ clock \in Nat /\ trouble \in 0 .. MaxTrouble
  BY <1>1 DEF PackInit
<1>3. dist \in Seq(Directory) /\ Len(dist) = 0
  BY DEF PackInit
<1>4. /\ cloud \in [Profiles -> Bucket]
      /\ \A p \in Profiles : cloud[p].source = 0 /\ cloud[p].builds = <<>>
  BY <1>1 DEF PackInit, Bucket, NoBuilds
<1>5. latest \in [profile: Profiles \cup {NoProfile}, builds: Noted]
  BY NoBuildsNoted DEF PackInit
<1>6. Unused \in [Packs -> Seq([Platforms -> Bin])]
  BY DEF Unused
<1>7. Earlier \in [Packs -> Seq([Platforms -> Bin])]
  <2>1. \A f \in Packs : [g \in Platforms |-> IF f \in {g, "all-platforms"} THEN [rev |-> 0, at |-> 1]
                                                                          ELSE Nothing]
                           \in [Platforms -> Bin]
    BY <1>1 DEF Bin, Nothing
  <2>2. QED
    BY <2>1 DEF Earlier
<1>8. page \in [Profiles -> [Packs -> Seq([Platforms -> Bin])]]
  BY <1>6, <1>7 DEF PackInit
<1>9. cmd \in Command
  BY <1>1, NoBuildsNoted DEF PackInit, Asleep, Command
<1>10. PackTypeOK
  BY <1>1, <1>2, <1>3, <1>4, <1>5, <1>8, <1>9 DEF PackTypeOK
<1>11. Placed
  BY DEF PackInit, Asleep, Placed, Running
<1>12. Sourced
  BY <1>4 DEF PackInit, Asleep, Sourced
<1>13. QED
  BY <1>10, <1>11, <1>12 DEF Shape

LEMMA ShapePackageStart ==
    ASSUME Shape, NEW p \in Profiles, NEW remote \in BOOLEAN, NEW targets \in Requests,
           PackageStart(p, remote, targets)
    PROVE  Shape'
<1> DEFINE pc == IF remote /\ "windows" \in targets /\ ~setup[p].zero THEN "codebuild" ELSE "finish"
           local == BuiltHere(p, remote, targets)
<1>1. targets \in SUBSET Platforms /\ local \in SUBSET Platforms
  BY RequestsAssumption DEF BuiltHere
<1>2. /\ Starts("package", p, pc, Len(dist) + 1, targets, {"windows"})
      /\ BuildsLocally(p, local)
      /\ UNCHANGED <<setup, revision, clock, cloud, latest, page>>
  BY DEF PackageStart
<1>3. pc \in {"finish", "codebuild"}
  OBVIOUS
<1> HIDE DEF pc, local
<1>4. PICK built \in SUBSET local, helpers \in SUBSET local :
        (Trouble \/ NoTrouble) /\ NewDirectory(p, built, helpers)
  BY <1>2 DEF BuildsLocally
<1>5. built \in SUBSET Platforms /\ helpers \in SUBSET Platforms
  BY <1>1
<1>6. /\ dist' \in Seq(Directory) /\ Len(dist') <= MaxPackages
      /\ Len(dist) + 1 \in 0 .. MaxPackages /\ Len(dist) + 1 \in DOMAIN dist'
  BY <1>4, <1>5, DirectoryMade
<1>7. targets \in SUBSET Packs /\ {"windows"} \in SUBSET Packs
  BY <1>1 DEF Packs, Platforms
<1>8. Fresh("package", p, pc, Len(dist) + 1, targets, {"windows"})
  BY <1>2, <1>3, <1>6, <1>7, CommandStarts
<1>9. Elsewhere'
  BY <1>2, <1>4, ElsewhereKept
<1>10. QED
  BY <1>2, <1>3, <1>6, <1>8, <1>9, ShapeStarts DEF Fresh, CODEBUILD_PLATFORMS, Building

LEMMA ShapeGoBuildBreaks ==
    ASSUME Shape, NEW p \in Profiles, NEW targets \in Requests, GoBuildBreaks(p, targets)
    PROVE  Shape'
<1>1. targets \in SUBSET Packs
  BY RequestsAssumption DEF Packs
<1>2. /\ dist' \in Seq(Directory) /\ Len(dist') <= MaxPackages
      /\ Len(dist) + 1 \in 0 .. MaxPackages /\ Len(dist) + 1 \in DOMAIN dist'
  <2>1. PICK built \in SUBSET Platforms, helpers \in SUBSET Platforms : NewDirectory(p, built, helpers)
    BY RequestsAssumption DEF GoBuildBreaks
  <2>2. QED
    BY <2>1, DirectoryMade
<1>3. cmd' = [kind |-> "package", profile |-> p, package |-> Len(dist) + 1, pc |-> "off", targets |-> targets,
              todo |-> {}, done |-> {}, failed |-> {}, started |-> NoBuilds, kept |-> FALSE,
              exit |-> "one", given |-> cmd.given + 1]
  BY DEF GoBuildBreaks, Asleep
<1>4. cmd.given + 1 \in 0 .. MaxCommands
  BY OneMoreGiven DEF GoBuildBreaks
<1>5. cmd' \in Command
  BY <1>1, <1>2, <1>3, <1>4, NoBuildsNoted DEF Command
<1>6. /\ cmd'.kind = "package" /\ cmd'.profile = p /\ cmd'.package = Len(dist) + 1 /\ cmd'.pc = "off"
      /\ cmd'.exit = "one"
  BY <1>3
<1>7. Elsewhere' /\ UNCHANGED <<setup, revision, clock, cloud>>
  BY ElsewhereKept DEF GoBuildBreaks
<1>8. QED
  BY <1>2, <1>5, <1>6, <1>7, ShapeStarts DEF Building

(* A part of the package is written, or not, and the command goes on or    *)
(* ends.                                                                   *)
LEMMA ShapeWrites ==
    ASSUME Shape, Running,
           cmd.pc \in Building, NEW part \in Parts, Writes(part) \/ UNCHANGED dist,
           NEW pc \in {"installer", "batch", "settings", "extras", "latest", "codebuild"}, NEW code \in {"zero", "one"},
           Goes(pc) \/ Exits(code), Trouble \/ NoTrouble,
           UNCHANGED <<setup, revision, clock, cloud, latest, page>>
    PROVE  Shape'
<1>1. /\ dist' \in Seq(Directory) /\ Len(dist') <= MaxPackages /\ DOMAIN dist \subseteq DOMAIN dist'
  <2>1. CASE Writes(part)
    BY <2>1, PartWritten DEF Shape, PackTypeOK
  <2>2. CASE UNCHANGED dist
    BY <2>2 DEF Shape, PackTypeOK
  <2>3. QED
    BY <2>1, <2>2
<1>2. Elsewhere'
  BY ElsewhereKept
<1>3. CASE Goes(pc)
  <2>1. /\ cmd' \in Command /\ UNCHANGED <<cmd.kind, cmd.profile, cmd.package, cmd.todo>> /\ cmd'.pc = pc
        /\ cmd'.exit = "running"
    BY <1>3, CommandGoes DEF Running
  <2>2. QED
    BY <1>1, <1>2, <2>1, ShapeGoes DEF Shape, Placed
<1>4. CASE Exits(code)
  <2>1. /\ cmd' \in Command /\ UNCHANGED <<cmd.kind, cmd.profile, cmd.package>> /\ cmd'.pc = "off"
        /\ cmd'.todo = {}
    BY <1>4, CommandExits
  <2>2. QED
    BY <1>1, <1>2, <2>1, ShapeGoes
<1>5. QED
  BY <1>3, <1>4

LEMMA ShapePackage ==
    ASSUME Shape,
           CreateConfig \/ CreateInstaller \/ CreateWindowsInstaller \/ CreateClaudeSettings \/ PackageEnds
    PROVE  Shape'
<1>1. CASE CreateConfig
  BY <1>1, ShapeWrites DEF CreateConfig, Parts, Building
<1>2. CASE CreateInstaller
  BY <1>2, ShapeWrites DEF CreateInstaller, Parts, NoTrouble, Building
<1>3. CASE CreateWindowsInstaller
  <2>1. Writes("bat") \/ UNCHANGED dist
    BY <1>3 DEF CreateWindowsInstaller
  <2>2. QED
    BY <1>3, <2>1, ShapeWrites DEF CreateWindowsInstaller, Parts, NoTrouble, Building
<1>4. CASE CreateClaudeSettings
  <2>1. PICK code \in {"zero", "one"} :
          Goes("extras") \/ Goes("latest") \/ Goes("codebuild") \/ Exits(code)
    BY <1>4 DEF CreateClaudeSettings
  <2>2. QED
    BY <1>4, <2>1, ShapeWrites DEF CreateClaudeSettings, Parts, Building
<1>5. CASE PackageEnds
  BY <1>5, ShapeWrites DEF PackageEnds, At, Parts, Building
<1>6. QED
  BY <1>1, <1>2, <1>3, <1>4, <1>5

LEMMA ShapeRegenerate ==
    ASSUME Shape, NEW p \in Profiles, Regenerate(p)
    PROVE  Shape'
<1>1. PICK pc \in {"finish", "off"}, exit \in {"running", "one"} :
        /\ (pc = "off") <=> (exit = "one")
        /\ \E newest \in Newest({i \in DOMAIN dist : dist[i].profile = p}) :
              dist' = Append(dist, [dist[newest] EXCEPT !.parts = {}])
        /\ cmd' = [Asleep EXCEPT !.kind = "regenerate", !.profile = p, !.package = Len(dist) + 1,
                                 !.pc = pc, !.given = cmd.given + 1, !.exit = exit]
  BY DEF Regenerate
<1>2. /\ Len(dist) < MaxPackages /\ cmd.given < MaxCommands /\ (Trouble \/ NoTrouble)
      /\ UNCHANGED <<setup, revision, clock, cloud, latest, page>>
  BY DEF Regenerate
<1>3. PICK newest \in DOMAIN dist : dist' = Append(dist, [dist[newest] EXCEPT !.parts = {}])
  BY <1>1 DEF Newest
<1>4. [dist[newest] EXCEPT !.parts = {}] \in Directory
  <2>1. dist[newest] \in Directory
    BY <1>3 DEF Shape, PackTypeOK
  <2>2. QED
    BY <2>1 DEF Directory
<1>5. /\ dist' \in Seq(Directory) /\ Len(dist') <= MaxPackages
      /\ Len(dist) + 1 \in 0 .. MaxPackages /\ Len(dist) + 1 \in DOMAIN dist'
  BY <1>2, <1>3, <1>4, DirectoryAdded
<1>6. cmd' = [kind |-> "regenerate", profile |-> p, package |-> Len(dist) + 1, pc |-> pc, targets |-> {},
              todo |-> {}, done |-> {}, failed |-> {}, started |-> NoBuilds, kept |-> FALSE,
              exit |-> exit, given |-> cmd.given + 1]
  BY <1>1 DEF Asleep
<1>7. cmd.given + 1 \in 0 .. MaxCommands
  BY <1>2, OneMoreGiven
<1>8. cmd' \in Command
  BY <1>5, <1>6, <1>7, NoBuildsNoted DEF Command
<1>9. /\ cmd'.kind = "regenerate" /\ cmd'.profile = p /\ cmd'.package = Len(dist) + 1 /\ cmd'.pc = pc
      /\ cmd'.exit = exit /\ cmd'.todo = {}
  BY <1>6
<1>10. Elsewhere'
  BY <1>2, ElsewhereKept
<1>11. QED
  BY <1>1, <1>2, <1>5, <1>8, <1>9, <1>10, ShapeStarts

-----------------------------------------------------------------------------
(* Shape is inductive: CodeBuild.                                          *)

LEMMA ShapePackageCbStart ==
    ASSUME Shape, NEW p \in Profiles, NEW chosen \in SUBSET CODEBUILD_PLATFORMS, PackageCbStart(p, chosen)
    PROVE  Shape'
<1> DEFINE todo == {f \in chosen : ~InProgress(p, f)}
<1>1. /\ Starts("package_cb", p, "finish", Len(dist) + 1, chosen, todo)
      /\ \E local \in {{}, {"mac"}} : BuildsLocally(p, local)
      /\ UNCHANGED <<setup, revision, clock, cloud, latest, page>>
  BY DEF PackageCbStart
<1>2. todo \in SUBSET CODEBUILD_PLATFORMS
  OBVIOUS
<1> HIDE DEF todo
<1>3. PICK local \in SUBSET Platforms : BuildsLocally(p, local)
  BY <1>1 DEF Platforms
<1>4. PICK built \in SUBSET local, helpers \in SUBSET local :
        (Trouble \/ NoTrouble) /\ NewDirectory(p, built, helpers)
  BY <1>3 DEF BuildsLocally
<1>5. /\ dist' \in Seq(Directory) /\ Len(dist') <= MaxPackages
      /\ Len(dist) + 1 \in 0 .. MaxPackages /\ Len(dist) + 1 \in DOMAIN dist'
  BY <1>4, DirectoryMade
<1>6. chosen \in SUBSET Packs /\ todo \in SUBSET Packs
  BY <1>2 DEF Packs, Platforms, CODEBUILD_PLATFORMS
<1>7. Fresh("package_cb", p, "finish", Len(dist) + 1, chosen, todo)
  BY <1>1, <1>5, <1>6, CommandStarts
<1>8. Elsewhere'
  BY <1>1, <1>4, ElsewhereKept
<1>9. QED
  BY <1>1, <1>2, <1>5, <1>7, <1>8, ShapeStarts DEF Fresh

LEMMA ShapeUploadSource ==
    ASSUME Shape, UploadSource
    PROVE  Shape'
<1>1. /\ Running /\ cmd.pc = "codebuild" /\ (Trouble \/ NoTrouble)
      /\ UNCHANGED <<setup, revision, clock, dist, latest, page>>
  BY DEF UploadSource
<1>2. /\ dist' \in Seq(Directory) /\ Len(dist') <= MaxPackages /\ DOMAIN dist \subseteq DOMAIN dist'
      /\ cmd.todo \subseteq CODEBUILD_PLATFORMS /\ P \in Profiles /\ revision' \in 1 .. MaxRevision
      /\ revision \in 0 .. MaxRevision /\ clock' \in Nat
  BY <1>1 DEF Shape, PackTypeOK, Placed, Building
<1>3. Elsewhere'
  BY <1>1, ElsewhereKept
<1>4. CASE UNCHANGED cloud /\ Goes("finish")
  <2>1. /\ cmd' \in Command /\ UNCHANGED <<cmd.kind, cmd.profile, cmd.package, cmd.todo>> /\ cmd'.pc = "finish"
        /\ cmd'.exit = "running"
    BY <1>1, <1>4, CommandGoes DEF Running
  <2>2. QED
    BY <1>1, <1>2, <1>3, <1>4, <2>1, ShapeGoes
<1>5. CASE UNCHANGED cloud /\ Exits("one")
  <2>1. /\ cmd' \in Command /\ UNCHANGED <<cmd.kind, cmd.profile, cmd.package>> /\ cmd'.pc = "off"
        /\ cmd'.todo = {}
    BY <1>5, CommandExits
  <2>2. QED
    BY <1>1, <1>2, <1>3, <1>5, <2>1, ShapeGoes
<1>6. CASE Goes("start") /\ cloud' = [cloud EXCEPT ![P].source = PackageSource]
  <2>1. /\ cmd' \in Command /\ UNCHANGED <<cmd.kind, cmd.profile, cmd.package, cmd.todo>>
        /\ cmd'.pc = "start" /\ cmd'.exit = "running"
    BY <1>1, <1>6, CommandGoes DEF Running
  <2>2. cloud \in [Profiles -> Bucket] /\ cloud[P] \in Bucket /\ Buckets
    BY <1>2, BucketsTyped DEF Shape, PackTypeOK
  <2>3. cloud' = [cloud EXCEPT ![P] = [cloud[P] EXCEPT !.source = revision]]
    BY <1>6 DEF PackageSource
  <2>4. /\ [cloud[P] EXCEPT !.source = revision] \in Bucket
        /\ [cloud[P] EXCEPT !.source = revision].source = revision
        /\ [cloud[P] EXCEPT !.source = revision].builds = cloud[P].builds
    BY <1>2, <2>2 DEF Bucket
  <2>5. /\ cloud' \in [Profiles -> Bucket] /\ cloud'[P].source = revision
        /\ \A q \in Profiles : cloud'[q].builds = cloud[q].builds /\ (q # P => cloud'[q] = cloud[q])
    BY <1>2, <2>2, <2>3, <2>4
  <2>6. \A q \in Profiles : cloud[q] \in Bucket /\ cloud[q].source \in Nat /\ revision \in Nat
    BY <1>2, <2>2 DEF Bucket
  <2>7. \A q \in Profiles : cloud'[q].source <= revision /\ cloud[q].source <= cloud'[q].source
    BY <2>2, <2>5, <2>6 DEF Buckets
  <2>8. \A q \in Profiles : \A i \in DOMAIN cloud[q].builds : cloud[q].builds[i].asked \in Nat
    <3> TAKE q \in Profiles
    <3>1. cloud[q].builds \in Seq(Build)
      BY <2>6 DEF Bucket
    <3>2. \A i \in DOMAIN cloud[q].builds : cloud[q].builds[i] \in Build
      BY <3>1
    <3>3. QED
      BY <3>2 DEF Build
  <2>9. \A q \in Profiles : cloud'[q].source \in Nat
    BY <2>5 DEF Bucket
  <2>10. Buckets'
    BY <1>1, <2>2, <2>5, <2>6, <2>7, <2>8, <2>9 DEF Buckets
  <2>11. Placed'
    BY <1>1, <1>2, <2>1 DEF Shape, Placed, Running, P
  <2>12. cloud'[cmd'.profile].source = revision'
    BY <1>1, <2>1, <2>5 DEF P
  <2>13. QED
    BY <1>1, <1>2, <1>3, <2>1, <2>10, <2>11, <2>12, ShapeMade
<1>7. QED
  BY <1>4, <1>5, <1>6 DEF UploadSource, GivesUp

(* A bucket whose builds have become others that are as they should be.    *)
LEMMA BuildsChanged ==
    ASSUME Shape, UNCHANGED revision, NEW p \in Profiles, NEW b \in Bucket,
           b.source = cloud[p].source, Len(b.builds) <= MaxBuilds,
           \A i \in DOMAIN b.builds :
              /\ b.builds[i].status = "queued" <=> b.builds[i].rev = 0
              /\ b.builds[i].asked <= cloud[p].source
              /\ b.builds[i].status # "queued" => b.builds[i].rev >= b.builds[i].asked,
           cloud' = [cloud EXCEPT ![p] = b]
    PROVE  Buckets' /\ \A q \in Profiles : cloud'[q].source = cloud[q].source
<1>1. cloud \in [Profiles -> Bucket] /\ Buckets /\ cloud[p] \in Bucket
  BY BucketsTyped DEF Shape, PackTypeOK
<1>2. /\ cloud' \in [Profiles -> Bucket] /\ cloud'[p] = b
      /\ \A q \in Profiles : cloud'[q].source = cloud[q].source /\ (q # p => cloud'[q] = cloud[q])
  BY <1>1
<1>3. ASSUME NEW q \in Profiles
      PROVE  /\ Len(cloud'[q].builds) <= MaxBuilds
             /\ cloud'[q].source <= revision
             /\ \A i \in DOMAIN cloud'[q].builds :
                   /\ cloud'[q].builds[i].status = "queued" <=> cloud'[q].builds[i].rev = 0
                   /\ cloud'[q].builds[i].asked <= cloud'[q].source
                   /\ cloud'[q].builds[i].status # "queued"
                         => cloud'[q].builds[i].rev >= cloud'[q].builds[i].asked
  <2>1. CASE q = p
    BY <1>1, <1>2, <2>1 DEF Buckets
  <2>2. CASE q # p
    BY <1>1, <1>2, <2>2 DEF Buckets
  <2>3. QED
    BY <2>1, <2>2
<1>4. Buckets'
  BY <1>2, <1>3 DEF Buckets
<1>5. QED
  BY <1>2, <1>4

LEMMA ShapeStartBuild ==
    ASSUME Shape, NEW f \in Packs, StartBuild(f)
    PROVE  Shape'
<1> DEFINE rest == cmd.todo \ {f}
<1>1. /\ Running /\ cmd.pc = "start" /\ f \in cmd.todo /\ (Trouble \/ NoTrouble)
      /\ UNCHANGED <<setup, revision, clock, dist, latest, page>>
  BY DEF StartBuild
<1>2. /\ dist' \in Seq(Directory) /\ Len(dist') <= MaxPackages /\ DOMAIN dist \subseteq DOMAIN dist'
      /\ cmd.todo \subseteq CODEBUILD_PLATFORMS /\ P \in Profiles /\ revision' \in 1 .. MaxRevision
      /\ revision \in 1 .. MaxRevision /\ clock' \in Nat /\ cmd \in Command /\ cloud[P].source = revision
  BY <1>1 DEF Shape, PackTypeOK, Placed, Sourced, Building
<1>3. Elsewhere'
  BY <1>1, ElsewhereKept
<1>4. rest \in SUBSET CODEBUILD_PLATFORMS /\ rest \in SUBSET Packs /\ f \in CODEBUILD_PLATFORMS
  BY <1>1, <1>2 DEF Packs, Platforms, CODEBUILD_PLATFORMS
<1>5. CASE /\ Len(cloud[P].builds) < MaxBuilds
           /\ cloud' = [cloud EXCEPT ![P].builds =
                  Append(@, [platform |-> f, status |-> "queued", rev |-> 0, asked |-> revision, end |-> 0])]
           /\ cmd' = [cmd EXCEPT !.todo = rest, !.pc = IF rest = {} THEN "latest" ELSE "start",
                                 !.started[f] = Len(cloud[P].builds) + 1]
  <2> DEFINE b == [platform |-> f, status |-> "queued", rev |-> 0, asked |-> revision, end |-> 0]
             started == [cmd.started EXCEPT ![f] = Len(cloud[P].builds) + 1]
  <2>1. b \in Build /\ b.status = "queued" /\ b.rev = 0 /\ b.asked = revision
    BY <1>2, <1>4, PackagingBoundsAssumption DEF Build
  <2>2. cloud[P] \in Bucket /\ cloud[P].builds \in Seq(Build) /\ Len(cloud[P].builds) \in Nat
        /\ cloud[P].artifact \in [CODEBUILD_PLATFORMS -> 0 .. MaxRevision] /\ MaxBuilds \in Nat
    <3>1. cloud[P] \in Bucket
      BY <1>2 DEF Shape, PackTypeOK
    <3>2. QED
      BY <3>1, PackagingBoundsAssumption DEF Bucket
  <2> HIDE DEF b
  <2>3. cloud' = [cloud EXCEPT ![P] = [cloud[P] EXCEPT !.builds = Append(@, b)]]
    BY <1>5 DEF b
  <2>4. /\ Append(cloud[P].builds, b) \in Seq(Build)
        /\ Len(Append(cloud[P].builds, b)) = Len(cloud[P].builds) + 1
        /\ Append(cloud[P].builds, b)[Len(cloud[P].builds) + 1] = b
        /\ \A i \in 1 .. Len(cloud[P].builds) : Append(cloud[P].builds, b)[i] = cloud[P].builds[i]
    BY <2>1, <2>2
  <2>5. \A i \in DOMAIN cloud[P].builds :
           /\ cloud[P].builds[i].status = "queued" <=> cloud[P].builds[i].rev = 0
           /\ cloud[P].builds[i].asked <= cloud[P].source
           /\ cloud[P].builds[i].status # "queued" => cloud[P].builds[i].rev >= cloud[P].builds[i].asked
    BY <1>2, BucketsTyped DEF Buckets
  <2> DEFINE builds == Append(cloud[P].builds, b)
  <2>6. \A i \in DOMAIN builds :
           /\ builds[i].status = "queued" <=> builds[i].rev = 0
           /\ builds[i].asked <= cloud[P].source
           /\ builds[i].status # "queued" => builds[i].rev >= builds[i].asked
    <3> TAKE i \in DOMAIN builds
    <3>1. CASE i \in 1 .. Len(cloud[P].builds)
      BY <2>2, <2>4, <2>5, <3>1
    <3>2. CASE i = Len(cloud[P].builds) + 1
      BY <1>2, <2>1, <2>4, <3>2
    <3>3. QED
      BY <2>2, <2>4, <3>1, <3>2
  <2> HIDE DEF builds
  <2>7. builds \in Seq(Build) /\ Len(builds) <= MaxBuilds
    BY <1>5, <2>2, <2>4 DEF builds
  <2>8. Buckets' /\ \A q \in Profiles : cloud'[q].source = cloud[q].source
    <3> DEFINE bucket == [cloud[P] EXCEPT !.builds = builds]
    <3>1. bucket \in Bucket /\ bucket.source = cloud[P].source /\ bucket.builds = builds
      BY <2>2, <2>7 DEF Bucket
    <3>2. cloud' = [cloud EXCEPT ![P] = bucket]
      BY <2>3 DEF builds
    <3> HIDE DEF bucket
    <3>3. QED
      BY <1>1, <1>2, <2>6, <2>7, <3>1, <3>2, BuildsChanged
  <2>9. Len(cloud[P].builds) + 1 \in 0 .. MaxBuilds
    BY <1>5, <2>2
  <2>10. started \in Noted
    BY <1>2, <1>4, <2>9 DEF Noted, Command
  <2>11. cmd' = [[[cmd EXCEPT !.todo = rest] EXCEPT !.pc = IF rest = {} THEN "latest" ELSE "start"]
                        EXCEPT !.started = started]
    BY <1>2, <1>5 DEF Command
  <2> HIDE DEF started, rest
  <2>12. /\ cmd' \in Command /\ UNCHANGED <<cmd.kind, cmd.profile, cmd.package, cmd.exit>>
         /\ cmd'.todo = rest /\ cmd'.pc \in {"latest", "start"}
    BY <1>2, <1>4, <2>10, <2>11 DEF Command
  <2>13. Placed'
    BY <1>1, <1>2, <1>4, <2>12 DEF Shape, Placed, Running, P
  <2>14. cloud'[cmd'.profile].source = revision'
    BY <1>1, <1>2, <2>8, <2>12 DEF P
  <2>15. QED
    BY <1>1, <1>2, <1>3, <2>8, <2>12, <2>13, <2>14, ShapeMade
<1>6. CASE /\ UNCHANGED cloud
           /\ cmd' = [cmd EXCEPT !.todo = rest,
                                 !.pc = IF cmd.kind = "package" THEN "finish"
                                        ELSE IF rest = {} THEN "latest" ELSE "start"]
  <2> HIDE DEF rest
  <2> DEFINE pc == IF cmd.kind = "package" THEN "finish" ELSE IF rest = {} THEN "latest" ELSE "start"
  <2>1. pc \in {"latest", "start", "finish"}
    OBVIOUS
  <2>2. cmd' = [[cmd EXCEPT !.todo = rest] EXCEPT !.pc = pc]
    BY <1>6
  <2> HIDE DEF pc
  <2>3. /\ cmd' \in Command /\ UNCHANGED <<cmd.kind, cmd.profile, cmd.package, cmd.exit>>
        /\ cmd'.todo = rest /\ cmd'.pc \in {"latest", "start", "finish"}
    BY <1>2, <1>4, <2>1, <2>2 DEF Command
  <2>4. QED
    BY <1>1, <1>2, <1>3, <1>4, <1>6, <2>3, ShapeGoes DEF Running
<1>7. QED
  BY <1>5, <1>6 DEF StartBuild

LEMMA ShapeWriteLatest ==
    ASSUME Shape, WriteLatest
    PROVE  Shape'
<1>1. /\ Running /\ cmd.pc = "latest" /\ (Goes("finish") \/ Exits("zero"))
      /\ UNCHANGED <<setup, revision, clock, dist, cloud, page, trouble>>
      /\ latest' = latest \/ latest' = [profile |-> P, builds |-> cmd.started]
  BY DEF WriteLatest
<1>2. /\ dist' \in Seq(Directory) /\ Len(dist') <= MaxPackages /\ DOMAIN dist \subseteq DOMAIN dist'
      /\ P \in Profiles /\ cmd.started \in Noted
      /\ cmd.todo \subseteq CODEBUILD_PLATFORMS
  BY DEF Shape, PackTypeOK, Placed, WriteLatest, Command, Building
<1>3. Elsewhere'
  BY <1>2 DEF WriteLatest, Elsewhere, Shape, PackTypeOK
<1>4. CASE Goes("finish")
  <2>1. /\ cmd' \in Command /\ UNCHANGED <<cmd.kind, cmd.profile, cmd.package, cmd.todo>> /\ cmd'.pc = "finish"
        /\ cmd'.exit = "running"
    BY <1>4, CommandGoes DEF WriteLatest, Running
  <2>2. QED
    BY <1>2, <1>3, <2>1, ShapeGoes DEF WriteLatest
<1>5. CASE Exits("zero")
  <2>1. /\ cmd' \in Command /\ UNCHANGED <<cmd.kind, cmd.profile, cmd.package>> /\ cmd'.pc = "off"
        /\ cmd'.todo = {}
    BY <1>5, CommandExits
  <2>2. QED
    BY <1>2, <1>3, <2>1, ShapeGoes DEF WriteLatest
<1>6. QED
  BY <1>4, <1>5 DEF WriteLatest

(* A value of "cloud" that differs in one build.                           *)
BuildChange(c, p, i, b) ==
    \E r \in Bucket :
       /\ r.source = cloud[p].source /\ Len(r.builds) = Len(cloud[p].builds) /\ r.builds[i] = b
       /\ \A j \in DOMAIN r.builds : j # i => r.builds[j] = cloud[p].builds[j]
       /\ c = [cloud EXCEPT ![p] = r]

(* A step of a build, which no command takes part in.                      *)
LEMMA ShapeBuilds ==
    ASSUME Shape, NEW p \in Profiles, NEW i \in DOMAIN cloud[p].builds, NEW b, BuildChange(cloud', p, i, b),
           b.status = "queued" <=> b.rev = 0, b.asked <= cloud[p].source,
           b.status # "queued" => b.rev >= b.asked,
           clock' \in Nat, Trouble \/ NoTrouble,
           UNCHANGED <<setup, revision, dist, latest, page, cmd>>
    PROVE  Shape'
<1>1. PICK r \in Bucket :
       /\ r.source = cloud[p].source /\ Len(r.builds) = Len(cloud[p].builds) /\ r.builds[i] = b
       /\ \A j \in DOMAIN r.builds : j # i => r.builds[j] = cloud[p].builds[j]
       /\ cloud' = [cloud EXCEPT ![p] = r]
  BY DEF BuildChange
<1>2. cloud[p].builds \in Seq(Build) /\ Len(cloud[p].builds) <= MaxBuilds /\ r.builds \in Seq(Build)
  <2>1. cloud[p] \in Bucket
    BY DEF Shape, PackTypeOK
  <2>2. QED
    BY <2>1 DEF Bucket, Shape, PackTypeOK
<1>3. DOMAIN r.builds = DOMAIN cloud[p].builds
  BY <1>1, <1>2
<1>4. \A j \in DOMAIN r.builds :
         /\ r.builds[j].status = "queued" <=> r.builds[j].rev = 0
         /\ r.builds[j].asked <= cloud[p].source
         /\ r.builds[j].status # "queued" => r.builds[j].rev >= r.builds[j].asked
  BY <1>1, <1>3, BucketsTyped DEF Buckets
<1>5. Buckets' /\ \A q \in Profiles : cloud'[q].source = cloud[q].source
  BY <1>1, <1>2, <1>4, BuildsChanged
<1>6. Elsewhere'
  BY ElsewhereKept
<1>7. /\ Placed' /\ revision' \in 1 .. MaxRevision /\ dist' \in Seq(Directory) /\ Len(dist') <= MaxPackages
      /\ cmd' \in Command
  BY DEF Shape, Placed, Running, P, PackTypeOK
<1>8. cmd'.pc = "start" => cloud'[cmd'.profile].source = revision'
  BY <1>5 DEF Shape, Sourced, Placed, Running, P
<1>9. QED
  BY <1>5, <1>6, <1>7, <1>8, ShapeMade

LEMMA BuildTyped ==
    ASSUME Shape, NEW p \in Profiles, NEW i \in DOMAIN cloud[p].builds
    PROVE  /\ cloud[p] \in Bucket /\ cloud[p].builds[i] \in Build
           /\ cloud[p].artifact \in [CODEBUILD_PLATFORMS -> 0 .. MaxRevision]
           /\ cloud[p].source \in 0 .. MaxRevision /\ cloud[p].builds \in Seq(Build)
           /\ cloud[p].builds[i].asked \in Nat /\ cloud[p].builds[i].asked >= 1
           /\ cloud[p].builds[i].asked <= cloud[p].source
           /\ cloud[p].builds[i].status = "queued" <=> cloud[p].builds[i].rev = 0
           /\ cloud[p].builds[i].status # "queued" => cloud[p].builds[i].rev >= cloud[p].builds[i].asked
<1>1. cloud[p] \in Bucket
  BY DEF Shape, PackTypeOK
<1>2. cloud[p].builds[i] \in Build
  BY <1>1 DEF Bucket
<1>3. /\ cloud[p].artifact \in [CODEBUILD_PLATFORMS -> 0 .. MaxRevision]
      /\ cloud[p].source \in 0 .. MaxRevision /\ cloud[p].builds \in Seq(Build)
  BY <1>1 DEF Bucket
<1>4. cloud[p].builds[i].asked \in Nat /\ cloud[p].builds[i].asked >= 1
  BY <1>2 DEF Build
<1>5. /\ cloud[p].builds[i].asked <= cloud[p].source
      /\ cloud[p].builds[i].status = "queued" <=> cloud[p].builds[i].rev = 0
      /\ cloud[p].builds[i].status # "queued" => cloud[p].builds[i].rev >= cloud[p].builds[i].asked
  BY BucketsTyped DEF Buckets
<1>6. QED
  BY <1>1, <1>2, <1>3, <1>4, <1>5

(* One build of a bucket replaced by another.                              *)
Replaced(r, i, b) == [r EXCEPT !.builds[i] = b]

LEMMA BuildReplaced ==
    ASSUME NEW r \in Bucket, NEW i \in DOMAIN r.builds, NEW b \in Build
    PROVE  /\ Replaced(r, i, b) \in Bucket
           /\ Replaced(r, i, b).source = r.source /\ Replaced(r, i, b).artifact = r.artifact
           /\ Len(Replaced(r, i, b).builds) = Len(r.builds) /\ i \in DOMAIN Replaced(r, i, b).builds
           /\ Replaced(r, i, b).builds[i] = b
           /\ \A j \in DOMAIN Replaced(r, i, b).builds : j # i => Replaced(r, i, b).builds[j] = r.builds[j]
<1> DEFINE builds == [r.builds EXCEPT ![i] = b]
<1>1. r.builds \in Seq(Build)
  BY DEF Bucket
<1>2. /\ builds \in Seq(Build) /\ Len(builds) = Len(r.builds) /\ i \in DOMAIN builds /\ builds[i] = b
      /\ \A j \in DOMAIN builds : j # i => builds[j] = r.builds[j]
  BY <1>1
<1>3. Replaced(r, i, b) = [r EXCEPT !.builds = builds]
  BY DEF Replaced
<1> HIDE DEF builds
<1>4. /\ Replaced(r, i, b) \in Bucket /\ Replaced(r, i, b).source = r.source
      /\ Replaced(r, i, b).artifact = r.artifact /\ Replaced(r, i, b).builds = builds
  BY <1>2, <1>3 DEF Bucket
<1>5. QED
  BY <1>2, <1>4

(* Two fields of a build changed one after the other.                      *)
Twice(p, i, b, d) == [[cloud EXCEPT ![p] = Replaced(cloud[p], i, b)] EXCEPT ![p].builds[i] = d]

LEMMA BuildReplacedTwice ==
    ASSUME Shape, NEW p \in Profiles, NEW i \in DOMAIN cloud[p].builds, NEW b \in Build, NEW d \in Build
    PROVE  BuildChange(Twice(p, i, b, d), p, i, d)
<1> DEFINE c == Twice(p, i, b, d)
           first == Replaced(cloud[p], i, b)
           second == Replaced(first, i, d)
<1>1. cloud \in [Profiles -> Bucket] /\ cloud[p] \in Bucket
  BY DEF Shape, PackTypeOK
<1>2. /\ first \in Bucket /\ first.source = cloud[p].source
      /\ Len(first.builds) = Len(cloud[p].builds) /\ i \in DOMAIN first.builds
      /\ \A j \in DOMAIN first.builds : j # i => first.builds[j] = cloud[p].builds[j]
  BY <1>1, BuildReplaced
<1>3. c = [cloud EXCEPT ![p] = [first EXCEPT !.builds[i] = d]]
  <2>1. c = [[cloud EXCEPT ![p] = first] EXCEPT ![p].builds[i] = d]
    BY DEF Twice
  <2> HIDE DEF first
  <2>2. QED
    BY <1>1, <2>1
<1> HIDE DEF first
<1>4. c = [cloud EXCEPT ![p] = second]
  BY <1>3 DEF Replaced
<1>5. /\ second \in Bucket /\ second.source = first.source
      /\ Len(second.builds) = Len(first.builds) /\ second.builds[i] = d
      /\ \A j \in DOMAIN second.builds : j # i => second.builds[j] = first.builds[j]
  BY <1>2, BuildReplaced
<1> HIDE DEF second, c
<1>6. DOMAIN second.builds = DOMAIN first.builds
  <2>1. second.builds \in Seq(Build) /\ first.builds \in Seq(Build)
    BY <1>2, <1>5 DEF Bucket
  <2>2. QED
    BY <1>5, <2>1
<1>7. BuildChange(c, p, i, d)
  BY <1>2, <1>4, <1>5, <1>6 DEF BuildChange
<1>8. QED
  BY <1>7 DEF c

LEMMA ShapeBuildBegins ==
    ASSUME Shape, NEW p \in Profiles, NEW i \in DOMAIN cloud[p].builds, BuildBegins(p, i)
    PROVE  Shape'
<1> DEFINE old == cloud[p].builds[i]
           going == [old EXCEPT !.status = "running"]
           new == [going EXCEPT !.rev = cloud[p].source]
           middle == [cloud EXCEPT ![p] = Replaced(cloud[p], i, going)]
<1>1. old \in Build /\ cloud[p].source \in 0 .. MaxRevision /\ old.asked <= cloud[p].source /\ old.asked >= 1
      /\ cloud \in [Profiles -> Bucket] /\ MaxRevision \in Nat /\ old.asked \in Nat
      /\ Replaced(cloud[p], i, going).builds = [cloud[p].builds EXCEPT ![i] = going]
      /\ cloud[p].builds \in Seq(Build)
  BY BuildTyped, PackagingBoundsAssumption DEF Shape, PackTypeOK, Replaced, Bucket
<1>2. going \in Build /\ going.asked = old.asked /\ going.status = "running"
  BY <1>1 DEF Build
<1>3. new \in Build /\ new.status = "running" /\ new.rev = cloud[p].source /\ new.asked = old.asked
  BY <1>1, <1>2 DEF Build
<1>4. cloud' = [[cloud EXCEPT ![p].builds[i].status = "running"] EXCEPT ![p].builds[i].rev = cloud[p].source]
  BY DEF BuildBegins
<1>5. [cloud EXCEPT ![p].builds[i].status = "running"] = middle
  BY DEF Replaced
<1>6. middle[p].builds[i] = going
  <2> HIDE DEF going
  <2>1. QED
    BY <1>1
<1>7. cloud' = Twice(p, i, going, new)
  <2>1. cloud' = [middle EXCEPT ![p].builds[i] = new]
    <3> HIDE DEF middle
    <3>1. QED
      BY <1>4, <1>5, <1>6
  <2>2. QED
    BY <2>1 DEF Twice
<1> HIDE DEF old, going, new, middle
<1>8. BuildChange(Twice(p, i, going, new), p, i, new)
  BY <1>2, <1>3, BuildReplacedTwice
<1>9. new.status # "queued" /\ new.rev # 0 /\ new.rev >= new.asked /\ new.asked <= cloud[p].source
  BY <1>1, <1>3
<1>10. /\ clock' \in Nat /\ (Trouble \/ NoTrouble)
       /\ UNCHANGED <<setup, revision, dist, latest, page, cmd>>
  BY DEF BuildBegins, Shape, PackTypeOK, NoTrouble
<1>11. BuildChange(cloud', p, i, new)
  BY <1>7, <1>8
<1>12. QED
  BY <1>9, <1>10, <1>11, ShapeBuilds

Over(p, i, status) == [cloud EXCEPT ![p].builds[i].status = status, ![p].builds[i].end = clock + 1]
Ended(p, i, status) == [[cloud[p].builds[i] EXCEPT !.status = status] EXCEPT !.end = clock + 1]

LEMMA BuildOver ==
    ASSUME Shape, NEW p \in Profiles, NEW i \in DOMAIN cloud[p].builds, NEW status \in {"succeeded", "failed"}
    PROVE  /\ BuildChange(Over(p, i, status), p, i, Ended(p, i, status))
           /\ Ended(p, i, status).status = status /\ Ended(p, i, status).rev = cloud[p].builds[i].rev
           /\ Ended(p, i, status).asked = cloud[p].builds[i].asked
<1> DEFINE old == cloud[p].builds[i]
           going == [old EXCEPT !.status = status]
           new == [going EXCEPT !.end = clock + 1]
           middle == [cloud EXCEPT ![p] = Replaced(cloud[p], i, going)]
<1>1. old \in Build /\ cloud \in [Profiles -> Bucket] /\ clock + 1 \in Nat
      /\ Replaced(cloud[p], i, going).builds = [cloud[p].builds EXCEPT ![i] = going]
      /\ cloud[p].builds \in Seq(Build)
  <2>1. old \in Build /\ cloud[p] \in Bucket /\ cloud[p].builds \in Seq(Build)
    BY BuildTyped
  <2>2. cloud \in [Profiles -> Bucket] /\ clock + 1 \in Nat
    BY DEF Shape, PackTypeOK
  <2> HIDE DEF old, going
  <2>3. Replaced(cloud[p], i, going).builds = [cloud[p].builds EXCEPT ![i] = going]
    BY <2>1 DEF Replaced, Bucket
  <2>4. QED
    BY <2>1, <2>2, <2>3
<1>2. going \in Build /\ going.asked = old.asked /\ going.rev = old.rev /\ going.status = status
  BY <1>1 DEF Build
<1>3. new \in Build /\ new.status = status /\ new.rev = going.rev /\ new.asked = going.asked
  <2> HIDE DEF going, old
  <2>1. QED
    BY <1>1, <1>2 DEF Build
<1>4. Over(p, i, status) = [[cloud EXCEPT ![p].builds[i].status = status]
                                    EXCEPT ![p].builds[i].end = clock + 1]
  BY DEF Over
<1>5. [cloud EXCEPT ![p].builds[i].status = status] = middle
  BY DEF Replaced
<1>6. middle[p].builds[i] = going
  <2> HIDE DEF going
  <2>1. QED
    BY <1>1
<1>7. Over(p, i, status) = Twice(p, i, going, new)
  <2>1. Over(p, i, status) = [middle EXCEPT ![p].builds[i] = new]
    <3> HIDE DEF middle
    <3>1. QED
      BY <1>4, <1>5, <1>6
  <2>2. QED
    BY <2>1 DEF Twice
<1>8. new = Ended(p, i, status)
  BY DEF Ended
<1> HIDE DEF going, new, middle
<1>9. BuildChange(Twice(p, i, going, new), p, i, new)
  BY <1>2, <1>3, BuildReplacedTwice
<1>10. QED
  BY <1>2, <1>3, <1>7, <1>8, <1>9

LEMMA ShapeBuildEnds ==
    ASSUME Shape, NEW p \in Profiles, NEW i \in DOMAIN cloud[p].builds, BuildEnds(p, i)
    PROVE  Shape'
<1> DEFINE old == cloud[p].builds[i]
<1>1. /\ old.platform \in CODEBUILD_PLATFORMS
      /\ old.rev \in 0 .. MaxRevision /\ old.asked \in Nat /\ old.asked <= cloud[p].source
      /\ old.status = "running" /\ old.rev # 0 /\ old.rev >= old.asked
      /\ cloud \in [Profiles -> Bucket] /\ clock \in Nat
  <2>1. old \in Build /\ old.status = "running"
    BY BuildTyped DEF BuildEnds
  <2>2. old.platform \in CODEBUILD_PLATFORMS /\ old.rev \in 0 .. MaxRevision
    BY <2>1 DEF Build
  <2>3. /\ old.asked \in Nat /\ old.asked <= cloud[p].source
        /\ old.rev # 0 /\ old.rev >= old.asked
    BY <2>1, BuildTyped
  <2>4. cloud \in [Profiles -> Bucket] /\ clock \in Nat
    BY DEF Shape, PackTypeOK
  <2>5. QED
    BY <2>1, <2>2, <2>3, <2>4
<1>2. /\ clock' \in Nat /\ (Trouble \/ NoTrouble)
      /\ UNCHANGED <<setup, revision, dist, latest, page, cmd>>
  <2>1. clock' = clock + 1 /\ UNCHANGED <<setup, revision, dist, latest, page, cmd>>
    BY DEF BuildEnds
  <2>2. Trouble \/ NoTrouble
    BY DEF BuildEnds
  <2>3. QED
    BY <1>1, <2>1, <2>2
<1>3. \/ cloud' = [Over(p, i, "succeeded") EXCEPT ![p].artifact[old.platform] = old.rev]
      \/ cloud' = Over(p, i, "failed")
  BY DEF BuildEnds, Over
<1> HIDE DEF old
<1>4. ASSUME NEW status \in {"succeeded", "failed"}
      PROVE  /\ BuildChange(Over(p, i, status), p, i, Ended(p, i, status))
             /\ Ended(p, i, status).status = status /\ Ended(p, i, status).rev = old.rev
             /\ Ended(p, i, status).asked = old.asked
  BY BuildOver DEF old
<1>5. PICK status \in {"succeeded", "failed"} : BuildChange(cloud', p, i, Ended(p, i, status))
  <2>1. CASE cloud' = Over(p, i, "failed")
    BY <1>4, <2>1
  <2>2. CASE cloud' = [Over(p, i, "succeeded") EXCEPT ![p].artifact[old.platform] = old.rev]
    <3> DEFINE b == Ended(p, i, "succeeded")
    <3>1. PICK q \in Bucket :
             /\ q.source = cloud[p].source /\ Len(q.builds) = Len(cloud[p].builds) /\ q.builds[i] = b
             /\ \A j \in DOMAIN q.builds : j # i => q.builds[j] = cloud[p].builds[j]
             /\ Over(p, i, "succeeded") = [cloud EXCEPT ![p] = q]
      BY <1>4 DEF BuildChange
    <3> DEFINE r == [q EXCEPT !.artifact[old.platform] = old.rev]
    <3> HIDE DEF b
    <3>2. r \in Bucket /\ r.source = q.source /\ r.builds = q.builds
      BY <1>1 DEF Bucket
    <3>3. cloud' = [cloud EXCEPT ![p] = r]
      <4>1. cloud' = [[cloud EXCEPT ![p] = q] EXCEPT ![p].artifact[old.platform] = old.rev]
        BY <2>2, <3>1
      <4>2. QED
        BY <1>1, <4>1
    <3> HIDE DEF r
    <3>4. BuildChange(cloud', p, i, b)
      BY <3>1, <3>2, <3>3 DEF BuildChange
    <3>5. QED
      BY <3>4 DEF b
  <2>3. QED
    BY <1>3, <2>1, <2>2
<1> DEFINE new == Ended(p, i, status)
<1>6. /\ new.status = "queued" <=> new.rev = 0
      /\ new.asked <= cloud[p].source
      /\ new.rev >= new.asked
  BY <1>1, <1>4
<1> HIDE DEF new
<1>7. BuildChange(cloud', p, i, new)
  BY <1>5 DEF new
<1>8. QED
  BY <1>2, <1>6, <1>7, ShapeBuilds

-----------------------------------------------------------------------------
(* Shape is inductive: "builds" and "distribute".                          *)

LEMMA ShapeExits ==
    ASSUME Shape, Running, NEW code \in {"zero", "one", "killed"}, Exits(code), Elsewhere',
           dist' \in Seq(Directory), Len(dist') <= MaxPackages, DOMAIN dist \subseteq DOMAIN dist',
           UNCHANGED <<setup, revision, clock, cloud>>
    PROVE  Shape'
<1>1. /\ cmd' \in Command /\ UNCHANGED <<cmd.kind, cmd.profile, cmd.package>> /\ cmd'.pc = "off"
      /\ cmd'.todo = {}
  BY CommandExits
<1>2. QED
  BY <1>1, ShapeGoes

LEMMA ShapeMoves ==
    ASSUME Shape, Running, NEW pc \in {"detect", "archive"}, Goes(pc), Elsewhere',
           dist' \in Seq(Directory), Len(dist') <= MaxPackages, DOMAIN dist \subseteq DOMAIN dist',
           UNCHANGED <<setup, revision, clock, cloud>>
    PROVE  Shape'
<1>1. /\ cmd' \in Command /\ UNCHANGED <<cmd.kind, cmd.profile, cmd.package, cmd.exit>> /\ cmd'.pc = pc
  BY CommandGoes
<1>2. QED
  BY <1>1, ShapeGoes DEF Running, Building

LEMMA DistKept ==
    ASSUME Shape, UNCHANGED dist
    PROVE  dist' \in Seq(Directory) /\ Len(dist') <= MaxPackages /\ DOMAIN dist \subseteq DOMAIN dist'
BY DEF Shape, PackTypeOK

LEMMA PackageNumber ==
    ASSUME Shape, NEW i \in DOMAIN dist
    PROVE  i \in 0 .. MaxPackages
BY PackagingBoundsAssumption DEF Shape, PackTypeOK

LEMMA ShapeBuildsCheck ==
    ASSUME Shape, NEW p \in Profiles, BuildsCheck(p)
    PROVE  Shape'
<1>1. PICK ok \in SUBSET CODEBUILD_PLATFORMS, newest \in DOMAIN dist :
        Starts("builds", p, "fetch", newest, ok, ok)
  <2> DEFINE ok == {f \in CODEBUILD_PLATFORMS : /\ latest.builds[f] # 0
                                                /\ cloud[latest.profile].builds[latest.builds[f]].status = "succeeded"}
  <2>1. ok \in SUBSET CODEBUILD_PLATFORMS
    OBVIOUS
  <2>2. \E newest \in Newest({i \in DOMAIN dist : "config" \in dist[i].parts}) :
           Starts("builds", p, "fetch", newest, ok, ok)
    BY DEF BuildsCheck
  <2> HIDE DEF ok
  <2>3. \E newest \in DOMAIN dist : Starts("builds", p, "fetch", newest, ok, ok)
    BY <2>2 DEF Newest
  <2>4. QED
    BY <2>1, <2>3
<1>2. ok \in SUBSET Packs /\ newest \in 0 .. MaxPackages
  BY PackageNumber DEF Packs, Platforms, CODEBUILD_PLATFORMS
<1>3. Fresh("builds", p, "fetch", newest, ok, ok)
  BY <1>1, <1>2, CommandStarts
<1>4. UNCHANGED <<setup, revision, clock, dist, cloud, latest, page, trouble>>
  BY DEF BuildsCheck
<1>5. Elsewhere' /\ newest \in DOMAIN dist'
  BY <1>4, ElsewhereKept DEF NoTrouble
<1>6. QED
  BY <1>3, <1>4, <1>5, DistKept, ShapeStarts DEF Fresh

LEMMA ShapeDistributeStart ==
    ASSUME Shape, NEW p \in Profiles, NEW i \in DOMAIN dist, DistributeStart(p, i)
    PROVE  Shape'
<1>1. i \in 0 .. MaxPackages
  BY PackageNumber
<1>2. Fresh("distribute", p, "windows", i, {}, {})
  BY <1>1, CommandStarts DEF DistributeStart
<1>3. UNCHANGED <<setup, revision, clock, dist, cloud, latest, page, trouble>>
  BY DEF DistributeStart
<1>4. Elsewhere' /\ i \in DOMAIN dist'
  BY <1>3, ElsewhereKept DEF NoTrouble
<1>5. QED
  BY <1>2, <1>3, <1>4, DistKept, ShapeStarts DEF Fresh

LEMMA ShapeFetchArtifact ==
    ASSUME Shape, NEW f \in Packs, FetchArtifact(f)
    PROVE  Shape'
<1> DEFINE rest == cmd.todo \ {f}
<1>1. /\ Running /\ cmd.pc = "fetch" /\ f \in cmd.todo /\ (Trouble \/ NoTrouble)
      /\ UNCHANGED <<setup, revision, clock, cloud, latest, page>>
      /\ dist' = Unpacked(cmd.package, f) \/ UNCHANGED dist
      /\ \/ Exits("zero") \/ Exits("one")
         \/ cmd' = [cmd EXCEPT !.todo = rest, !.done = @ \cup {f}] \/ cmd' = [cmd EXCEPT !.todo = rest]
  BY DEF FetchArtifact, At
<1>2. f \in CODEBUILD_PLATFORMS /\ rest \subseteq CODEBUILD_PLATFORMS /\ cmd \in Command
  BY <1>1 DEF Shape, Placed, PackTypeOK, Building
<1>3. dist' \in Seq(Directory) /\ Len(dist') <= MaxPackages /\ DOMAIN dist \subseteq DOMAIN dist'
  <2>1. CASE dist' = Unpacked(cmd.package, f)
    BY <1>1, <1>2, <2>1, ArtifactUnpacked DEF Shape, PackTypeOK
  <2>2. QED
    BY <1>1, <2>1, DistKept
<1>4. Elsewhere'
  BY <1>1, ElsewhereKept
<1>5. CASE Exits("zero") \/ Exits("one")
  BY <1>1, <1>3, <1>4, <1>5, ShapeExits
<1>6. CASE cmd' = [cmd EXCEPT !.todo = rest, !.done = @ \cup {f}] \/ cmd' = [cmd EXCEPT !.todo = rest]
  <2>1. rest \in SUBSET Packs
    BY <1>2 DEF Command
  <2> DEFINE done == cmd.done \cup {f}
  <2>2. cmd' = [[cmd EXCEPT !.todo = rest] EXCEPT !.done = done] \/ cmd' = [cmd EXCEPT !.todo = rest]
    BY <1>2, <1>6 DEF Command
  <2>3. done \in SUBSET Packs
    BY <1>2 DEF Command
  <2> HIDE DEF rest, done
  <2>4. /\ cmd' \in Command /\ UNCHANGED <<cmd.kind, cmd.profile, cmd.package, cmd.pc, cmd.exit>>
        /\ cmd'.todo = rest
    BY <1>2, <2>1, <2>2, <2>3 DEF Command
  <2>5. QED
    BY <1>1, <1>2, <1>3, <1>4, <2>4, ShapeGoes DEF Running
<1>7. QED
  BY <1>1, <1>5, <1>6

LEMMA ShapeFetchWindows ==
    ASSUME Shape, FetchWindows
    PROVE  Shape'
<1>1. /\ Running /\ (Trouble \/ NoTrouble) /\ (Goes("detect") \/ Goes("archive"))
      /\ dist' = Unpacked(cmd.package, "windows") \/ UNCHANGED dist
      /\ UNCHANGED <<setup, revision, clock, cloud, latest, page>>
  BY DEF FetchWindows, At
<1>2. dist' \in Seq(Directory) /\ Len(dist') <= MaxPackages /\ DOMAIN dist \subseteq DOMAIN dist'
  <2>1. CASE dist' = Unpacked(cmd.package, "windows")
    BY <1>1, <2>1, ArtifactUnpacked DEF Shape, PackTypeOK, CODEBUILD_PLATFORMS
  <2>2. QED
    BY <1>1, <2>1, DistKept
<1>3. QED
  BY <1>1, <1>2, ElsewhereKept, ShapeMoves

LEMMA AvailablePacks ==
    ASSUME Shape
    PROVE  Available \cup {"all-platforms"} \in SUBSET Packs
BY DEF Available, Packs

LEMMA ContentTyped ==
    ASSUME Shape, Running, NEW f \in Packs
    PROVE  Content(f) \in [Platforms -> Bin]
<1>1. Package \in Directory
  BY DEF Shape, PackTypeOK, Placed, Package
<1>2. Nothing \in Bin
  BY PackagingBoundsAssumption DEF Nothing, Bin
<1>3. QED
  BY <1>1, <1>2 DEF Content, Directory

LEMMA ShapeDetect ==
    ASSUME Shape, Detect
    PROVE  Shape'
<1>1. /\ Running /\ UNCHANGED <<setup, revision, clock, dist, cloud, latest, page, trouble>>
      /\ \/ Exits("one")
         \/ cmd' = [cmd EXCEPT !.pc = "upload", !.targets = Available \cup {"all-platforms"},
                               !.todo = Available \cup {"all-platforms"}]
  BY DEF Detect, At
<1>2. Elsewhere'
  BY <1>1, ElsewhereKept DEF NoTrouble
<1>3. CASE Exits("one")
  BY <1>1, <1>2, <1>3, DistKept, ShapeExits
<1>4. CASE cmd' = [cmd EXCEPT !.pc = "upload", !.targets = Available \cup {"all-platforms"},
                              !.todo = Available \cup {"all-platforms"}]
  <2> DEFINE all == Available \cup {"all-platforms"}
  <2>1. all \in SUBSET Packs /\ cmd \in Command
    BY AvailablePacks DEF Shape, PackTypeOK
  <2>2. cmd' = [[[cmd EXCEPT !.pc = "upload"] EXCEPT !.targets = all] EXCEPT !.todo = all]
    BY <1>4
  <2> HIDE DEF all
  <2>3. /\ cmd' \in Command /\ UNCHANGED <<cmd.kind, cmd.profile, cmd.package, cmd.exit>>
        /\ cmd'.pc = "upload"
    BY <2>1, <2>2 DEF Command
  <2>4. QED
    BY <1>1, <1>2, <2>3, DistKept, ShapeGoes DEF Running, Building
<1>5. QED
  BY <1>1, <1>3, <1>4

(* What becomes of the command when a pack is uploaded, or is not.         *)
Uploaded(f, done, failed) ==
    LET rest == cmd.todo \ {f}
    IN /\ cmd' \in Command
       /\ cmd'.kind = cmd.kind /\ cmd'.profile = cmd.profile /\ cmd'.package = cmd.package
       /\ cmd'.targets = cmd.targets /\ cmd'.exit = cmd.exit /\ cmd'.kept = cmd.kept
       /\ cmd'.todo = rest /\ cmd'.done = cmd.done \cup done /\ cmd'.failed = cmd.failed \cup failed
       /\ rest = {} => cmd'.pc = "sweep"
       /\ rest # {} => cmd'.pc = cmd.pc

LEMMA CommandUploads ==
    ASSUME Shape, NEW f \in Packs, UploadPack(f)
    PROVE  \/ /\ page' = [page EXCEPT ![P][f] = <<Content(f)>>] /\ NoTrouble /\ Uploaded(f, {f}, {})
           \/ /\ UNCHANGED page /\ Trouble /\ Uploaded(f, {}, {f})
<1> DEFINE rest == cmd.todo \ {f}
           pc == IF rest = {} THEN "sweep" ELSE cmd.pc
<1>1. cmd \in Command
  BY DEF Shape, PackTypeOK
<1>2. rest \in SUBSET Packs /\ cmd.done \cup {f} \in SUBSET Packs /\ cmd.failed \cup {f} \in SUBSET Packs
      /\ cmd.pc = "upload"
  BY <1>1 DEF Command, UploadPack, At
<1>3. /\ rest = {} => pc = "sweep"
      /\ rest # {} => pc = "upload"
  BY <1>2
<1>4. CASE /\ page' = [page EXCEPT ![P][f] = <<Content(f)>>] /\ NoTrouble
           /\ cmd' = [cmd EXCEPT !.todo = rest, !.done = @ \cup {f}, !.pc = IF rest = {} THEN "sweep" ELSE @]
  <2>1. cmd' = [[[cmd EXCEPT !.todo = rest] EXCEPT !.done = cmd.done \cup {f}] EXCEPT !.pc = pc]
    BY <1>1, <1>4 DEF Command
  <2> HIDE DEF rest, pc
  <2>2. /\ cmd' \in Command
        /\ cmd'.kind = cmd.kind /\ cmd'.profile = cmd.profile /\ cmd'.package = cmd.package
        /\ cmd'.targets = cmd.targets /\ cmd'.exit = cmd.exit /\ cmd'.kept = cmd.kept
        /\ cmd'.todo = rest /\ cmd'.done = cmd.done \cup {f} /\ cmd'.failed = cmd.failed /\ cmd'.pc = pc
    BY <1>1, <1>2, <1>3, <2>1 DEF Command
  <2>3. Uploaded(f, {f}, {})
    BY <1>2, <1>3, <2>2 DEF Uploaded, rest
  <2>4. QED
    BY <1>4, <2>3
<1>5. CASE /\ Trouble /\ UNCHANGED page
           /\ cmd' = [cmd EXCEPT !.todo = rest, !.failed = @ \cup {f}, !.pc = IF rest = {} THEN "sweep" ELSE @]
  <2>1. cmd' = [[[cmd EXCEPT !.todo = rest] EXCEPT !.failed = cmd.failed \cup {f}] EXCEPT !.pc = pc]
    BY <1>1, <1>5 DEF Command
  <2> HIDE DEF rest, pc
  <2>2. /\ cmd' \in Command
        /\ cmd'.kind = cmd.kind /\ cmd'.profile = cmd.profile /\ cmd'.package = cmd.package
        /\ cmd'.targets = cmd.targets /\ cmd'.exit = cmd.exit /\ cmd'.kept = cmd.kept
        /\ cmd'.todo = rest /\ cmd'.done = cmd.done /\ cmd'.failed = cmd.failed \cup {f} /\ cmd'.pc = pc
    BY <1>1, <1>2, <1>3, <2>1 DEF Command
  <2>3. Uploaded(f, {}, {f})
    BY <1>2, <1>3, <2>2 DEF Uploaded, rest
  <2>4. QED
    BY <1>5, <2>3
<1>6. QED
  BY <1>4, <1>5 DEF UploadPack

(* One pack of the landing page changes.                                   *)
LEMMA PageSet ==
    ASSUME Shape, NEW p \in Profiles, NEW f \in Packs, NEW held \in Seq([Platforms -> Bin]),
           page' = [page EXCEPT ![p][f] = held], UNCHANGED latest, Trouble \/ NoTrouble
    PROVE  /\ Elsewhere' /\ page'[p][f] = held
           /\ \A q \in Profiles, g \in Packs : q # p \/ g # f => page'[q][g] = page[q][g]
<1>1. /\ page' \in [Profiles -> [Packs -> Seq([Platforms -> Bin])]] /\ page'[p][f] = held
      /\ \A q \in Profiles, g \in Packs : q # p \/ g # f => page'[q][g] = page[q][g]
  BY DEF Shape, PackTypeOK
<1>2. Elsewhere'
  BY <1>1, TroubleTyped DEF Shape, PackTypeOK, Elsewhere
<1>3. QED
  BY <1>1, <1>2

LEMMA ShapeUploadPack ==
    ASSUME Shape, NEW f \in Packs, UploadPack(f)
    PROVE  Shape'
<1>1. /\ Running /\ cmd.pc = "upload" /\ P \in Profiles
      /\ UNCHANGED <<setup, revision, clock, dist, cloud, latest>>
  BY DEF UploadPack, At, Shape, Placed, Running
<1>2. \/ page' = [page EXCEPT ![P][f] = <<Content(f)>>] /\ NoTrouble
      \/ UNCHANGED page /\ Trouble
  BY DEF UploadPack
<1>3. Elsewhere'
  <2>1. <<Content(f)>> \in Seq([Platforms -> Bin])
    BY <1>1, ContentTyped
  <2>2. QED
    BY <1>1, <1>2, <2>1, PageSet, ElsewhereKept
<1>4. /\ cmd' \in Command /\ UNCHANGED <<cmd.kind, cmd.profile, cmd.package, cmd.exit>>
      /\ cmd'.pc \in {"upload", "sweep"}
  BY <1>1, CommandUploads DEF Uploaded
<1>5. QED
  BY <1>1, <1>3, <1>4, DistKept, ShapeGoes DEF Running, Building

LEMMA ShapeSweepStale ==
    ASSUME Shape, NEW f \in Packs, SweepStale(f)
    PROVE  Shape'
<1>1. /\ Running /\ cmd.pc = "sweep" /\ P \in Profiles /\ cmd \in Command
      /\ UNCHANGED <<setup, revision, clock, dist, cloud, latest>>
  BY DEF SweepStale, At, Shape, Placed, Running, PackTypeOK
<1>2. CASE page' = [page EXCEPT ![P][f] = <<>>] /\ UNCHANGED cmd /\ NoTrouble
  <2>1. <<>> \in Seq([Platforms -> Bin])
    OBVIOUS
  <2>2. Elsewhere'
    BY <1>1, <1>2, <2>1, PageSet
  <2>3. QED
    BY <1>1, <1>2, <2>2, DistKept, ShapeGoes DEF Running, Building
<1>3. CASE UNCHANGED page /\ cmd' = [cmd EXCEPT !.kept = TRUE, !.todo = @ \cup {f}] /\ Trouble
  <2>1. /\ cmd' \in Command /\ UNCHANGED <<cmd.kind, cmd.profile, cmd.package, cmd.exit>>
        /\ cmd'.pc = "sweep"
    BY <1>1, <1>3 DEF Command
  <2>2. QED
    BY <1>1, <1>3, <2>1, ElsewhereKept, DistKept, ShapeGoes DEF Running, Building
<1>4. QED
  BY <1>2, <1>3 DEF SweepStale

LEMMA ShapePublishEnds ==
    ASSUME Shape, PublishEnds
    PROVE  Shape'
<1>1. Running /\ UNCHANGED <<setup, revision, clock, dist, cloud, latest, page, trouble>>
      /\ (Exits("zero") \/ Exits("one"))
  BY DEF PublishEnds, At
<1>2. QED
  BY <1>1, ElsewhereKept, DistKept, ShapeExits DEF NoTrouble

LEMMA ShapeArchive ==
    ASSUME Shape, Archive
    PROVE  Shape'
<1>1. Running /\ UNCHANGED <<setup, revision, clock, dist, cloud, latest, page>>
      /\ (Trouble \/ NoTrouble) /\ (Exits("zero") \/ Exits("one"))
  BY DEF Archive, At
<1>2. QED
  BY <1>1, ElsewhereKept, DistKept, ShapeExits

LEMMA ShapeInterrupt ==
    ASSUME Shape, Interrupt
    PROVE  Shape'
BY ElsewhereKept, DistKept, ShapeExits DEF Interrupt

LEMMA ShapeEditSource ==
    ASSUME Shape, EditSource
    PROVE  Shape'
<1>1. /\ ~Running /\ revision < MaxRevision /\ revision' = revision + 1 /\ revision \in 1 .. MaxRevision
      /\ UNCHANGED <<setup, clock, dist, cloud, latest, page, cmd, trouble>> /\ MaxRevision \in Nat
  BY PackagingBoundsAssumption DEF EditSource, Shape, PackTypeOK
<1>2. \A p \in Profiles : cloud[p].source \in Nat
  <2> TAKE p \in Profiles
  <2>1. cloud[p] \in Bucket
    BY DEF Shape, PackTypeOK
  <2>2. QED
    BY <1>1, <2>1 DEF Bucket
<1>3. Buckets'
  BY <1>1, <1>2, BucketsTyped DEF Buckets
<1>4. Elsewhere' /\ Placed' /\ cmd' \in Command
  BY <1>1, ElsewhereKept DEF NoTrouble, Shape, PackTypeOK, Placed, Running, P
<1>5. cmd'.pc # "start" /\ revision' \in 1 .. MaxRevision /\ clock' \in Nat
  BY <1>1 DEF Shape, Placed, PackTypeOK
<1>6. QED
  BY <1>1, <1>3, <1>4, <1>5, DistKept, ShapeMade

LEMMA ShapeStutter ==
    ASSUME Shape, UNCHANGED packVars
    PROVE  Shape'
BY DEF Shape, PackTypeOK, Placed, Sourced, Running, P, packVars

LEMMA ShapeNext ==
    ASSUME Shape, [PackNext]_packVars
    PROVE  Shape'
<1>1. ASSUME NEW p \in Profiles, NEW targets \in Requests, PackageCbStart(p, targets \cap CODEBUILD_PLATFORMS)
      PROVE  Shape'
  BY <1>1, ShapePackageCbStart
<1>2. QED
  BY <1>1, ShapePackageStart, ShapeGoBuildBreaks, ShapeRegenerate, ShapeBuildsCheck, ShapeDistributeStart,
     ShapeBuildBegins, ShapeBuildEnds, ShapePackage, ShapeUploadSource, ShapeWriteLatest, ShapeStartBuild,
     ShapeFetchArtifact, ShapeUploadPack, ShapeSweepStale, ShapeFetchWindows, ShapeDetect, ShapePublishEnds,
     ShapeArchive, ShapeInterrupt, ShapeEditSource, ShapeStutter DEF PackNext

(* The type invariant, for any profiles, requests and bounds.              *)
THEOREM PackTypeCorrect == PackSpec => []PackTypeOK
<1>1. PackInit => Shape
  BY ShapeInit
<1>2. Shape /\ [PackNext]_packVars => Shape'
  BY ShapeNext
<1>3. Shape => PackTypeOK
  BY DEF Shape
<1>4. QED
  BY <1>1, <1>2, <1>3, PTL DEF PackSpec

(* A build is made from the source of the command that asked for it, or of *)
(* a later one: source.zip is always there before the build is asked for,  *)
(* and is only ever replaced by a later one.                               *)
THEOREM PackBuildsOwn == PackSpec => []BuildsOwnSource
<1>1. PackInit => Shape
  BY ShapeInit
<1>2. Shape /\ [PackNext]_packVars => Shape'
  BY ShapeNext
<1>3. Shape => BuildsOwnSource
  BY DEF Shape, Sourced, BuildsOwnSource
<1>4. QED
  BY <1>1, <1>2, <1>3, PTL DEF PackSpec

-----------------------------------------------------------------------------
(* What a "package" that succeeds has written.                             *)

Told == Written /\ PackageTellsLocally

LEMMA ToldElse ==
    ASSUME cmd'.kind = "package" => cmd'.pc \notin {"installer", "batch", "settings", "extras"} /\ cmd'.exit # "zero"
    PROVE  Told'
BY DEF Told, Written, PackageTellsLocally

LEMMA ToldKept ==
    ASSUME Told, UNCHANGED <<setup, dist, cmd>>
    PROVE  Told'
BY DEF Told, Written, PackageTellsLocally, Package, P, Files

LEMMA ToldStarts ==
    ASSUME Shape, NEW p \in Profiles,
           \/ \E remote \in BOOLEAN, targets \in Requests : PackageStart(p, remote, targets)
           \/ \E targets \in Requests : GoBuildBreaks(p, targets)
           \/ \E targets \in Requests : PackageCbStart(p, targets \cap CODEBUILD_PLATFORMS)
           \/ Regenerate(p) \/ BuildsCheck(p)
           \/ \E i \in DOMAIN dist : DistributeStart(p, i)
    PROVE  Told'
<1>1. ASSUME NEW kind, NEW pc \in {"codebuild", "finish", "latest", "fetch", "windows"}, NEW package,
             NEW targets, NEW todo, Starts(kind, p, pc, package, targets, todo)
      PROVE  Told'
  <2>1. cmd'.pc = pc /\ cmd'.exit = "running"
    BY <1>1 DEF Starts, Asleep
  <2>2. QED
    BY <2>1, ToldElse
<1>2. CASE \E remote \in BOOLEAN, targets \in Requests : PackageStart(p, remote, targets)
  BY <1>1, <1>2 DEF PackageStart
<1>3. CASE \E targets \in Requests : GoBuildBreaks(p, targets)
  <2>1. cmd'.pc = "off" /\ cmd'.exit = "one"
    BY <1>3 DEF GoBuildBreaks, Asleep
  <2>2. QED
    BY <2>1, ToldElse
<1>4. CASE \E targets \in Requests : PackageCbStart(p, targets \cap CODEBUILD_PLATFORMS)
  BY <1>1, <1>4 DEF PackageCbStart
<1>5. CASE Regenerate(p)
  <2>1. cmd'.kind = "regenerate"
    BY <1>5 DEF Regenerate, Asleep
  <2>2. QED
    BY <2>1, ToldElse
<1>6. CASE BuildsCheck(p)
  BY <1>1, <1>6 DEF BuildsCheck
<1>7. CASE \E i \in DOMAIN dist : DistributeStart(p, i)
  BY <1>1, <1>7 DEF DistributeStart
<1>8. QED
  BY <1>2, <1>3, <1>4, <1>5, <1>6, <1>7

LEMMA ToldConfig ==
    ASSUME Shape, Told, CreateConfig
    PROVE  Told'
<1>1. CASE Writes("config") /\ Goes("installer")
  <2>1. cmd'.pc = "installer" /\ cmd'.package = cmd.package /\ cmd'.exit = "running"
    BY <1>1, CommandGoes DEF CreateConfig, Running
  <2>2. "config" \in dist'[cmd.package].parts
    BY <1>1, PartWritten DEF CreateConfig, Parts
  <2>3. QED
    BY <2>1, <2>2 DEF Told, Written, PackageTellsLocally, Package
<1>2. CASE cmd.kind = "package_cb" /\ Goes("settings")
  <2>1. cmd'.kind = cmd.kind
    BY <1>2, CommandGoes
  <2>2. QED
    BY <1>2, <2>1, ToldElse
<1>3. QED
  BY <1>1, <1>2 DEF CreateConfig

LEMMA ToldInstaller ==
    ASSUME Shape, Told, CreateInstaller
    PROVE  Told'
<1>1. cmd'.pc = "batch" /\ cmd'.package = cmd.package /\ cmd'.exit = "running" /\ cmd'.kind = cmd.kind
  BY CommandGoes DEF CreateInstaller, Running
<1>2. dist'[cmd.package].parts = Package.parts \cup {"sh"}
  BY PartWritten DEF CreateInstaller, Parts
<1>3. cmd.kind = "package" => "config" \in Package.parts
  BY DEF Told, Written, CreateInstaller
<1>4. QED
  BY <1>1, <1>2, <1>3 DEF Told, Written, PackageTellsLocally, Package

LEMMA ToldWindowsInstaller ==
    ASSUME Shape, Told, CreateWindowsInstaller
    PROVE  Told'
<1>1. cmd'.pc = "settings" /\ cmd'.package = cmd.package /\ cmd'.exit = "running" /\ cmd'.kind = cmd.kind
  BY CommandGoes DEF CreateWindowsInstaller, Running
<1>2. /\ Package.parts \subseteq dist'[cmd.package].parts /\ dist'[cmd.package].bins = Package.bins
      /\ "windows" \in Files(cmd.package) => "bat" \in dist'[cmd.package].parts
  BY PartWritten DEF CreateWindowsInstaller, InstallsOnWindows, Parts, Package
<1>3. cmd.kind = "package" => {"config", "sh"} \subseteq Package.parts
  BY DEF Told, Written, CreateWindowsInstaller
<1>4. Files(cmd.package)' = Files(cmd.package)
  BY <1>1, <1>2 DEF Files, Package
<1>5. QED
  BY <1>1, <1>2, <1>3, <1>4 DEF Told, Written, PackageTellsLocally, Package

LEMMA ToldSettings ==
    ASSUME Shape, Told, CreateClaudeSettings
    PROVE  Told'
<1>1. CASE cmd.kind # "package"
  <2>1. PICK code \in {"zero", "one"} : Goes("latest") \/ Goes("codebuild") \/ Exits(code)
    BY <1>1 DEF CreateClaudeSettings
  <2>2. cmd'.kind = cmd.kind
    BY <2>1, CommandExits, CommandGoes
  <2>3. QED
    BY <1>1, <2>2, ToldElse
<1>2. CASE cmd.kind = "package"
  <2>1. cmd'.pc = "extras" /\ cmd'.package = cmd.package /\ cmd'.exit = "running"
    BY <1>2, CommandGoes DEF CreateClaudeSettings, Running
  <2>2. /\ {"config", "sh"} \subseteq Package.parts
        /\ "windows" \in Files(cmd.package) => "bat" \in Package.parts
    BY <1>2 DEF Told, Written, CreateClaudeSettings
  <2>3. Package.parts \subseteq dist'[cmd.package].parts /\ dist'[cmd.package].bins = Package.bins
    BY PartWritten DEF CreateClaudeSettings, Parts, Package
  <2>4. Files(cmd.package)' = Files(cmd.package)
    BY <2>1, <2>3 DEF Files, Package
  <2>5. QED
    BY <2>1, <2>2, <2>3, <2>4 DEF Told, Written, PackageTellsLocally, Package
<1>3. QED
  BY <1>1, <1>2

(* The end: with nothing missing, every platform asked for was built.      *)
LEMMA ToldEnds ==
    ASSUME Shape, Told, PackageEnds
    PROVE  Told'
<1> DEFINE built == Files(cmd.package)
<1>1. /\ Running /\ cmd.kind = "package" /\ cmd.pc = "extras" /\ UNCHANGED setup
      /\ \/ /\ Writes("extras")
            /\ Exits(IF Incomplete(built) \/ "settings" \notin Package.parts THEN "one" ELSE "zero")
         \/ Exits("one")
  BY DEF PackageEnds, At
<1>2. CASE Exits("one")
  <2>1. cmd'.pc = "off" /\ cmd'.exit = "one"
    BY <1>2, CommandExits
  <2>2. QED
    BY <2>1, ToldElse
<1>3. CASE Writes("extras") /\ ~Incomplete(built) /\ "settings" \in Package.parts /\ Exits("zero")
  <2>1. cmd'.pc = "off" /\ cmd'.package = cmd.package /\ cmd'.profile = cmd.profile /\ cmd'.targets = cmd.targets
    BY <1>3, CommandExits
  <2>2. /\ dist'[cmd.package].parts = Package.parts \cup {"extras"}
        /\ dist'[cmd.package].bins = Package.bins /\ dist'[cmd.package].helpers = Package.helpers
        /\ cmd.package \in DOMAIN dist
    BY <1>1, <1>3, PartWritten DEF Parts
  <2>3. /\ {"config", "sh", "settings"} \subseteq Package.parts
        /\ "windows" \in built => "bat" \in Package.parts
    BY <1>1, <1>3 DEF Told, Written
  <2>4. Parts \ {"bat"} \subseteq Package'.parts
    BY <2>1, <2>2, <2>3 DEF Package, Parts
  <2>5. "windows" \in built => "bat" \in Package'.parts
    BY <2>1, <2>2, <2>3 DEF Package
  <2>6. Files(cmd.package)' = built
    BY <2>1, <2>2 DEF Files, Package
  <2>7. ~setup[P].codebuild /\ ~setup[P].zero =>
            /\ cmd.targets \subseteq built
            /\ setup[P].monitoring => cmd.targets \subseteq Package.helpers
    BY <1>3 DEF Incomplete
  <2>8. QED
    BY <1>1, <2>1, <2>2, <2>4, <2>5, <2>6, <2>7 DEF Told, Written, PackageTellsLocally, P, Package
<1>4. QED
  BY <1>1, <1>2, <1>3

LEMMA ToldBuilds ==
    ASSUME Shape, Told, UploadSource \/ WriteLatest \/ (\E f \in Packs : StartBuild(f)) \/ Interrupt
    PROVE  Told'
<1>1. ASSUME NEW pc \in {"finish", "start"}, Goes(pc), Running
      PROVE  Told'
  BY <1>1, CommandGoes, ToldElse DEF Running
<1>2. ASSUME NEW code \in {"one", "killed"}, Exits(code)
      PROVE  Told'
  BY <1>2, CommandExits, ToldElse
<1>3. CASE UploadSource
  BY <1>1, <1>2, <1>3 DEF UploadSource, GivesUp
<1>4. CASE WriteLatest
  <2>1. CASE cmd.kind = "package"
    BY <1>1, <1>4, <2>1 DEF WriteLatest
  <2>2. CASE cmd.kind # "package"
    BY <1>4, <2>2, CommandExits, ToldElse DEF WriteLatest
  <2>3. QED
    BY <2>1, <2>2
<1>5. CASE \E f \in Packs : StartBuild(f)
  <2>1. PICK f \in Packs : StartBuild(f)
    BY <1>5
  <2>2. cmd \in Command /\ cmd.exit = "running"
    BY <2>1, CommandTyped DEF StartBuild, Running
  <2>3. cmd'.pc \in {"latest", "start", "finish"} /\ cmd'.exit = "running"
    BY <2>1, <2>2 DEF StartBuild, Command
  <2>4. QED
    BY <2>3, ToldElse
<1>6. CASE Interrupt
  BY <1>2, <1>6 DEF Interrupt
<1>7. QED
  BY <1>3, <1>4, <1>5, <1>6

(* Commands of another kind.                                               *)
LEMMA KindKept ==
    ASSUME Shape,
           \/ \E f \in Packs : FetchArtifact(f) \/ UploadPack(f) \/ SweepStale(f)
           \/ FetchWindows \/ Detect \/ PublishEnds \/ Archive
    PROVE  cmd'.kind = cmd.kind /\ cmd.kind \in {"builds", "distribute"}
<1>1. cmd \in Command
  BY CommandTyped
<1>2. ASSUME NEW pc, NEW code, Goes(pc) \/ Exits(code)
      PROVE  cmd'.kind = cmd.kind
  BY <1>1, <1>2 DEF Goes, Exits, Command
<1>3. ASSUME NEW f \in Packs, FetchArtifact(f)
      PROVE  cmd'.kind = cmd.kind /\ cmd.kind = "builds"
  BY <1>1, <1>2, <1>3 DEF FetchArtifact, At, Command
<1>4. ASSUME NEW f \in Packs, UploadPack(f) \/ SweepStale(f)
      PROVE  cmd'.kind = cmd.kind /\ cmd.kind = "distribute"
  BY <1>1, <1>4 DEF UploadPack, SweepStale, At, Command
<1>5. Detect => cmd'.kind = cmd.kind /\ cmd.kind = "distribute"
  BY <1>1, <1>2 DEF Detect, At, Command
<1>6. FetchWindows \/ PublishEnds \/ Archive
        => cmd'.kind = cmd.kind /\ cmd.kind = "distribute"
  BY <1>2 DEF FetchWindows, PublishEnds, Archive, At
<1>7. QED
  BY <1>3, <1>4, <1>5, <1>6

LEMMA ToldNext ==
    ASSUME Shape, Told, [PackNext]_packVars
    PROVE  Told'
<1>1. ASSUME NEW p \in Profiles, NEW i \in DOMAIN cloud[p].builds, BuildBegins(p, i) \/ BuildEnds(p, i)
      PROVE  Told'
  BY <1>1, ToldKept DEF BuildBegins, BuildEnds
<1>2. CASE EditSource \/ UNCHANGED packVars
  BY <1>2, ToldKept DEF EditSource, packVars
<1>3. CASE \/ \E f \in Packs : FetchArtifact(f) \/ UploadPack(f) \/ SweepStale(f)
           \/ FetchWindows \/ Detect \/ PublishEnds \/ Archive
  BY <1>3, KindKept, ToldElse
<1>4. QED
  BY <1>1, <1>2, <1>3, ToldStarts, ToldConfig, ToldInstaller, ToldWindowsInstaller,
     ToldSettings, ToldEnds, ToldBuilds DEF PackNext

(* A "package" that succeeds has written every part of the package and,    *)
(* where nothing is left to CodeBuild, built all that it was asked for.    *)
THEOREM PackageTells == PackSpec => []PackageTellsLocally
<1>1. PackInit => Shape /\ Told
  BY ShapeInit DEF PackInit, Asleep, Told, Written, PackageTellsLocally
<1>2. Shape /\ Told /\ [PackNext]_packVars => (Shape /\ Told)'
  BY ShapeNext, ToldNext
<1>3. Shape /\ Told => PackageTellsLocally
  BY DEF Told
<1>4. QED
  BY <1>1, <1>2, <1>3, PTL DEF PackSpec

-----------------------------------------------------------------------------
(* What a "distribute" has put on the landing page.                        *)

Shown == Publishing /\ PublishedWhole

LEMMA ShownElse ==
    ASSUME cmd'.kind # "distribute" \/ cmd'.exit \notin {"running", "zero"}
    PROVE  Shown'
BY DEF Shown, Publishing, PublishedWhole, Running

LEMMA ContentKept ==
    ASSUME UNCHANGED <<setup, dist>>, cmd'.profile = cmd.profile, cmd'.package = cmd.package
    PROVE  /\ P' = P /\ Available' = Available
           /\ \A f \in Packs : Content(f)' = Content(f)
BY DEF P, Available, Package, Content

LEMMA ShownKept ==
    ASSUME Shown, UNCHANGED <<setup, dist, page, cmd>>
    PROVE  Shown'
<1>1. P' = P /\ Available' = Available /\ \A f \in Packs : Content(f)' = Content(f)
  BY ContentKept
<1>2. Publishing'
  <2>1. cmd.kind = "distribute" /\ Running /\ cmd.pc \in {"upload", "sweep"}
           => \A f \in cmd.done : page'[P][f] = <<Content(f)>>
    BY DEF Shown, Publishing
  <2>2. \A f : Content(f)' = Content(f)
    BY DEF Content, Package
  <2>3. QED
    BY <1>1, <2>1, <2>2 DEF Shown, Publishing, Running
<1>3. PublishedWhole'
  BY <1>1 DEF Shown, PublishedWhole
<1>4. QED
  BY <1>2, <1>3 DEF Shown

LEMMA ShownStarts ==
    ASSUME Shape, NEW p \in Profiles,
           \/ \E remote \in BOOLEAN, targets \in Requests : PackageStart(p, remote, targets)
           \/ \E targets \in Requests : GoBuildBreaks(p, targets)
           \/ \E targets \in Requests : PackageCbStart(p, targets \cap CODEBUILD_PLATFORMS)
           \/ Regenerate(p) \/ BuildsCheck(p)
    PROVE  Shown'
<1>1. ASSUME NEW kind, kind # "distribute", NEW pc, NEW package, NEW targets, NEW todo,
             Starts(kind, p, pc, package, targets, todo)
      PROVE  Shown'
  <2>1. cmd'.kind = kind
    BY <1>1 DEF Starts, Asleep
  <2>2. QED
    BY <1>1, <2>1, ShownElse
<1>2. CASE \E remote \in BOOLEAN, targets \in Requests : PackageStart(p, remote, targets)
  BY <1>1, <1>2 DEF PackageStart
<1>3. CASE \E targets \in Requests : GoBuildBreaks(p, targets)
  <2>1. cmd'.kind = "package"
    BY <1>3 DEF GoBuildBreaks, Asleep
  <2>2. QED
    BY <2>1, ShownElse
<1>4. CASE \E targets \in Requests : PackageCbStart(p, targets \cap CODEBUILD_PLATFORMS)
  BY <1>1, <1>4 DEF PackageCbStart
<1>5. CASE Regenerate(p)
  <2>1. cmd'.kind = "regenerate"
    BY <1>5 DEF Regenerate, Asleep
  <2>2. QED
    BY <2>1, ShownElse
<1>6. CASE BuildsCheck(p)
  BY <1>1, <1>6 DEF BuildsCheck
<1>7. QED
  BY <1>2, <1>3, <1>4, <1>5, <1>6

LEMMA ShownDistributeStart ==
    ASSUME Shape, NEW p \in Profiles, NEW i \in DOMAIN dist, DistributeStart(p, i)
    PROVE  Shown'
<1>1. Fresh("distribute", p, "windows", i, {}, {})
  BY PackageNumber, CommandStarts DEF DistributeStart
<1>2. QED
  BY <1>1 DEF Fresh, Shown, Publishing, PublishedWhole

(* Commands that do not distribute.                                        *)
LEMMA ShownOther ==
    ASSUME Shape, Shown,
           \/ CreateConfig \/ CreateInstaller \/ CreateWindowsInstaller \/ CreateClaudeSettings \/ PackageEnds
           \/ UploadSource \/ WriteLatest \/ Interrupt
           \/ \E f \in Packs : StartBuild(f) \/ FetchArtifact(f)
    PROVE  Shown'
<1>1. CASE Interrupt
  BY <1>1, CommandExits, ShownElse DEF Interrupt
<1>2. CASE \/ CreateConfig \/ CreateInstaller \/ CreateWindowsInstaller \/ CreateClaudeSettings \/ PackageEnds
           \/ UploadSource \/ WriteLatest
           \/ \E f \in Packs : StartBuild(f) \/ FetchArtifact(f)
  <2>1. /\ Running
        /\ cmd.kind = "distribute" => cmd.pc \in {"windows", "detect", "upload", "sweep", "archive"}
    BY <1>2 DEF CreateConfig, CreateInstaller, CreateWindowsInstaller, CreateClaudeSettings, PackageEnds,
       UploadSource, WriteLatest, StartBuild, FetchArtifact, At, Shown, Publishing
  <2>2. cmd.kind # "distribute"
    BY <1>2, <2>1 DEF CreateConfig, CreateInstaller, CreateWindowsInstaller, CreateClaudeSettings, PackageEnds,
       UploadSource, WriteLatest, StartBuild, FetchArtifact, At
  <2>3. cmd \in Command
    BY DEF Shape, PackTypeOK
  <2>4. ASSUME NEW pc, NEW code, Goes(pc) \/ Exits(code)
        PROVE  cmd'.kind = cmd.kind
    BY <2>3, <2>4 DEF Goes, Exits, Command
  <2>5. CreateConfig \/ CreateInstaller \/ CreateWindowsInstaller \/ CreateClaudeSettings => cmd'.kind = cmd.kind
    BY <2>4 DEF CreateConfig, CreateInstaller, CreateWindowsInstaller, CreateClaudeSettings
  <2>6. PackageEnds \/ UploadSource \/ WriteLatest => cmd'.kind = cmd.kind
    BY <2>4 DEF PackageEnds, UploadSource, GivesUp, WriteLatest
  <2>7. ASSUME NEW f \in Packs, StartBuild(f)
        PROVE  cmd'.kind = cmd.kind
    BY <2>3, <2>7 DEF StartBuild, Command
  <2>8. ASSUME NEW f \in Packs, FetchArtifact(f)
        PROVE  cmd'.kind = cmd.kind
    BY <2>3, <2>4, <2>8 DEF FetchArtifact, Command
  <2>9. QED
    BY <1>2, <2>2, <2>5, <2>6, <2>7, <2>8, ShownElse
<1>3. QED
  BY <1>1, <1>2

LEMMA ShownFetchWindows ==
    ASSUME Shape, Shown, FetchWindows
    PROVE  Shown'
<1> DEFINE next == IF setup[P].distribution = "page" THEN "detect" ELSE "archive"
<1>1. /\ Running /\ cmd.kind = "distribute" /\ cmd.pc = "windows" /\ UNCHANGED setup
      /\ Goes(next) /\ next \in {"detect", "archive"}
      /\ next = "detect" <=> setup[P].distribution = "page"
  BY DEF FetchWindows, At
<1> HIDE DEF next
<1>2. /\ cmd'.kind = "distribute" /\ cmd'.profile = cmd.profile /\ cmd'.pc = next /\ cmd'.exit = "running"
      /\ cmd'.done = cmd.done /\ cmd'.failed = cmd.failed /\ cmd'.kept = cmd.kept
  BY <1>1, CommandGoes DEF Running
<1>3. cmd.done = {} /\ cmd.failed = {} /\ ~cmd.kept
  BY <1>1 DEF Shown, Publishing
<1>4. QED
  BY <1>1, <1>2, <1>3 DEF Shown, Publishing, PublishedWhole, P

LEMMA ShownDetect ==
    ASSUME Shape, Shown, Detect
    PROVE  Shown'
<1>1. /\ Running /\ cmd.kind = "distribute" /\ cmd.pc = "detect"
      /\ UNCHANGED <<setup, dist, page>>
      /\ \/ Exits("one")
         \/ cmd' = [cmd EXCEPT !.pc = "upload", !.targets = Available \cup {"all-platforms"},
                               !.todo = Available \cup {"all-platforms"}]
  BY DEF Detect, At
<1>2. CASE Exits("one")
  BY <1>2, CommandExits, ShownElse
<1>3. CASE cmd' = [cmd EXCEPT !.pc = "upload", !.targets = Available \cup {"all-platforms"},
                              !.todo = Available \cup {"all-platforms"}]
  <2> DEFINE all == Available \cup {"all-platforms"}
  <2>1. cmd \in Command /\ cmd.done = {} /\ cmd.failed = {} /\ ~cmd.kept /\ setup[P].distribution = "page"
    BY <1>1 DEF Shape, PackTypeOK, Shown, Publishing
  <2>2. cmd' = [[[cmd EXCEPT !.pc = "upload"] EXCEPT !.targets = all] EXCEPT !.todo = all]
    BY <1>3
  <2> HIDE DEF all
  <2>3. /\ cmd'.kind = "distribute" /\ cmd'.profile = cmd.profile /\ cmd'.package = cmd.package
        /\ cmd'.exit = "running" /\ cmd'.pc = "upload" /\ cmd'.targets = all /\ cmd'.todo = all
        /\ cmd'.done = {} /\ cmd'.failed = {} /\ cmd'.kept = cmd.kept
    BY <1>1, <2>1, <2>2 DEF Command, Running
  <2>4. Available' = Available /\ P' = P
    BY <1>1, <2>3, ContentKept
  <2>5. QED
    BY <1>1, <2>1, <2>3, <2>4 DEF Shown, Publishing, PublishedWhole, Running, all
<1>4. QED
  BY <1>1, <1>2, <1>3

LEMMA ShownUploadPack ==
    ASSUME Shape, Shown, NEW f \in Packs, UploadPack(f)
    PROVE  Shown'
<1>1. /\ Running /\ cmd.kind = "distribute" /\ cmd.pc = "upload" /\ f \in cmd.todo /\ P \in Profiles
      /\ UNCHANGED <<setup, dist, latest>> /\ cmd \in Command
  BY DEF UploadPack, At, First, Shape, Placed, PackTypeOK, Running
<1>2. /\ setup[P].distribution = "page" /\ ~cmd.kept
      /\ cmd.targets = Available \cup {"all-platforms"}
      /\ \A g \in cmd.done : page[P][g] = <<Content(g)>>
      /\ cmd.todo \cup cmd.done \cup cmd.failed = cmd.targets
  BY <1>1 DEF Shown, Publishing
<1>3. PICK done \in SUBSET {f}, failed \in SUBSET {f} :
        /\ Uploaded(f, done, failed) /\ done \cup failed = {f}
        /\ \/ done = {f} /\ page' = [page EXCEPT ![P][f] = <<Content(f)>>] /\ NoTrouble
           \/ done = {} /\ UNCHANGED page
  BY CommandUploads
<1>4. /\ cmd'.kind = "distribute" /\ cmd'.profile = cmd.profile /\ cmd'.package = cmd.package
      /\ cmd'.targets = cmd.targets /\ cmd'.exit = "running" /\ cmd'.kept = cmd.kept
      /\ cmd'.todo = cmd.todo \ {f} /\ cmd'.done = cmd.done \cup done /\ cmd'.failed = cmd.failed \cup failed
      /\ cmd'.todo = {} => cmd'.pc = "sweep"
      /\ cmd'.todo # {} => cmd'.pc = "upload"
  BY <1>1, <1>3 DEF Uploaded, Running
<1>5. P' = P /\ Available' = Available /\ \A g \in Packs : Content(g)' = Content(g)
  BY <1>1, <1>4, ContentKept
<1>6. \A g \in cmd'.done : page'[P][g] = <<Content(g)>>
  <2>1. CASE done = {f} /\ page' = [page EXCEPT ![P][f] = <<Content(f)>>] /\ NoTrouble
    <3> DEFINE held == <<Content(f)>>
    <3>1. page'[P][f] = held /\ \A g \in Packs : g # f => page'[P][g] = page[P][g]
      <4>1. page' = [page EXCEPT ![P][f] = held]
        BY <2>1
      <4> HIDE DEF held
      <4>2. page \in [Profiles -> [Packs -> Seq([Platforms -> Bin])]]
        BY DEF Shape, PackTypeOK
      <4>3. QED
        BY <1>1, <4>1, <4>2
    <3>2. cmd.done \subseteq Packs
      BY <1>1 DEF Command
    <3>3. QED
      BY <1>2, <1>4, <2>1, <3>1, <3>2
  <2>2. CASE done = {} /\ UNCHANGED page
    BY <1>2, <1>4, <2>2
  <2>3. QED
    BY <1>3, <2>1, <2>2
<1>7. cmd'.done \subseteq Packs
  BY <1>1, <1>3, <1>4 DEF Command
<1>8. cmd'.todo \cup cmd'.done \cup cmd'.failed = cmd'.targets
  BY <1>1, <1>2, <1>3, <1>4
<1>9. \A g \in cmd'.done : page'[P'][g] = <<Content(g)'>>
  BY <1>5, <1>6, <1>7
<1>10. Publishing'
  BY <1>1, <1>2, <1>4, <1>5, <1>8, <1>9 DEF Publishing
<1>11. PublishedWhole'
  BY <1>4 DEF PublishedWhole
<1>12. QED
  BY <1>10, <1>11 DEF Shown

LEMMA ShownSweepStale ==
    ASSUME Shape, Shown, NEW f \in Packs, SweepStale(f)
    PROVE  Shown'
<1>1. /\ Running /\ cmd.kind = "distribute" /\ cmd.pc = "sweep" /\ f \in Stale /\ P \in Profiles
      /\ UNCHANGED <<setup, dist, latest>> /\ cmd \in Command
  BY DEF SweepStale, At, First, Shape, Placed, PackTypeOK, Running
<1>2. /\ setup[P].distribution = "page" /\ cmd.targets = Available \cup {"all-platforms"}
      /\ \A g \in cmd.done : page[P][g] = <<Content(g)>>
      /\ cmd.done \cup cmd.failed = cmd.targets /\ (~cmd.kept => cmd.todo = {})
  BY <1>1 DEF Shown, Publishing
<1>3. f \notin cmd.done
  BY <1>1, <1>2 DEF Stale
<1>4. /\ cmd'.kind = "distribute" /\ cmd'.profile = cmd.profile /\ cmd'.package = cmd.package
      /\ cmd'.targets = cmd.targets /\ cmd'.exit = "running" /\ cmd'.pc = "sweep"
      /\ cmd'.done = cmd.done /\ cmd'.failed = cmd.failed /\ (~cmd'.kept => cmd'.todo = {})
  BY <1>1, <1>2 DEF SweepStale, Command, Running
<1>5. P' = P /\ Available' = Available /\ \A g \in Packs : Content(g)' = Content(g)
  BY <1>1, <1>4, ContentKept
<1>6. \A g \in cmd.done : g \in Packs /\ page'[P][g] = page[P][g]
  <2>1. cmd.done \subseteq Packs /\ <<>> \in Seq([Platforms -> Bin])
    BY <1>1 DEF Command
  <2>2. CASE page' = [page EXCEPT ![P][f] = <<>>] /\ NoTrouble
    BY <1>1, <1>3, <2>1, <2>2, PageSet
  <2>3. CASE UNCHANGED page
    BY <2>1, <2>3
  <2>4. QED
    BY <2>2, <2>3 DEF SweepStale
<1>7. \A g \in cmd'.done : page'[P'][g] = <<Content(g)'>>
  BY <1>2, <1>4, <1>5, <1>6
<1>8. Publishing'
  BY <1>1, <1>2, <1>4, <1>5, <1>7 DEF Publishing
<1>9. PublishedWhole'
  BY <1>4 DEF PublishedWhole
<1>10. QED
  BY <1>8, <1>9 DEF Shown

(* Success: everything was uploaded, and nothing stale is left.            *)
LEMMA ShownPublishEnds ==
    ASSUME Shape, Shown, PublishEnds
    PROVE  Shown'
<1>1. /\ Running /\ cmd.kind = "distribute" /\ cmd.pc = "sweep" /\ (cmd.done # {} => Stale \subseteq cmd.todo)
      /\ Exits(IF Published THEN "zero" ELSE "one") /\ UNCHANGED <<setup, dist, page>>
  BY DEF PublishEnds, At
<1>2. CASE ~Published
  BY <1>1, <1>2, CommandExits, ShownElse
<1>3. CASE Published
  <2>1. /\ cmd'.profile = cmd.profile /\ cmd'.package = cmd.package /\ cmd'.exit = "zero" /\ cmd'.kept = cmd.kept
    BY <1>1, <1>3, CommandExits
  <2>2. P' = P /\ Available' = Available /\ \A g \in Packs : Content(g)' = Content(g)
    BY <1>1, <2>1, ContentKept
  <2>3. /\ cmd.targets = Available \cup {"all-platforms"} /\ cmd.done = cmd.targets
        /\ \A g \in cmd.done : page[P][g] = <<Content(g)>>
        /\ ~cmd.kept => cmd.todo = {}
    BY <1>1, <1>3 DEF Shown, Publishing, Published
  <2>4. ~cmd.kept => \A f \in Packs \ cmd.targets : page[P][f] = <<>>
    BY <1>1, <1>3, <2>3 DEF Stale, Published
  <2>5. PublishedWhole'
    BY <1>1, <2>1, <2>2, <2>3, <2>4 DEF PublishedWhole
  <2>6. Publishing'
    BY <2>1 DEF Publishing, Running
  <2>7. QED
    BY <2>5, <2>6 DEF Shown
<1>4. QED
  BY <1>2, <1>3

LEMMA ShownArchive ==
    ASSUME Shape, Shown, Archive
    PROVE  Shown'
<1>1. /\ Running /\ cmd.kind = "distribute" /\ cmd.pc = "archive" /\ UNCHANGED setup
      /\ (Exits("zero") \/ Exits("one"))
  BY DEF Archive, At
<1>2. setup[P].distribution # "page"
  BY <1>1 DEF Shown, Publishing
<1>3. cmd'.profile = cmd.profile /\ cmd'.exit # "running"
  BY <1>1, CommandExits
<1>4. QED
  BY <1>1, <1>2, <1>3 DEF Shown, Publishing, PublishedWhole, Running, P

LEMMA ShownNext ==
    ASSUME Shape, Shown, [PackNext]_packVars
    PROVE  Shown'
<1>1. ASSUME NEW p \in Profiles, NEW i \in DOMAIN cloud[p].builds, BuildBegins(p, i) \/ BuildEnds(p, i)
      PROVE  Shown'
  BY <1>1, ShownKept DEF BuildBegins, BuildEnds
<1>2. CASE EditSource \/ UNCHANGED packVars
  BY <1>2, ShownKept DEF EditSource, packVars
<1>3. QED
  BY <1>1, <1>2, ShownStarts, ShownDistributeStart, ShownOther, ShownFetchWindows, ShownDetect, ShownUploadPack,
     ShownSweepStale, ShownPublishEnds, ShownArchive DEF PackNext

LEMMA ShownInit ==
    ASSUME PackInit
    PROVE  Shape /\ Shown
BY ShapeInit DEF PackInit, Asleep, Shown, Publishing, PublishedWhole

(* A "distribute" to the landing page that succeeds leaves on it exactly   *)
(* what its package has, unless the deletion of a stale one failed.        *)
THEOREM PackPublishesWhole == PackSpec => []PublishedWhole
<1>1. PackInit => Shape /\ Shown
  BY ShownInit
<1>2. Shape /\ Shown /\ [PackNext]_packVars => (Shape /\ Shown)'
  BY ShapeNext, ShownNext
<1>3. Shape /\ Shown => PublishedWhole
  BY DEF Shown
<1>4. QED
  BY <1>1, <1>2, <1>3, PTL DEF PackSpec

-----------------------------------------------------------------------------
(* What the landing page never loses.                                      *)

LEMMA PageUntouched ==
    ASSUME [PackNext]_packVars
    PROVE  UNCHANGED page \/ \E f \in Packs : UploadPack(f) \/ SweepStale(f)
<1>1. ASSUME NEW p \in Profiles,
             \/ \E remote \in BOOLEAN, targets \in Requests : PackageStart(p, remote, targets)
             \/ \E targets \in Requests : GoBuildBreaks(p, targets)
             \/ \E targets \in Requests : PackageCbStart(p, targets \cap CODEBUILD_PLATFORMS)
             \/ Regenerate(p) \/ BuildsCheck(p)
             \/ \E i \in DOMAIN dist : DistributeStart(p, i)
             \/ \E i \in DOMAIN cloud[p].builds : BuildBegins(p, i) \/ BuildEnds(p, i)
      PROVE  UNCHANGED page
  BY <1>1 DEF PackageStart, GoBuildBreaks, PackageCbStart, Regenerate, BuildsCheck, DistributeStart,
     BuildBegins, BuildEnds
<1>2. CreateConfig \/ CreateInstaller \/ CreateWindowsInstaller \/ CreateClaudeSettings \/ PackageEnds
        \/ UploadSource \/ WriteLatest => UNCHANGED page
  BY DEF CreateConfig, CreateInstaller, CreateWindowsInstaller, CreateClaudeSettings, PackageEnds, UploadSource,
     WriteLatest
<1>3. ASSUME NEW f \in Packs, StartBuild(f) \/ FetchArtifact(f)
      PROVE  UNCHANGED page
  BY <1>3 DEF StartBuild, FetchArtifact
<1>4. FetchWindows \/ Detect \/ PublishEnds \/ Archive \/ Interrupt \/ EditSource
        => UNCHANGED page
  BY DEF FetchWindows, Detect, PublishEnds, Archive, Interrupt, EditSource
<1>5. UNCHANGED packVars => UNCHANGED page
  BY DEF packVars
<1>6. QED
  BY <1>1, <1>2, <1>3, <1>4, <1>5 DEF PackNext

LEMMA UploadServes ==
    ASSUME Shape, NEW f \in Packs, UploadPack(f), NEW p \in Profiles, NEW g \in Packs, page[p][g] # <<>>
    PROVE  page'[p][g] # <<>>
<1>1. page \in [Profiles -> [Packs -> Seq([Platforms -> Bin])]]
  BY DEF Shape, PackTypeOK
<1>2. <<Content(f)>> # <<>>
  OBVIOUS
<1> DEFINE held == <<Content(f)>>
<1>3. page' = [page EXCEPT ![P][f] = held] \/ UNCHANGED page
  BY DEF UploadPack
<1>4. held # <<>>
  BY <1>2
<1> HIDE DEF held
<1>5. QED
  BY <1>1, <1>3, <1>4

LEMMA SweepServes ==
    ASSUME Shape, Shown, NEW f \in Packs, SweepStale(f), NEW p \in Profiles, NEW g \in Packs,
           page[p][g] # <<>>, page'[p][g] = <<>>
    PROVE  /\ p = P /\ g \notin Available \cup {"all-platforms"}
           /\ \E h \in Packs : page[p][h] = <<Content(h)>>
<1>1. /\ Running /\ cmd.kind = "distribute" /\ cmd.pc = "sweep" /\ f \in Stale /\ cmd.done # {}
      /\ page' = [page EXCEPT ![P][f] = <<>>] \/ UNCHANGED page
  BY DEF SweepStale, At, First
<1>2. /\ cmd.targets = Available \cup {"all-platforms"}
      /\ \A h \in cmd.done : page[P][h] = <<Content(h)>>
  BY <1>1 DEF Shown, Publishing
<1>3. page \in [Profiles -> [Packs -> Seq([Platforms -> Bin])]] /\ cmd.done \subseteq Packs
  BY DEF Shape, PackTypeOK, Command
<1>4. p = P /\ g = f
  BY <1>1, <1>3
<1>5. g \notin Available \cup {"all-platforms"}
  BY <1>1, <1>2, <1>4 DEF Stale
<1>6. PICK h \in cmd.done : page[P][h] = <<Content(h)>>
  BY <1>1, <1>2
<1>7. QED
  BY <1>3, <1>4, <1>5, <1>6

(* The landing page never stops serving a platform the package being       *)
(* published has, and another one only when something of this package is   *)
(* served: deletions come after an upload that succeeded, and spare what   *)
(* the package has.                                                        *)
THEOREM PackKeepsServing == PackSpec => PageKeepsServing
<1>1. PackInit => Shape /\ Shown
  BY ShownInit
<1>2. Shape /\ Shown /\ [PackNext]_packVars => (Shape /\ Shown)'
  BY ShapeNext, ShownNext
<1>3. Shape /\ Shown /\ [PackNext]_packVars =>
         [\A p \in Profiles, f \in Packs :
             page[p][f] # <<>> /\ page'[p][f] = <<>> =>
                 /\ p = P /\ f \notin Available \cup {"all-platforms"}
                 /\ \E g \in Packs : page[p][g] = <<Content(g)>>]_packVars
  <2> SUFFICES ASSUME Shape, Shown, [PackNext]_packVars,
                      NEW p \in Profiles, NEW f \in Packs, page[p][f] # <<>>, page'[p][f] = <<>>
               PROVE  /\ p = P /\ f \notin Available \cup {"all-platforms"}
                      /\ \E g \in Packs : page[p][g] = <<Content(g)>>
    OBVIOUS
  <2>1. PICK g \in Packs : SweepStale(g)
    BY PageUntouched, UploadServes
  <2>2. QED
    BY <2>1, SweepServes
<1>4. QED
  BY <1>1, <1>2, <1>3, PTL DEF PackSpec, PageKeepsServing

=============================================================================
