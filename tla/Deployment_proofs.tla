-------------------------- MODULE Deployment_proofs --------------------------
(***************************************************************************)
(* Theorems about Deployment, for any profiles, any number of commands and *)
(* any trouble.  They rest on one invariant: which waves are still to come *)
(* and what the threads of the wave in hand do says what CloudFormation    *)
(* has of the stacks whose waves are over.                                 *)
(***************************************************************************)
EXTENDS Deployment, SequenceTheorems, TLAPS

USE DEF saved, work, Plan, Control

Full(kind) == command.kind = kind /\ command.only = "all"
Ends == Shown \cup {"save"}

(* The waves of a command, "only" about one stack or about all.            *)
Fit(kind, only, w) ==
    /\ w.act \in Ends => w.stacks = {}
    /\ kind = "deploy" => w.act \in {"sweep", "deploy"} \cup Ends
    /\ kind = "destroy" => w.act \in {"destroy", "prior"}
    /\ w.act = "sweep" => w.stacks \cap Selected(profile) = {}
    /\ kind = "deploy" /\ only = "all" /\ w.act = "deploy" => w.stacks \subseteq Selected(profile)

(* No stack comes before one it depends on.                                *)
InOrder(t) ==
    \A i, j \in 1 .. Len(t) : i <= j /\ t[i].act = "deploy" =>
        \A s \in t[i].stacks : \A d \in DependsOn(s) \cap Selected(profile) : d \notin t[j].stacks

OneEach(t) == \A i \in 1 .. Len(t) : t[i].act = "deploy" => \A r, s \in t[i].stacks : r = s

CollectorShown(t) == \E i \in 1 .. Len(t) : t[i].act = "collector"

(* The outputs come after all stacks, the collector's among them.          *)
OutputsAtEnd(t) ==
    /\ t # <<>> => t[Len(t)].act \in Ends
    /\ \A i, j \in 1 .. Len(t) : i <= j /\ t[i].act \in Ends => t[j].act \in Ends
    /\ \A i \in 1 .. Len(t) : t[i].act \notin Ends => CollectorShown(t)

PlanFits(kind, only, parallel, t) ==
    /\ \A i \in 1 .. Len(t) : Fit(kind, only, t[i])
    /\ \A i \in 2 .. Len(t) : t[i].act # "save"
    /\ kind = "deploy" => OutputsAtEnd(t)
    /\ kind = "deploy" /\ ~parallel => OneEach(t)
    /\ kind = "deploy" /\ only = "all" => InOrder(t)

Planned ==
    /\ Running <=> todo # <<>>
    /\ Running => command.kind # "none"
    /\ PlanFits(command.kind, command.only, command.parallel, todo)

(* What a thread does fits the wave in hand and the state of its stack.    *)
Active == {"clearing", "waiting", "save", "write"}
InHand(s) ==
    step[s] \in Active =>
        /\ todo # <<>> /\ s \in todo[1].stacks
        /\ step[s] = "waiting" =>
              cloud[s] \in IF todo[1].act = "deploy" THEN {"creating", "updating"} ELSE {"deleting"}
        /\ step[s] = "clearing" => todo[1].act = "deploy" /\ cloud[s] = "deleting"
        /\ step[s] \in {"save", "write"} =>
              todo[1].act = "deploy" /\ s \in {"monitoring", "websearch"} /\ cloud[s] = "complete"

(* What a thread that succeeded has left; where there are no Windows       *)
(* containers, a builder succeeds with nothing.                            *)
Done(s) ==
    step[s] = "ok" =>
        /\ command.kind = "deploy" /\ s \in Selected(profile) \ Builders => cloud[s] = "complete"
        /\ command.kind = "destroy" => cloud[s] = "absent"

Threads == \A s \in Stacks : InHand(s) /\ Done(s)

Among(t, act, s) == \E i \in 1 .. Len(t) : t[i].act = act /\ s \in t[i].stacks
ToCome(act, s) == Among(todo, act, s)

(* The stacks a full deploy cannot succeed without.                        *)
Needed == Selected(profile) \ ({"websearch"} \cup Builders)

(* What the waves that are over have left, of a command that goes on or    *)
(* has succeeded.                                                          *)
Going == command.exit \in {"running", "zero"}
DeployedSoFar ==
    Full("deploy") /\ Going => \A s \in Needed : cloud[s] = "complete" \/ ToCome("deploy", s)
DestroyedSoFar ==
    Full("destroy") /\ Going =>
        \A s \in Covered(profile) : cloud[s] = "absent" \/ failures # {} \/ ToCome("destroy", s)
Reported == command.kind = "destroy" /\ command.exit = "zero" => failures = {}

(* Without a collector one thread writes the profile's file, and leaves it *)
(* whole unless its save fails.                                            *)
Saving == todo # <<>> /\ todo[1].act = "save"
FileSoFar ==
    Full("deploy") /\ ~Central(profile) /\ "early" \notin missed =>
        /\ Going => file.whole \/ step["websearch"] = "write" \/ Saving
        /\ step["websearch"] = "write" => ~file.whole

(* The collector's address is in the file, or about to be written to it.   *)
AddressSafe ==
    /\ mem.endpoint = "current"
    /\ IF step["websearch"] = "write"
       THEN ~file.whole /\ held["websearch"].endpoint = "current"
       ELSE Saving \/ (file.whole /\ file.at.endpoint = "current")

(* One stack after the other, the first save is enough.                    *)
EarlySoFar ==
    Full("deploy") /\ Central(profile) /\ Going /\ ~command.parallel /\ "early" \notin missed =>
        /\ step["monitoring"] = "write" =>
              ~file.whole /\ mem.endpoint = "current" /\ held["monitoring"].endpoint = "current"
        /\ step["monitoring"] = "ok" \/ ~ToCome("deploy", "monitoring") => AddressSafe

(* So is the second one, when all stacks are done.                         *)
LateSoFar ==
    Full("deploy") /\ Central(profile) /\ Going /\ "late" \notin missed =>
        CollectorShown(todo) \/ AddressSafe

DeployInv ==
    /\ TypeOK /\ Planned /\ Threads
    /\ DeployedSoFar /\ DestroyedSoFar /\ Reported
    /\ FileSoFar /\ EarlySoFar /\ LateSoFar
-----------------------------------------------------------------------------
(* Facts about the sequence of waves.                                      *)

LEMMA WaveInHand ==
    ASSUME todo \in Seq(Wave), todo # <<>>
    PROVE  /\ Len(todo) \in Nat \ {0} /\ Head(todo) = todo[1]
           /\ todo[1] \in Wave /\ todo[1].stacks \subseteq Stacks
           /\ Tail(todo) \in Seq(Wave) /\ Len(Tail(todo)) = Len(todo) - 1
           /\ \A i \in 1 .. Len(todo) - 1 : Tail(todo)[i] = todo[i + 1]
           /\ Tail(todo) = <<>> <=> Len(todo) = 1
<1>1. Len(todo) \in Nat \ {0}
  BY EmptySeq
<1>2. Head(todo) = todo[1]
  BY <1>1
<1>3. todo[1] \in Wave
  BY <1>1, ElementOfSeq
<1>4. /\ Tail(todo) \in Seq(Wave) /\ Len(Tail(todo)) = Len(todo) - 1
      /\ \A i \in 1 .. Len(todo) - 1 : Tail(todo)[i] = todo[i + 1]
  BY HeadTailProperties
<1>5. Tail(todo) = <<>> <=> Len(Tail(todo)) = 0
  BY <1>4, EmptySeq
<1>6. QED
  BY <1>1, <1>2, <1>3, <1>4, <1>5 DEF Wave

LEMMA NoWaves == <<>> \in Seq(Wave) /\ Len(<<>>) = 0
BY EmptySeq

LEMMA WaveSequence ==
    ASSUME NEW n \in Nat, NEW f \in [1 .. n -> Wave]
    PROVE  f \in Seq(Wave) /\ Len(f) = n
OBVIOUS

LEMMA OneWave ==
    ASSUME NEW w \in Wave
    PROVE  <<w>> \in Seq(Wave) /\ Len(<<w>>) = 1 /\ <<w>>[1] = w
OBVIOUS

LEMMA Concatenated ==
    ASSUME NEW a \in Seq(Wave), NEW b \in Seq(Wave)
    PROVE  /\ a \o b \in Seq(Wave) /\ Len(a) \in Nat /\ Len(b) \in Nat
           /\ Len(a \o b) = Len(a) + Len(b)
           /\ \A i \in 1 .. Len(a) : i \in 1 .. Len(a \o b) /\ (a \o b)[i] = a[i]
           /\ \A i \in 1 .. Len(b) :
                 Len(a) + i \in 1 .. Len(a \o b) /\ (a \o b)[Len(a) + i] = b[i]
           /\ \A i \in 1 .. Len(a \o b) :
                 \/ i \in 1 .. Len(a) /\ (a \o b)[i] = a[i]
                 \/ i > Len(a) /\ i - Len(a) \in 1 .. Len(b) /\ (a \o b)[i] = b[i - Len(a)]
<1> DEFINE c == a \o b
<1>1. Len(a) \in Nat /\ Len(b) \in Nat
  BY LenProperties
<1>2. /\ c \in Seq(Wave) /\ Len(c) = Len(a) + Len(b)
      /\ \A i \in 1 .. Len(a) + Len(b) : c[i] = IF i <= Len(a) THEN a[i] ELSE b[i - Len(a)]
  BY ConcatProperties
<1> HIDE DEF c
<1>3. \A i \in 1 .. Len(a) : i \in 1 .. Len(c) /\ c[i] = a[i]
  BY <1>1, <1>2
<1>4. \A i \in 1 .. Len(b) : Len(a) + i \in 1 .. Len(c) /\ c[Len(a) + i] = b[i]
  <2> SUFFICES ASSUME NEW i \in 1 .. Len(b)
               PROVE  Len(a) + i \in 1 .. Len(c) /\ c[Len(a) + i] = b[i]
    OBVIOUS
  <2>1. Len(a) + i \in 1 .. Len(a) + Len(b) /\ ~(Len(a) + i <= Len(a)) /\ (Len(a) + i) - Len(a) = i
    BY <1>1
  <2>2. QED
    BY <1>2, <2>1
<1>5. \A i \in 1 .. Len(c) :
          \/ i \in 1 .. Len(a) /\ c[i] = a[i]
          \/ i > Len(a) /\ i - Len(a) \in 1 .. Len(b) /\ c[i] = b[i - Len(a)]
  BY <1>1, <1>2
<1>6. QED
  BY <1>1, <1>2, <1>3, <1>4, <1>5 DEF c

LEMMA DependsOnStacks == \A s \in Stacks : DependsOn(s) \subseteq Stacks
BY DEF DependsOn, Stacks, Builders

LEMMA SelectedStacks == \A c : Selected(c) \subseteq Stacks
BY DEF Selected

LEMMA CollectorWanted ==
    /\ "monitoring" \in Stacks
    /\ Central(profile) <=> "monitoring" \in Selected(profile)
    /\ Central(profile) <=> "monitoring" \in Needed
BY DEF Selected, Needed, Stacks, Builders, Central

(* One stack after the other, in the order given.                          *)
LEMMA OneByOneWaves ==
    ASSUME NEW act \in {"sweep", "deploy", "destroy", "prior"},
           NEW order \in Seq(Stacks), NEW set \in SUBSET Stacks
    PROVE  /\ OneByOne(act, order, set) \in Seq(Wave)
           /\ Len(OneByOne(act, order, set)) = Len(order)
           /\ \A i \in 1 .. Len(order) :
                 /\ OneByOne(act, order, set)[i].act = act
                 /\ OneByOne(act, order, set)[i].stacks = {order[i]} \cap set
<1> DEFINE waves == OneByOne(act, order, set)
<1>1. Len(order) \in Nat /\ DOMAIN order = 1 .. Len(order)
  BY LenProperties
<1>2. waves = [i \in 1 .. Len(order) |-> [act |-> act, stacks |-> {order[i]} \cap set]]
  BY <1>1 DEF OneByOne
<1>3. \A i \in 1 .. Len(order) : [act |-> act, stacks |-> {order[i]} \cap set] \in Wave
  BY DEF Wave
<1>4. waves \in [1 .. Len(order) -> Wave]
  BY <1>2, <1>3
<1>5. waves \in Seq(Wave) /\ Len(waves) = Len(order)
  BY <1>1, <1>4
<1>6. QED
  BY <1>2, <1>5

-----------------------------------------------------------------------------
(* The orders and the waves agree with what the stacks depend on.          *)

LEMMA Dependencies ==
    \A s, d : d \in DependsOn(s) <=>
        \/ s \in {"monitoring", "distribution"} /\ d = "networking"
        \/ s = "quota" /\ d = "s3bucket"
        \/ s = "bootstrap" /\ d \in {"s3bucket", "websearch"}
        \/ s \in {"dashboard", "cowork-dashboard", "analytics"} /\ d = "monitoring"
BY DEF DependsOn

LEMMA Orders ==
    /\ CentralOrder \in Seq(Stacks) /\ Len(CentralOrder) = 13
    /\ OtherOrder \in Seq(Stacks) /\ Len(OtherOrder) = 10
    /\ SweepOrder \in Seq(Stacks) /\ DESTROYABLE_STACKS \in Seq(Stacks)
    /\ <<"codebuild-east", "codebuild-west">> \in Seq(Stacks)
BY DEF CentralOrder, OtherOrder, SweepOrder, DESTROYABLE_STACKS, Stacks, Builders

LEMMA CentralInOrder ==
    \A i, j \in 1 .. 13 : i <= j => CentralOrder[j] \notin DependsOn(CentralOrder[i])
BY Dependencies DEF CentralOrder

LEMMA OtherInOrder ==
    \A i, j \in 1 .. 10 : i <= j => OtherOrder[j] \notin DependsOn(OtherOrder[i])
BY Dependencies DEF OtherOrder

LEMMA WavesInOrder ==
    \A i, j \in 1 .. 3 : i <= j =>
        \A s \in DEPLOY_WAVES[i] : DEPLOY_WAVES[j] \cap DependsOn(s) = {}
BY Dependencies DEF DEPLOY_WAVES, Builders

-----------------------------------------------------------------------------
(* The plans of the commands.                                              *)

LEMMA Outputs ==
    /\ ShowOutputs \in Seq(Wave) /\ Len(ShowOutputs) = 3
    /\ \A i \in 1 .. 3 : ShowOutputs[i].act \in Shown /\ ShowOutputs[i].stacks = {}
    /\ ShowOutputs[2].act = "collector"
BY DEF ShowOutputs, Wave, Shown

LEMMA OutputsLast ==
    ASSUME NEW a \in Seq(Wave), \A i \in 1 .. Len(a) : a[i].act \notin Ends
    PROVE  LET t == a \o ShowOutputs
           IN /\ t \in Seq(Wave) /\ t # <<>> /\ Len(a) \in Nat /\ Len(t) = Len(a) + 3
              /\ \A i \in 1 .. Len(a) : i \in 1 .. Len(t) /\ t[i] = a[i]
              /\ \A i \in 1 .. Len(t) :
                    \/ i \in 1 .. Len(a) /\ t[i] = a[i]
                    \/ i > Len(a) /\ t[i].act \in Shown /\ t[i].stacks = {}
              /\ OutputsAtEnd(t)
<1> DEFINE last == ShowOutputs
           t == a \o last
<1>1. last \in Seq(Wave)
  BY Outputs
<1> HIDE DEF last
<1>2. /\ t \in Seq(Wave) /\ Len(a) \in Nat /\ Len(t) = Len(a) + Len(last)
      /\ \A i \in 1 .. Len(a) : i \in 1 .. Len(t) /\ t[i] = a[i]
      /\ \A i \in 1 .. Len(last) : Len(a) + i \in 1 .. Len(t) /\ t[Len(a) + i] = last[i]
      /\ \A i \in 1 .. Len(t) :
            \/ i \in 1 .. Len(a) /\ t[i] = a[i]
            \/ i > Len(a) /\ i - Len(a) \in 1 .. Len(last) /\ t[i] = last[i - Len(a)]
  BY <1>1, Concatenated
<1> HIDE DEF t
<1>3. /\ Len(last) = 3 /\ last[2].act = "collector"
      /\ \A i \in 1 .. 3 : last[i].act \in Shown /\ last[i].stacks = {}
  BY Outputs DEF last
<1>4. \A i \in 1 .. Len(t) :
          \/ i \in 1 .. Len(a) /\ t[i] = a[i]
          \/ i > Len(a) /\ t[i].act \in Shown /\ t[i].stacks = {}
  BY <1>2, <1>3
<1>5. t # <<>>
  BY <1>2, <1>3, EmptySeq
<1>6. OutputsAtEnd(t)
  <2>1. CollectorShown(t)
    BY <1>2, <1>3 DEF CollectorShown
  <2>2. t[Len(t)].act \in Ends
    <3>1. Len(t) \in 1 .. Len(t) /\ ~(Len(t) \in 1 .. Len(a))
      BY <1>2, <1>3
    <3>2. QED
      BY <1>4, <3>1 DEF Ends
  <2>3. ASSUME NEW i \in 1 .. Len(t), NEW j \in 1 .. Len(t), i <= j, t[i].act \in Ends
        PROVE  t[j].act \in Ends
    <3>1. i > Len(a)
      BY <1>2, <1>4, <2>3
    <3>2. ~(j \in 1 .. Len(a))
      BY <1>2, <2>3, <3>1
    <3>3. QED
      BY <1>4, <3>2 DEF Ends
  <2>4. QED
    BY <2>1, <2>2, <2>3 DEF OutputsAtEnd
<1>7. QED
  BY <1>2, <1>3, <1>4, <1>5, <1>6 DEF t, last

(* The deploying part of a full deploy, in either way.                     *)
DeployPart(t) ==
    /\ t \in Seq(Wave)
    /\ \A i \in 1 .. Len(t) : t[i].act = "deploy" /\ t[i].stacks \subseteq Selected(profile)
    /\ InOrder(t)
    /\ \A s \in Selected(profile) : Among(t, "deploy", s)

LEMMA SequentialPart ==
    ASSUME TypeOK
    PROVE  LET t == OneByOne("deploy", FullOrder, Selected(profile))
           IN DeployPart(t) /\ OneEach(t)
<1> DEFINE t == OneByOne("deploy", FullOrder, Selected(profile))
<1>1. FullOrder \in Seq(Stacks)
  BY Orders DEF FullOrder
<1>2. /\ t \in Seq(Wave) /\ Len(t) = Len(FullOrder)
      /\ \A i \in 1 .. Len(FullOrder) :
            t[i].act = "deploy" /\ t[i].stacks = {FullOrder[i]} \cap Selected(profile)
  BY <1>1, OneByOneWaves, SelectedStacks
<1>3. InOrder(t)
  <2>1. \A i, j \in 1 .. Len(FullOrder) : i <= j => FullOrder[j] \notin DependsOn(FullOrder[i])
    BY Orders, CentralInOrder, OtherInOrder DEF FullOrder
  <2>2. QED
    BY <1>2, <2>1 DEF InOrder
<1>4. \A s \in Selected(profile) : \E i \in 1 .. Len(FullOrder) : FullOrder[i] = s
  <2>1. CASE Central(profile)
    <3>1. FullOrder = CentralOrder /\ Len(FullOrder) = 13
      BY <2>1, Orders DEF FullOrder
    <3>2. \A s \in Stacks : \E i \in 1 .. 13 : CentralOrder[i] = s
      BY DEF CentralOrder, Stacks, Builders
    <3>3. QED
      BY <3>1, <3>2, SelectedStacks
  <2>2. CASE ~Central(profile)
    <3>1. FullOrder = OtherOrder /\ Len(FullOrder) = 10
      BY <2>2, Orders DEF FullOrder
    <3>2. Selected(profile) \cap {"monitoring", "cowork-dashboard", "analytics"} = {}
      BY <2>2 DEF Selected, Builders, CodeBuildIn
    <3>3. \A s \in Stacks \ {"monitoring", "cowork-dashboard", "analytics"} :
              \E i \in 1 .. 10 : OtherOrder[i] = s
      BY DEF OtherOrder, Stacks, Builders
    <3>4. QED
      BY <3>1, <3>2, <3>3, SelectedStacks
  <2>3. QED
    BY <2>1, <2>2
<1>5. \A s \in Selected(profile) : Among(t, "deploy", s)
  BY <1>2, <1>4 DEF Among
<1>6. OneEach(t)
  BY <1>2 DEF OneEach
<1>7. QED
  BY <1>2, <1>3, <1>5, <1>6 DEF DeployPart

LEMMA ParallelPart ==
    ASSUME TypeOK
    PROVE  DeployPart(PlanWaves(Selected(profile)))
<1> DEFINE t == PlanWaves(Selected(profile))
<1>1. DOMAIN DEPLOY_WAVES = 1 .. 3
  BY DEF DEPLOY_WAVES
<1>2. t = [i \in 1 .. 3 |-> [act |-> "deploy", stacks |-> DEPLOY_WAVES[i] \cap Selected(profile)]]
  BY <1>1 DEF PlanWaves
<1> HIDE DEF t
<1>3. /\ t \in Seq(Wave) /\ Len(t) = 3
  <2>1. \A i \in 1 .. 3 :
            [act |-> "deploy", stacks |-> DEPLOY_WAVES[i] \cap Selected(profile)] \in Wave
    BY SelectedStacks DEF Wave
  <2>2. t \in [1 .. 3 -> Wave]
    BY <1>2, <2>1
  <2>3. QED
    BY <2>2, WaveSequence
<1>4. \A i \in 1 .. 3 : t[i].act = "deploy" /\ t[i].stacks = DEPLOY_WAVES[i] \cap Selected(profile)
  BY <1>2
<1>5. InOrder(t)
  BY <1>3, <1>4, WavesInOrder DEF InOrder
<1>6. \A s \in Stacks : \E i \in 1 .. 3 : s \in DEPLOY_WAVES[i]
  BY DEF DEPLOY_WAVES, Stacks, Builders
<1>7. \A s \in Selected(profile) : Among(t, "deploy", s)
  BY <1>3, <1>4, <1>6, SelectedStacks DEF Among
<1>8. DeployPart(t)
  BY <1>3, <1>4, <1>5, <1>7 DEF DeployPart
<1>9. QED
  BY <1>8 DEF t

LEMMA DeployAllPlan ==
    ASSUME TypeOK, NEW sweep \in {<<>>, OneByOne("sweep", SweepOrder, Orphans)},
           NEW parallel \in BOOLEAN, NEW part, DeployPart(part), ~parallel => OneEach(part)
    PROVE  LET t == sweep \o part \o ShowOutputs
           IN /\ t \in Seq(Wave) /\ t # <<>>
              /\ PlanFits("deploy", "all", parallel, t) /\ t[1].act # "save" /\ CollectorShown(t)
              /\ \A s \in Selected(profile) : Among(t, "deploy", s)
<1> DEFINE n == Len(sweep)
           a == sweep \o part
           t == a \o ShowOutputs
<1>1. Orphans \in SUBSET Stacks /\ Orphans \cap Selected(profile) = {}
  BY DEF Orphans, Stacks, Builders, CodeBuildIn, TypeOK
<1>2. /\ sweep \in Seq(Wave)
      /\ \A i \in 1 .. n : sweep[i].act = "sweep" /\ sweep[i].stacks \cap Selected(profile) = {}
  <2>1. CASE sweep = <<>>
    BY <2>1, EmptySeq
  <2>2. CASE sweep = OneByOne("sweep", SweepOrder, Orphans)
    BY <1>1, <2>2, Orders, OneByOneWaves, LenProperties
  <2>3. QED
    BY <2>1, <2>2
<1>3. /\ part \in Seq(Wave)
      /\ \A i \in 1 .. Len(part) : part[i].act = "deploy" /\ part[i].stacks \subseteq Selected(profile)
  BY DEF DeployPart
<1>4. /\ a \in Seq(Wave) /\ n \in Nat /\ Len(part) \in Nat /\ Len(a) = n + Len(part)
      /\ \A i \in 1 .. Len(part) : n + i \in 1 .. Len(a) /\ a[n + i] = part[i]
      /\ \A i \in 1 .. Len(a) :
            \/ i \in 1 .. n /\ a[i] = sweep[i]
            \/ i > n /\ i - n \in 1 .. Len(part) /\ a[i] = part[i - n]
  BY <1>2, <1>3, Concatenated
<1> HIDE DEF a, n
<1>5. /\ t \in Seq(Wave) /\ Len(t) = Len(a) + 3 /\ t # <<>>
      /\ \A i \in 1 .. Len(a) : i \in 1 .. Len(t) /\ t[i] = a[i]
      /\ \A i \in 1 .. Len(t) :
            \/ i \in 1 .. Len(a) /\ t[i] = a[i]
            \/ i > Len(a) /\ t[i].act \in Shown /\ t[i].stacks = {}
      /\ OutputsAtEnd(t)
  <2>1. \A i \in 1 .. Len(a) : a[i].act \in {"sweep", "deploy"}
    BY <1>2, <1>3, <1>4
  <2>2. \A i \in 1 .. Len(a) : a[i].act \notin Ends
    BY <2>1 DEF Ends, Shown
  <2>3. QED
    BY <1>4, <2>2, OutputsLast
<1> HIDE DEF t
<1>6. \A i \in 1 .. Len(t) :
          \/ t[i].act = "sweep" /\ t[i].stacks \cap Selected(profile) = {}
          \/ t[i].act = "deploy" /\ i > n /\ i - n \in 1 .. Len(part) /\ t[i] = part[i - n]
          \/ t[i].act \in Shown /\ t[i].stacks = {}
  <2> SUFFICES ASSUME NEW i \in 1 .. Len(t)
               PROVE  \/ t[i].act = "sweep" /\ t[i].stacks \cap Selected(profile) = {}
                      \/ t[i].act = "deploy" /\ i > n /\ i - n \in 1 .. Len(part) /\ t[i] = part[i - n]
                      \/ t[i].act \in Shown /\ t[i].stacks = {}
    OBVIOUS
  <2>1. CASE i \in 1 .. Len(a) /\ t[i] = a[i]
    <3>1. CASE i \in 1 .. n /\ a[i] = sweep[i]
      BY <1>2, <1>4, <2>1, <3>1
    <3>2. CASE i > n /\ i - n \in 1 .. Len(part) /\ a[i] = part[i - n]
      BY <1>3, <2>1, <3>2
    <3>3. QED
      BY <1>4, <2>1, <3>1, <3>2
  <2>2. QED
    BY <1>5, <2>1
<1>7. \A i \in 1 .. Len(t) : t[i].act = "deploy" => i > n /\ i - n \in 1 .. Len(part) /\ t[i] = part[i - n]
  BY <1>6 DEF Shown
<1>8. InOrder(t)
  <2> SUFFICES ASSUME NEW i \in 1 .. Len(t), NEW j \in 1 .. Len(t), i <= j, t[i].act = "deploy",
                      NEW s \in t[i].stacks, NEW d \in DependsOn(s) \cap Selected(profile)
               PROVE  d \notin t[j].stacks
    BY DEF InOrder
  <2>1. i - n \in 1 .. Len(part) /\ t[i] = part[i - n] /\ i > n
    BY <1>7
  <2>2. CASE j - n \in 1 .. Len(part) /\ t[j] = part[j - n]
    <3>1. i - n <= j - n
      BY <1>4, <1>5
    <3>2. QED
      BY <2>1, <2>2, <3>1, <1>3 DEF DeployPart, InOrder
  <2>3. CASE t[j].stacks \cap Selected(profile) = {}
    BY <2>3
  <2>4. QED
    BY <1>6, <2>2, <2>3
<1>9. \A i \in 1 .. Len(t) : Fit("deploy", "all", t[i]) /\ t[i].act # "save"
  <2> SUFFICES ASSUME NEW i \in 1 .. Len(t)
               PROVE  Fit("deploy", "all", t[i]) /\ t[i].act # "save"
    OBVIOUS
  <2>1. CASE t[i].act = "sweep" /\ t[i].stacks \cap Selected(profile) = {}
    BY <2>1 DEF Fit, Ends, Shown
  <2>2. CASE t[i].act = "deploy" /\ i - n \in 1 .. Len(part) /\ t[i] = part[i - n]
    <3>1. t[i].stacks \subseteq Selected(profile)
      BY <1>3, <2>2
    <3>2. QED
      BY <2>2, <3>1 DEF Fit, Ends, Shown
  <2>3. CASE t[i].act \in Shown /\ t[i].stacks = {}
    BY <2>3 DEF Fit, Ends, Shown
  <2>4. QED
    BY <1>6, <2>1, <2>2, <2>3
<1>10. \A s \in Selected(profile) : Among(t, "deploy", s)
  <2> SUFFICES ASSUME NEW s \in Selected(profile) PROVE Among(t, "deploy", s)
    OBVIOUS
  <2>1. PICK i \in 1 .. Len(part) : part[i].act = "deploy" /\ s \in part[i].stacks
    BY DEF DeployPart, Among
  <2>2. n + i \in 1 .. Len(t) /\ t[n + i] = part[i]
    BY <1>4, <1>5
  <2>3. QED
    BY <2>1, <2>2 DEF Among
<1>11. ~parallel => OneEach(t)
  BY <1>7 DEF OneEach
<1>12. 1 \in 1 .. Len(t) /\ 2 .. Len(t) \subseteq 1 .. Len(t)
  BY <1>4, <1>5
<1>13. PlanFits("deploy", "all", parallel, t) /\ t[1].act # "save"
  BY <1>5, <1>8, <1>9, <1>11, <1>12 DEF PlanFits
<1>14. CollectorShown(t)
  <2>1. \A i \in 1 .. Len(ShowOutputs) : Len(a) + i \in 1 .. Len(t) /\ t[Len(a) + i] = ShowOutputs[i]
    BY <1>4, Outputs, Concatenated DEF t
  <2>2. QED
    BY <2>1, Outputs DEF CollectorShown
<1>15. QED
  BY <1>5, <1>10, <1>13, <1>14 DEF t, a

LEMMA DeployOnePlan ==
    ASSUME TypeOK, NEW s \in Stacks
    PROVE  LET t == <<[act |-> "deploy", stacks |-> {s}]>> \o ShowOutputs
           IN t \in Seq(Wave) /\ t # <<>> /\ PlanFits("deploy", s, FALSE, t) /\ t[1].act # "save"
<1> DEFINE w == [act |-> "deploy", stacks |-> {s}]
           one == <<w>>
           t == one \o ShowOutputs
<1>1. w \in Wave /\ w.act = "deploy"
  BY DEF Wave
<1> HIDE DEF w
<1>2. one \in Seq(Wave) /\ Len(one) = 1 /\ one[1] = w
  BY <1>1, OneWave
<1> HIDE DEF one
<1>3. /\ t \in Seq(Wave) /\ t # <<>> /\ Len(t) = 4 /\ OutputsAtEnd(t) /\ t[1] = w
      /\ \A i \in 1 .. Len(t) :
            \/ t[i] = w
            \/ t[i].act \in Shown /\ t[i].stacks = {}
  <2>1. \A i \in 1 .. Len(one) : one[i].act \notin Ends
    BY <1>1, <1>2 DEF Ends, Shown
  <2>2. /\ t \in Seq(Wave) /\ t # <<>> /\ Len(t) = Len(one) + 3 /\ OutputsAtEnd(t)
        /\ \A i \in 1 .. Len(one) : t[i] = one[i]
        /\ \A i \in 1 .. Len(t) :
              \/ i \in 1 .. Len(one) /\ t[i] = one[i]
              \/ i > Len(one) /\ t[i].act \in Shown /\ t[i].stacks = {}
    BY <1>2, <2>1, OutputsLast
  <2> HIDE DEF t
  <2>3. QED
    BY <1>2, <2>2
<1> HIDE DEF t
<1>4. s # "all"
  BY DEF Stacks, Builders
<1>5. w.stacks = {s}
  BY DEF w
<1>6. OneEach(t)
  BY <1>3, <1>5 DEF OneEach
<1>7. \A i \in 1 .. Len(t) : Fit("deploy", s, t[i]) /\ t[i].act # "save"
  BY <1>1, <1>3, <1>4 DEF Fit, Ends, Shown
<1>8. 2 .. Len(t) \subseteq 1 .. Len(t)
  BY <1>3
<1>9. PlanFits("deploy", s, FALSE, t)
  BY <1>3, <1>4, <1>6, <1>7, <1>8 DEF PlanFits
<1>10. QED
  BY <1>1, <1>3, <1>9 DEF t, one, w

LEMMA DestroyPlan ==
    ASSUME TypeOK, NEW only \in Stacks \cup {"all"}
    PROVE  LET t == OneByOne("destroy", IF only = "all" THEN DESTROYABLE_STACKS ELSE <<only>>,
                             Covered(profile))
                        \o OneByOne("prior", <<"codebuild-east", "codebuild-west">>, Abandoned)
           IN /\ t \in Seq(Wave) /\ t # <<>>
              /\ PlanFits("destroy", only, FALSE, t) /\ t[1].act # "save"
              /\ only = "all" => \A s \in Covered(profile) : Among(t, "destroy", s)
<1> DEFINE order == IF only = "all" THEN DESTROYABLE_STACKS ELSE <<only>>
           a == OneByOne("destroy", order, Covered(profile))
           b == OneByOne("prior", <<"codebuild-east", "codebuild-west">>, Abandoned)
           t == a \o b
<1>1. Covered(profile) \in SUBSET Stacks /\ Abandoned \in SUBSET Stacks
  BY DEF Covered, Abandoned, CodeBuildIn, Stacks, Builders, TypeOK
<1>2. order \in Seq(Stacks) /\ Len(order) \in Nat \ {0}
  <2>1. DESTROYABLE_STACKS # <<>>
    BY DEF DESTROYABLE_STACKS
  <2>2. CASE only = "all"
    BY <2>1, <2>2, Orders, EmptySeq
  <2>3. CASE only # "all"
    BY <2>3
  <2>4. QED
    BY <2>2, <2>3
<1>3. only = "all" => \A s \in Stacks : \E i \in 1 .. Len(order) : order[i] = s
  BY DEF DESTROYABLE_STACKS, Stacks, Builders
<1> HIDE DEF order
<1>4. /\ a \in Seq(Wave) /\ Len(a) = Len(order)
      /\ \A i \in 1 .. Len(order) : a[i].act = "destroy" /\ a[i].stacks = {order[i]} \cap Covered(profile)
  BY <1>1, <1>2, OneByOneWaves
<1>5. /\ b \in Seq(Wave)
      /\ \A i \in 1 .. Len(b) : b[i].act = "prior"
  <2> DEFINE builders == <<"codebuild-east", "codebuild-west">>
  <2>1. builders \in Seq(Stacks)
    BY Orders
  <2> HIDE DEF builders
  <2>2. /\ OneByOne("prior", builders, Abandoned) \in Seq(Wave)
        /\ \A i \in 1 .. Len(OneByOne("prior", builders, Abandoned)) :
              OneByOne("prior", builders, Abandoned)[i].act = "prior"
    BY <1>1, <2>1, OneByOneWaves
  <2>3. QED
    BY <2>2 DEF builders
<1> HIDE DEF a, b
<1>6. /\ t \in Seq(Wave) /\ Len(a) \in Nat /\ Len(b) \in Nat /\ Len(t) = Len(a) + Len(b)
      /\ \A i \in 1 .. Len(a) : i \in 1 .. Len(t) /\ t[i] = a[i]
      /\ \A i \in 1 .. Len(t) :
            \/ i \in 1 .. Len(a) /\ t[i] = a[i]
            \/ i - Len(a) \in 1 .. Len(b) /\ t[i] = b[i - Len(a)]
  BY <1>4, <1>5, Concatenated
<1> HIDE DEF t
<1>7. t # <<>>
  BY <1>2, <1>4, <1>6, EmptySeq
<1>8. \A i \in 1 .. Len(t) : t[i].act \in {"destroy", "prior"}
  <2> SUFFICES ASSUME NEW i \in 1 .. Len(t) PROVE t[i].act \in {"destroy", "prior"}
    OBVIOUS
  <2>1. CASE i \in 1 .. Len(a) /\ t[i] = a[i]
    BY <1>4, <2>1
  <2>2. CASE i - Len(a) \in 1 .. Len(b) /\ t[i] = b[i - Len(a)]
    BY <1>5, <2>2
  <2>3. QED
    BY <1>6, <2>1, <2>2
<1>9. PlanFits("destroy", only, FALSE, t) /\ t[1].act # "save"
  <2>1. 1 \in 1 .. Len(t) /\ 2 .. Len(t) \subseteq 1 .. Len(t)
    BY <1>2, <1>4, <1>6
  <2>2. QED
    BY <1>8, <2>1 DEF PlanFits, Fit, Ends, Shown
<1>10. only = "all" => \A s \in Covered(profile) : Among(t, "destroy", s)
  <2> SUFFICES ASSUME only = "all", NEW s \in Covered(profile) PROVE Among(t, "destroy", s)
    OBVIOUS
  <2>1. PICK i \in 1 .. Len(order) : order[i] = s
    BY <1>1, <1>3
  <2>2. i \in 1 .. Len(t) /\ t[i] = a[i]
    BY <1>4, <1>6
  <2>3. QED
    BY <1>4, <2>1, <2>2 DEF Among
<1>11. QED
  BY <1>6, <1>7, <1>9, <1>10 DEF t, a, b, order
-----------------------------------------------------------------------------
(* What the invariant says in the moments that matter.                     *)

(* When the outputs are shown, the stacks of a full deploy are complete.   *)
LEMMA AllDeployed ==
    ASSUME DeployInv, Full("deploy"), Going, todo = <<>> \/ todo[1].act \in Ends
    PROVE  /\ \A s \in Needed : cloud[s] = "complete"
           /\ \A s : ~ToCome("deploy", s)
<1>1. \A s : ~ToCome("deploy", s)
  <2>1. CASE todo = <<>>
    BY <2>1, EmptySeq DEF ToCome, Among
  <2>2. CASE todo # <<>> /\ todo[1].act \in Ends
    <3>1. 1 \in 1 .. Len(todo)
      BY <2>2, WaveInHand DEF DeployInv, TypeOK
    <3>2. \A i \in 1 .. Len(todo) : todo[i].act \in Ends
      BY <2>2, <3>1 DEF DeployInv, Planned, PlanFits, Full, OutputsAtEnd
    <3>3. QED
      BY <3>2 DEF ToCome, Among, Ends, Shown
  <2>3. QED
    BY <2>1, <2>2
<1>2. QED
  BY <1>1 DEF DeployInv, DeployedSoFar

(* No thread is at work when the wave in hand has no stacks, or there is   *)
(* none.                                                                   *)
LEMMA NobodyAtWork ==
    ASSUME DeployInv, todo = <<>> \/ todo[1].act \in Ends
    PROVE  \A s \in Stacks : step[s] \notin Active
<1>1. todo # <<>> => Fit(command.kind, command.only, todo[1])
  BY WaveInHand DEF DeployInv, TypeOK, Planned, PlanFits
<1>2. QED
  BY <1>1 DEF DeployInv, Threads, InHand, Fit

(* While a stack of a full deploy is in hand, the collector's outputs are  *)
(* still to be shown.                                                      *)
LEMMA ShownLater ==
    ASSUME DeployInv, todo # <<>>, todo[1].act \notin Ends, command.kind = "deploy"
    PROVE  CollectorShown(todo)
<1>1. 1 \in 1 .. Len(todo)
  BY WaveInHand DEF DeployInv, TypeOK
<1>2. QED
  BY <1>1 DEF DeployInv, Planned, PlanFits, OutputsAtEnd

(* A thread works for the wave in hand of a command that goes on.          *)
LEMMA AtWork ==
    ASSUME DeployInv, NEW s \in Stacks, Mine(s) \/ step[s] \in Active
    PROVE  /\ Running /\ todo # <<>> /\ Act = todo[1].act /\ s \in todo[1].stacks
           /\ Act \notin Ends /\ Fit(command.kind, command.only, todo[1])
           /\ 1 \in 1 .. Len(todo)
           /\ command.kind = "deploy" => CollectorShown(todo)
<1>1. todo # <<>> /\ Running
  BY DEF DeployInv, Planned, Mine, Threads, InHand
<1>2. Head(todo) = todo[1] /\ Len(todo) \in Nat \ {0}
  BY <1>1, WaveInHand DEF DeployInv, TypeOK
<1>3. s \in todo[1].stacks
  BY <1>2 DEF DeployInv, Mine, Threads, InHand
<1>4. Fit(command.kind, command.only, todo[1])
  BY <1>2 DEF DeployInv, Planned, PlanFits
<1>5. todo[1].act \notin Ends
  BY <1>3, <1>4 DEF Fit
<1>6. QED
  BY <1>1, <1>2, <1>3, <1>4, <1>5, ShownLater DEF Act

-----------------------------------------------------------------------------
(* The commands.                                                           *)

LEMMA InitKeeps == Init => DeployInv
<1> SUFFICES ASSUME Init PROVE DeployInv
  OBVIOUS
<1>1. TypeOK
  BY NoWaves, ProfilesAssumption, DeployBoundsAssumption
  DEF Init, TypeOK, Answers, Enabled, Statuses, Busy, Steps, Idle, Addresses, NoAddresses
<1>2. Planned
  BY NoWaves DEF Init, Planned, PlanFits, Running
<1>3. Threads
  BY DEF Init, Threads, InHand, Done, Idle, Active
<1>4. QED
  BY <1>1, <1>2, <1>3
  DEF Init, DeployInv, DeployedSoFar, DestroyedSoFar, Reported, FileSoFar, EarlySoFar, LateSoFar, Full

LEMMA GiveKeeps ==
    ASSUME DeployInv,
           NEW kind \in {"deploy", "destroy"}, NEW only \in Stacks \cup {"all"},
           NEW parallel \in BOOLEAN, NEW plan \in Seq(Wave), plan # <<>>,
           PlanFits(kind, only, parallel, plan), plan[1].act # "save",
           kind = "deploy" /\ only = "all" =>
               CollectorShown(plan) /\ \A s \in Selected(profile) : Among(plan, "deploy", s),
           kind = "destroy" /\ only = "all" => \A s \in Covered(profile) : Among(plan, "destroy", s),
           Give(kind, only, parallel, plan)
    PROVE  DeployInv'
<1>1. /\ command' = [kind |-> kind, only |-> only, parallel |-> parallel, given |-> command.given + 1,
                     exit |-> "running"]
      /\ command.given < MaxCommands /\ file.whole
      /\ todo' = plan /\ mem' = file.at /\ failures' = {} /\ missed' = {} /\ step' = Idle
      /\ UNCHANGED <<profile, region, prior, file, cloud, held, trouble>>
  BY DEF Give
<1>2. TypeOK'
  BY <1>1, DeployBoundsAssumption DEF DeployInv, TypeOK, Idle, Steps
<1>3. Planned'
  <2>1. PlanFits(kind, only, parallel, plan)'
    BY <1>1 DEF PlanFits, Fit, InOrder, Selected, OutputsAtEnd, CollectorShown, OneEach
  <2>2. QED
    BY <1>1, <2>1 DEF Planned, Running
<1>4. Threads'
  BY <1>1 DEF Threads, InHand, Done, Idle, Active
<1>5. DeployedSoFar' /\ DestroyedSoFar'
  BY <1>1 DEF DeployedSoFar, DestroyedSoFar, Full, ToCome, Among, Needed, Selected, Covered
<1>6. Reported' /\ FileSoFar' /\ EarlySoFar' /\ LateSoFar'
  <2>1. step'["websearch"] = "off" /\ step'["monitoring"] = "off"
    BY <1>1 DEF Idle, Stacks
  <2>2. QED
    BY <1>1, <2>1, CollectorWanted
    DEF Reported, FileSoFar, EarlySoFar, LateSoFar, Full, ToCome, Among, CollectorShown, Central
<1>7. QED
  BY <1>2, <1>3, <1>4, <1>5, <1>6 DEF DeployInv

LEMMA DeployAllKeeps ==
    ASSUME DeployInv, NEW parallel \in BOOLEAN, DeployAll(parallel)
    PROVE  DeployInv'
<1> DEFINE part == IF parallel THEN PlanWaves(Selected(profile))
                               ELSE OneByOne("deploy", FullOrder, Selected(profile))
<1>1. PICK sweep \in {<<>>, OneByOne("sweep", SweepOrder, Orphans)} :
          Give("deploy", "all", parallel, sweep \o part \o ShowOutputs)
  BY DEF DeployAll
<1>2. DeployPart(part) /\ (~parallel => OneEach(part))
  BY SequentialPart, ParallelPart DEF DeployInv
<1> HIDE DEF part
<1> DEFINE t == sweep \o part \o ShowOutputs
<1>3. /\ t \in Seq(Wave) /\ t # <<>> /\ PlanFits("deploy", "all", parallel, t) /\ t[1].act # "save"
      /\ CollectorShown(t)
      /\ \A s \in Selected(profile) : Among(t, "deploy", s)
  BY <1>2, DeployAllPlan DEF DeployInv
<1>4. Give("deploy", "all", parallel, t)
  BY <1>1
<1> HIDE DEF t
<1>5. QED
  BY <1>3, <1>4, GiveKeeps

LEMMA DeployOneKeeps ==
    ASSUME DeployInv, NEW s \in Stacks, DeployOne(s)
    PROVE  DeployInv'
<1> DEFINE t == <<[act |-> "deploy", stacks |-> {s}]>> \o ShowOutputs
<1>1. Give("deploy", s, FALSE, t)
  BY DEF DeployOne
<1>2. t \in Seq(Wave) /\ t # <<>> /\ PlanFits("deploy", s, FALSE, t) /\ t[1].act # "save"
  BY DeployOnePlan DEF DeployInv
<1>3. s # "all"
  BY DEF Stacks, Builders
<1> HIDE DEF t
<1>4. QED
  BY <1>1, <1>2, <1>3, GiveKeeps

LEMMA DestroyKeeps ==
    ASSUME DeployInv, NEW only \in Stacks \cup {"all"}, Destroy(only)
    PROVE  DeployInv'
<1> DEFINE t == OneByOne("destroy", IF only = "all" THEN DESTROYABLE_STACKS ELSE <<only>>,
                         Covered(profile))
                    \o OneByOne("prior", <<"codebuild-east", "codebuild-west">>, Abandoned)
<1>1. Give("destroy", only, FALSE, t)
  BY DEF Destroy
<1>2. /\ t \in Seq(Wave) /\ t # <<>> /\ PlanFits("destroy", only, FALSE, t) /\ t[1].act # "save"
      /\ only = "all" => \A s \in Covered(profile) : Among(t, "destroy", s)
  BY DestroyPlan DEF DeployInv
<1> HIDE DEF t
<1>3. QED
  BY <1>1, <1>2, GiveKeeps

LEMMA ReconfigureKeeps ==
    ASSUME DeployInv, NEW c \in Profiles, Reconfigure(c)
    PROVE  DeployInv'
<1>1. /\ ~Running /\ profile' = c
      /\ command' = [command EXCEPT !.kind = "none", !.exit = "none"]
      /\ UNCHANGED <<cloud, todo, step, mem, held, failures, missed, trouble>>
  BY DEF Reconfigure
<1>2. TypeOK'
  <2>1. c.builds \in {"no", "skip", "east", "west"}
    BY ProfilesAssumption DEF Answers
  <2>2. region' \in {"none", "east", "west"}
    BY <2>1 DEF Reconfigure, RegionAfter, DeployInv, TypeOK
  <2>3. prior' \subseteq {"east", "west"}
    BY DEF Reconfigure, DeployInv, TypeOK
  <2>4. file' \in [whole: BOOLEAN, at: Addresses]
    BY DEF Reconfigure, DeployInv, TypeOK, Addresses, NoAddresses
  <2>5. QED
    BY <1>1, <2>2, <2>3, <2>4 DEF DeployInv, TypeOK
<1>3. /\ command'.kind = "none" /\ command'.exit = "none" /\ todo' = <<>>
  BY <1>1 DEF DeployInv, TypeOK, Planned
<1>4. Planned'
  BY <1>3, NoWaves DEF Planned, PlanFits, Running
<1>5. Threads'
  BY <1>1, <1>3, NobodyAtWork DEF Threads, InHand, Done
<1>6. QED
  BY <1>2, <1>3, <1>4, <1>5
  DEF DeployInv, DeployedSoFar, DestroyedSoFar, Reported, FileSoFar, EarlySoFar, LateSoFar, Full

-----------------------------------------------------------------------------
(* The threads of the wave in hand.                                        *)

(* What every step of a thread leaves alone, and what is left to show.     *)
LEMMA ThreadKeeps ==
    ASSUME DeployInv, NEW s \in Stacks, Mine(s) \/ step[s] \in Active,
           UNCHANGED <<profile, region, prior, Plan>>, TypeOK',
           \A r \in Stacks \ {s} : cloud'[r] = cloud[r] /\ step'[r] = step[r],
           InHand(s)', Done(s)', FileSoFar', EarlySoFar',
           command.kind = "destroy" /\ cloud[s] = "absent" => cloud'[s] = "absent"
    PROVE  DeployInv'
<1>1. /\ Running /\ todo # <<>> /\ s \in todo[1].stacks /\ todo[1].act \notin Ends
      /\ Fit(command.kind, command.only, todo[1]) /\ 1 \in 1 .. Len(todo)
      /\ command.kind = "deploy" => CollectorShown(todo)
  BY AtWork
<1>2. Planned'
  BY DEF DeployInv, Planned, Running, PlanFits, Fit, InOrder, Selected, OutputsAtEnd, CollectorShown, OneEach
<1>3. Threads'
  BY DEF DeployInv, Threads, InHand, Done, Selected
<1>4. DeployedSoFar'
  <2> SUFFICES ASSUME Full("deploy"), NEW r \in Needed
               PROVE  cloud'[r] = "complete" \/ ToCome("deploy", r)
    BY DEF DeployedSoFar, Full, Needed, Selected, ToCome, Among
  <2>0. r \in Selected(profile)
    BY DEF Needed
  <2>1. cloud[r] = "complete" \/ ToCome("deploy", r)
    BY <1>1 DEF DeployInv, DeployedSoFar, Going, Running
  <2>2. CASE r # s
    BY <2>0, <2>1, <2>2, SelectedStacks
  <2>3. CASE r = s
    <3>1. todo[1].act = "deploy"
      BY <1>1, <2>0, <2>3 DEF Fit, Full
    <3>2. QED
      BY <1>1, <2>3, <3>1 DEF ToCome, Among
  <2>4. QED
    BY <2>2, <2>3
<1>5. DestroyedSoFar'
  <2> SUFFICES ASSUME Full("destroy"), NEW r \in Covered(profile)
               PROVE  cloud'[r] = "absent" \/ failures # {} \/ ToCome("destroy", r)
    BY DEF DestroyedSoFar, Full, Covered, ToCome, Among
  <2>1. cloud[r] = "absent" \/ failures # {} \/ ToCome("destroy", r)
    BY <1>1 DEF DeployInv, DestroyedSoFar, Going, Running
  <2>2. QED
    BY <2>1 DEF Covered, Full
<1>6. Reported' /\ LateSoFar'
  BY <1>1 DEF Reported, LateSoFar, CollectorShown, Running, Full
<1>7. QED
  BY <1>2, <1>3, <1>4, <1>5, <1>6 DEF DeployInv

(* A thread that does not write the profile does not change what is said   *)
(* of the profile's file.                                                  *)
LEMMA FileKept ==
    ASSUME DeployInv, NEW s \in Stacks, step[s] # "write",
           UNCHANGED <<profile, Plan, held>>, missed \subseteq missed', file'.whole = file.whole,
           step'[s] # "write", \A r \in Stacks \ {s} : step'[r] = step[r],
           Full("deploy") /\ Central(profile) =>
               /\ s = "monitoring" => step'[s] # "ok" \/ "early" \in missed'
               /\ file'.at.endpoint = file.at.endpoint /\ mem'.endpoint = mem.endpoint
    PROVE  FileSoFar' /\ EarlySoFar'
<1>1. /\ step'["websearch"] = "write" <=> step["websearch"] = "write"
      /\ step'["monitoring"] = "write" <=> step["monitoring"] = "write"
      /\ s # "monitoring" => step'["monitoring"] = step["monitoring"]
  BY DEF Stacks
<1>2. FileSoFar'
  BY <1>1 DEF DeployInv, FileSoFar, Full, Going, Saving, Central
<1>3. EarlySoFar'
  <2> SUFFICES ASSUME Full("deploy"), Central(profile), Going, ~command.parallel, "early" \notin missed'
               PROVE  /\ step'["monitoring"] = "write" =>
                             /\ ~file'.whole /\ mem'.endpoint = "current"
                             /\ held["monitoring"].endpoint = "current"
                      /\ step'["monitoring"] = "ok" \/ ~ToCome("deploy", "monitoring") => AddressSafe'
    BY DEF EarlySoFar, Full, Central, Going, ToCome, Among
  <2>1. step'["monitoring"] = "ok" => step["monitoring"] = "ok"
    BY <1>1
  <2>2. AddressSafe => AddressSafe'
    BY <1>1 DEF AddressSafe, Saving
  <2>3. QED
    BY <1>1, <2>1, <2>2 DEF DeployInv, EarlySoFar
<1>4. QED
  BY <1>2, <1>3

LEMMA StartDeployKeeps ==
    ASSUME DeployInv, NEW s \in Stacks, StartDeploy(s)
    PROVE  DeployInv'
<1>1. /\ Mine(s) /\ Act = "deploy" /\ step[s] = "off"
      /\ UNCHANGED <<profile, region, prior, file, Control, mem, held, trouble>>
  BY DEF StartDeploy, NoTrouble
<1>2. cloud \in [Stacks -> Statuses] /\ step \in [Stacks -> Steps]
  BY DEF DeployInv, TypeOK
<1>3. /\ todo # <<>> /\ Act = todo[1].act /\ s \in todo[1].stacks
      /\ Fit(command.kind, command.only, todo[1])
  BY <1>1, AtWork
<1>4. /\ \A r \in Stacks \ {s} : cloud'[r] = cloud[r] /\ step'[r] = step[r]
      /\ cloud' \in [Stacks -> Statuses] /\ step' \in [Stacks -> Steps]
      /\ \/ step'[s] = "failed"
         \/ step'[s] = "clearing" /\ cloud'[s] = "deleting"
         \/ step'[s] = "waiting" /\ cloud'[s] \in {"creating", "updating"}
         \/ /\ step'[s] = IF s \in {"monitoring", "websearch"} THEN "save" ELSE "ok"
            /\ cloud'[s] = "complete"
         \/ step'[s] = "ok" /\ s \in Builders
  BY <1>2 DEF StartDeploy, Goes, Becomes, Deployed, Statuses, Busy, Steps
<1>5. TypeOK'
  BY <1>1, <1>4 DEF DeployInv, TypeOK
<1>6. InHand(s)'
  BY <1>1, <1>3, <1>4 DEF InHand, Active
<1>7. command.kind # "destroy"
  BY <1>1, <1>3 DEF Fit
<1>8. Done(s)'
  BY <1>1, <1>4, <1>7 DEF Done, Selected
<1>9. FileSoFar' /\ EarlySoFar'
  <2>1. step'[s] # "write" /\ (s = "monitoring" => step'[s] # "ok")
    BY <1>4 DEF Builders
  <2>2. QED
    BY <1>1, <1>4, <2>1, FileKept
<1>10. QED
  BY <1>1, <1>4, <1>5, <1>6, <1>7, <1>8, <1>9, ThreadKeeps

(* A thread gives up: its step is over, and its stack stays what it is.    *)
LEMMA GivesUpKeeps ==
    ASSUME DeployInv, NEW s \in Stacks, Mine(s) \/ step[s] \in Active, step[s] # "write",
           Goes(s, "failed"), cloud' \in [Stacks -> Statuses],
           \A r \in Stacks \ {s} : cloud'[r] = cloud[r],
           cloud[s] = "absent" => cloud'[s] = "absent",
           trouble' \in 0 .. MaxTrouble, UNCHANGED <<saved, Control, mem, held>>
    PROVE  DeployInv'
<1>1. step \in [Stacks -> Steps]
  BY DEF DeployInv, TypeOK
<1>2. /\ step' \in [Stacks -> Steps] /\ step'[s] = "failed"
      /\ \A r \in Stacks \ {s} : step'[r] = step[r]
  BY <1>1 DEF Goes, Steps
<1>3. TypeOK'
  BY <1>2 DEF DeployInv, TypeOK
<1>4. InHand(s)' /\ Done(s)'
  BY <1>2 DEF InHand, Done, Active
<1>5. FileSoFar' /\ EarlySoFar'
  BY <1>2, FileKept
<1>6. QED
  BY <1>2, <1>3, <1>4, <1>5, ThreadKeeps

LEMMA TroubleTyped ==
    ASSUME DeployInv, Trouble \/ NoTrouble
    PROVE  trouble' \in 0 .. MaxTrouble
BY DeployBoundsAssumption DEF DeployInv, TypeOK, Trouble, NoTrouble

LEMMA RefuseDeployKeeps ==
    ASSUME DeployInv, NEW s \in Stacks, RefuseDeploy(s)
    PROVE  DeployInv'
<1>1. cloud \in [Stacks -> Statuses]
  BY DEF DeployInv, TypeOK
<1>2. /\ Mine(s) /\ step[s] = "off" /\ Goes(s, "failed") /\ Trouble
      /\ UNCHANGED <<saved, cloud, mem, held, Control>>
  BY DEF RefuseDeploy
<1>3. QED
  BY <1>1, <1>2, GivesUpKeeps, TroubleTyped

LEMMA WaitTimeoutKeeps ==
    ASSUME DeployInv, NEW s \in Stacks, WaitTimeout(s)
    PROVE  DeployInv'
<1>1. cloud \in [Stacks -> Statuses]
  BY DEF DeployInv, TypeOK
<1>2. /\ step[s] \in Active /\ step[s] # "write" /\ Goes(s, "failed") /\ Trouble
      /\ UNCHANGED <<saved, cloud, mem, held, Control>>
  BY DEF WaitTimeout, Active
<1>3. QED
  BY <1>1, <1>2, GivesUpKeeps, TroubleTyped

LEMMA RecreateKeeps ==
    ASSUME DeployInv, NEW s \in Stacks, Recreate(s)
    PROVE  DeployInv'
<1>1. cloud \in [Stacks -> Statuses] /\ step \in [Stacks -> Steps]
  BY DEF DeployInv, TypeOK
<1>2. /\ step[s] = "clearing" /\ step[s] \in Active /\ cloud[s] = "deleting"
      /\ UNCHANGED <<profile, region, prior, file, Control, mem, held>>
  BY DEF Recreate, Active
<1>3. CASE Becomes(s, "creating") /\ Goes(s, "waiting") /\ NoTrouble
  <2>1. todo # <<>> /\ s \in todo[1].stacks /\ todo[1].act = "deploy"
    BY <1>2 DEF DeployInv, Threads, InHand
  <2>2. /\ \A r \in Stacks \ {s} : cloud'[r] = cloud[r] /\ step'[r] = step[r]
        /\ cloud' \in [Stacks -> Statuses] /\ step' \in [Stacks -> Steps]
        /\ step'[s] = "waiting" /\ cloud'[s] = "creating" /\ trouble' = trouble
    BY <1>1, <1>3 DEF Goes, Becomes, Statuses, Busy, Steps, NoTrouble
  <2>3. TypeOK'
    BY <1>2, <2>2 DEF DeployInv, TypeOK
  <2>4. InHand(s)' /\ Done(s)'
    BY <1>2, <2>1, <2>2 DEF InHand, Done
  <2>5. FileSoFar' /\ EarlySoFar'
    BY <1>2, <2>2, FileKept
  <2>6. QED
    BY <1>2, <2>2, <2>3, <2>4, <2>5, ThreadKeeps
<1>4. CASE Becomes(s, "deleteFailed") /\ Goes(s, "failed") /\ Trouble
  <2>1. /\ cloud' \in [Stacks -> Statuses] /\ \A r \in Stacks \ {s} : cloud'[r] = cloud[r]
    BY <1>1, <1>4 DEF Becomes, Statuses
  <2>2. QED
    BY <1>2, <1>4, <2>1, GivesUpKeeps, TroubleTyped
<1>5. QED
  BY <1>3, <1>4 DEF Recreate

LEMMA DeployEndsKeeps ==
    ASSUME DeployInv, NEW s \in Stacks, DeployEnds(s)
    PROVE  DeployInv'
<1>1. cloud \in [Stacks -> Statuses] /\ step \in [Stacks -> Steps]
  BY DEF DeployInv, TypeOK
<1>2. /\ step[s] = "waiting" /\ step[s] \in Active /\ cloud[s] \in {"creating", "updating"}
      /\ UNCHANGED <<profile, region, prior, file, Control, mem, held>>
  BY DEF DeployEnds, Active
<1>3. CASE Becomes(s, "complete") /\ Deployed(s) /\ NoTrouble
  <2>1. /\ todo # <<>> /\ s \in todo[1].stacks /\ todo[1].act = "deploy"
        /\ command.kind # "destroy"
    BY <1>2, AtWork DEF DeployInv, Threads, InHand, Fit
  <2>2. /\ \A r \in Stacks \ {s} : cloud'[r] = cloud[r] /\ step'[r] = step[r]
        /\ cloud' \in [Stacks -> Statuses] /\ step' \in [Stacks -> Steps]
        /\ step'[s] = IF s \in {"monitoring", "websearch"} THEN "save" ELSE "ok"
        /\ cloud'[s] = "complete" /\ trouble' = trouble
    BY <1>1, <1>3 DEF Goes, Becomes, Deployed, Statuses, Busy, Steps, NoTrouble
  <2>3. TypeOK'
    BY <1>2, <2>2 DEF DeployInv, TypeOK
  <2>4. InHand(s)' /\ Done(s)'
    BY <1>2, <2>1, <2>2 DEF InHand, Done, Active
  <2>5. FileSoFar' /\ EarlySoFar'
    BY <1>2, <2>2, FileKept
  <2>6. QED
    BY <1>2, <2>1, <2>2, <2>3, <2>4, <2>5, ThreadKeeps
<1>4. CASE /\ Becomes(s, IF cloud[s] = "creating" THEN "rollback" ELSE "restored")
           /\ Goes(s, "failed") /\ Trouble
  <2>1. /\ cloud' \in [Stacks -> Statuses] /\ \A r \in Stacks \ {s} : cloud'[r] = cloud[r]
    BY <1>1, <1>4 DEF Becomes, Statuses
  <2>2. QED
    BY <1>2, <1>4, <2>1, GivesUpKeeps, TroubleTyped
<1>5. QED
  BY <1>3, <1>4 DEF DeployEnds

(* Addresses stay addresses when a stack is gone.                          *)
LEMMA VanishesTyped ==
    ASSUME DeployInv, NEW s \in Stacks, Vanishes(s)
    PROVE  /\ cloud' \in [Stacks -> Statuses] /\ cloud'[s] = "absent"
           /\ \A r \in Stacks \ {s} : cloud'[r] = cloud[r]
           /\ file' \in [whole: BOOLEAN, at: Addresses] /\ file'.whole = file.whole
           /\ mem' \in Addresses
           /\ s # "monitoring" => file'.at.endpoint = file.at.endpoint /\ mem'.endpoint = mem.endpoint
           /\ UNCHANGED <<profile, region, prior, held>>
<1>1. /\ cloud \in [Stacks -> Statuses] /\ file \in [whole: BOOLEAN, at: Addresses]
      /\ mem \in Addresses
  BY DEF DeployInv, TypeOK
<1>2. ASSUME NEW at \in Addresses
      PROVE  /\ Outdated(at, s) \in Addresses
             /\ s # "monitoring" => Outdated(at, s).endpoint = at.endpoint
  BY DEF Outdated, Addresses
<1>3. file.at \in Addresses
  BY <1>1
<1>4. /\ file' = [file EXCEPT !.at = Outdated(file.at, s)] /\ mem' = Outdated(mem, s)
      /\ cloud' = [cloud EXCEPT ![s] = "absent"]
      /\ UNCHANGED <<profile, region, prior, held>>
  BY DEF Vanishes, Becomes
<1>5. file'.at = Outdated(file.at, s) /\ file'.whole = file.whole
  BY <1>1, <1>4
<1>6. file' \in [whole: BOOLEAN, at: Addresses]
  BY <1>1, <1>2, <1>3, <1>4
<1>7. cloud' \in [Stacks -> Statuses] /\ cloud'[s] = "absent"
      /\ \A r \in Stacks \ {s} : cloud'[r] = cloud[r]
  BY <1>1, <1>4 DEF Statuses
<1>8. QED
  BY <1>1, <1>2, <1>3, <1>4, <1>5, <1>6, <1>7

LEMMA StartDeleteKeeps ==
    ASSUME DeployInv, NEW s \in Stacks, StartDelete(s)
    PROVE  DeployInv'
<1>1. cloud \in [Stacks -> Statuses] /\ step \in [Stacks -> Steps]
  BY DEF DeployInv, TypeOK
<1>2. /\ Mine(s) /\ Act # "deploy" /\ step[s] = "off"
      /\ UNCHANGED <<profile, region, prior, file, Control, mem, held>>
  BY DEF StartDelete
<1>3. /\ todo # <<>> /\ Act = todo[1].act /\ s \in todo[1].stacks
      /\ Act \notin Ends /\ Fit(command.kind, command.only, todo[1])
  BY <1>2, AtWork
<1>4. CASE cloud[s] = "absent" /\ Goes(s, "ok") /\ UNCHANGED cloud /\ NoTrouble
  <2>1. /\ \A r \in Stacks \ {s} : cloud'[r] = cloud[r] /\ step'[r] = step[r]
        /\ cloud' \in [Stacks -> Statuses] /\ step' \in [Stacks -> Steps]
        /\ step'[s] = "ok" /\ cloud'[s] = "absent" /\ trouble' = trouble
    BY <1>1, <1>4 DEF Goes, Steps, NoTrouble
  <2>2. TypeOK'
    BY <1>2, <2>1 DEF DeployInv, TypeOK
  <2>3. InHand(s)'
    BY <2>1 DEF InHand, Active
  <2>4. Done(s)'
    <3>1. command.kind = "deploy" => s \notin Selected(profile)
      BY <1>2, <1>3 DEF Fit
    <3>2. QED
      BY <1>2, <2>1, <3>1 DEF Done, Selected
  <2>5. FileSoFar' /\ EarlySoFar'
    <3>1. Full("deploy") /\ Central(profile) => s # "monitoring"
      BY <1>2, <1>3, CollectorWanted DEF Fit, Full
    <3>2. QED
      BY <1>2, <2>1, <3>1, FileKept
  <2>6. QED
    BY <1>2, <2>1, <2>2, <2>3, <2>4, <2>5, ThreadKeeps
<1>5. CASE /\ cloud[s] \notin {"absent", "updating"}
           /\ Goes(s, "waiting") /\ Becomes(s, "deleting") /\ NoTrouble
  <2>1. /\ \A r \in Stacks \ {s} : cloud'[r] = cloud[r] /\ step'[r] = step[r]
        /\ cloud' \in [Stacks -> Statuses] /\ step' \in [Stacks -> Steps]
        /\ step'[s] = "waiting" /\ cloud'[s] = "deleting" /\ trouble' = trouble
    BY <1>1, <1>5 DEF Goes, Becomes, Statuses, Busy, Steps, NoTrouble
  <2>2. TypeOK'
    BY <1>2, <2>1 DEF DeployInv, TypeOK
  <2>3. InHand(s)' /\ Done(s)'
    BY <1>2, <1>3, <2>1 DEF InHand, Done
  <2>4. FileSoFar' /\ EarlySoFar'
    BY <1>2, <2>1, FileKept
  <2>5. QED
    BY <1>2, <1>5, <2>1, <2>2, <2>3, <2>4, ThreadKeeps
<1>6. CASE Goes(s, "failed") /\ UNCHANGED cloud /\ (Trouble \/ NoTrouble)
  BY <1>1, <1>2, <1>6, GivesUpKeeps, TroubleTyped
<1>7. QED
  BY <1>4, <1>5, <1>6 DEF StartDelete

LEMMA DeleteEndsKeeps ==
    ASSUME DeployInv, NEW s \in Stacks, DeleteEnds(s)
    PROVE  DeployInv'
<1>1. cloud \in [Stacks -> Statuses] /\ step \in [Stacks -> Steps]
  BY DEF DeployInv, TypeOK
<1>2. /\ step[s] = "waiting" /\ step[s] \in Active /\ cloud[s] = "deleting" /\ UNCHANGED Control
  BY DEF DeleteEnds, Active
<1>3. CASE Vanishes(s) /\ Goes(s, "ok") /\ NoTrouble
  <2>1. /\ cloud' \in [Stacks -> Statuses] /\ cloud'[s] = "absent"
        /\ \A r \in Stacks \ {s} : cloud'[r] = cloud[r]
        /\ file' \in [whole: BOOLEAN, at: Addresses] /\ file'.whole = file.whole
        /\ mem' \in Addresses /\ UNCHANGED <<profile, region, prior, held>>
        /\ s # "monitoring" => file'.at.endpoint = file.at.endpoint /\ mem'.endpoint = mem.endpoint
    BY <1>3, VanishesTyped
  <2>2. /\ \A r \in Stacks \ {s} : step'[r] = step[r]
        /\ step' \in [Stacks -> Steps] /\ step'[s] = "ok" /\ trouble' = trouble
    BY <1>1, <1>3 DEF Goes, Steps, NoTrouble
  <2>3. TypeOK'
    BY <1>2, <2>1, <2>2 DEF DeployInv, TypeOK
  <2>4. InHand(s)'
    BY <2>2 DEF InHand, Active
  <2>5. Done(s)'
    <3>1. /\ todo[1].act # "deploy" /\ todo # <<>> /\ s \in todo[1].stacks
      BY <1>2 DEF DeployInv, Threads, InHand
    <3>2. command.kind = "deploy" => s \notin Selected(profile)
      BY <1>2, <3>1, AtWork DEF Fit
    <3>3. QED
      BY <1>2, <2>1, <3>2 DEF Done, Selected
  <2>6. FileSoFar' /\ EarlySoFar'
    <3>1. /\ todo[1].act # "deploy" /\ s \in todo[1].stacks
          /\ Fit(command.kind, command.only, todo[1])
      BY <1>2, AtWork DEF DeployInv, Threads, InHand
    <3>2. Full("deploy") /\ Central(profile) => s # "monitoring"
      BY <3>1, AtWork, <1>2, CollectorWanted DEF Fit, Full
    <3>3. QED
      BY <1>2, <2>1, <2>2, <3>2, FileKept
  <2>7. QED
    BY <1>2, <2>1, <2>2, <2>3, <2>4, <2>5, <2>6, ThreadKeeps
<1>4. CASE /\ Becomes(s, "deleteFailed") /\ Goes(s, "failed") /\ (Trouble \/ NoTrouble)
           /\ UNCHANGED <<saved, mem, held>>
  <2>1. cloud' \in [Stacks -> Statuses] /\ \A r \in Stacks \ {s} : cloud'[r] = cloud[r]
    BY <1>1, <1>4 DEF Becomes, Statuses
  <2>2. QED
    BY <1>2, <1>4, <2>1, GivesUpKeeps, TroubleTyped
<1>5. QED
  BY <1>3, <1>4 DEF DeleteEnds

(* The two threads that save the profile: without a collector there is one *)
(* of them at most, and of the stacks that come one by one only one is at  *)
(* work.                                                                   *)
LEMMA OnlySaver ==
    ASSUME DeployInv, NEW s \in Stacks, step[s] \in {"save", "write"}
    PROVE  /\ s \in {"monitoring", "websearch"} /\ cloud[s] = "complete"
           /\ todo # <<>> /\ s \in todo[1].stacks /\ todo[1].act = "deploy"
           /\ command.kind # "destroy" /\ step[s] \in Active /\ ~Saving
           /\ Full("deploy") /\ ~Central(profile) => s = "websearch"
           /\ ~command.parallel /\ command.kind = "deploy" =>
                 \A r \in Stacks : step[r] \in Active => r = s
           /\ s = "monitoring" => ToCome("deploy", "monitoring")
<1>1. step[s] \in Active
  BY DEF Active
<1>2. /\ s \in {"monitoring", "websearch"} /\ cloud[s] = "complete"
      /\ todo # <<>> /\ s \in todo[1].stacks /\ todo[1].act = "deploy"
  BY <1>1 DEF DeployInv, Threads, InHand
<1>3. Fit(command.kind, command.only, todo[1]) /\ 1 \in 1 .. Len(todo)
  BY <1>1, AtWork
<1>4. Full("deploy") /\ ~Central(profile) => s = "websearch"
  BY <1>2, <1>3, CollectorWanted DEF Fit, Full
<1>5. ~command.parallel /\ command.kind = "deploy" => \A r \in Stacks : step[r] \in Active => r = s
  BY <1>2, <1>3 DEF DeployInv, Threads, InHand, Planned, PlanFits, OneEach
<1>6. s = "monitoring" => ToCome("deploy", "monitoring")
  BY <1>2, <1>3 DEF ToCome, Among
<1>7. QED
  BY <1>1, <1>2, <1>3, <1>4, <1>5, <1>6 DEF Fit, Saving

LEMMA OpenProfileKeeps ==
    ASSUME DeployInv, NEW s \in Stacks, OpenProfile(s)
    PROVE  DeployInv'
<1> DEFINE at == WithAddress(s)
<1>1. /\ cloud \in [Stacks -> Statuses] /\ step \in [Stacks -> Steps] /\ mem \in Addresses
      /\ file \in [whole: BOOLEAN, at: Addresses] /\ held \in [{"monitoring", "websearch"} -> Addresses]
  BY DEF DeployInv, TypeOK
<1>2. /\ at \in Addresses
      /\ at.endpoint = IF s = "monitoring" THEN "current" ELSE mem.endpoint
  BY <1>1 DEF WithAddress, Addresses
<1>3. /\ step[s] = "save" /\ step[s] \in Active /\ Goes(s, "write")
      /\ mem' = at /\ held' = [held EXCEPT ![s] = at]
      /\ file' = [file EXCEPT !.whole = FALSE]
      /\ UNCHANGED <<profile, region, prior, cloud, Control, trouble>>
  BY DEF OpenProfile, Active
<1> HIDE DEF at
<1>4. /\ s \in {"monitoring", "websearch"} /\ cloud[s] = "complete"
      /\ todo # <<>> /\ s \in todo[1].stacks /\ todo[1].act = "deploy"
      /\ Full("deploy") /\ ~Central(profile) => s = "websearch"
      /\ ~command.parallel /\ command.kind = "deploy" =>
            \A r \in Stacks : step[r] \in Active => r = s
      /\ s = "monitoring" => ToCome("deploy", "monitoring")
  BY <1>3, OnlySaver
<1>5. /\ \A r \in Stacks \ {s} : step'[r] = step[r]
      /\ step' \in [Stacks -> Steps] /\ step'[s] = "write"
  BY <1>1, <1>3 DEF Goes, Steps
<1>6. /\ file' \in [whole: BOOLEAN, at: Addresses] /\ ~file'.whole
      /\ held' \in [{"monitoring", "websearch"} -> Addresses] /\ held'[s] = at
  BY <1>1, <1>2, <1>3, <1>4
<1>7. TypeOK'
  BY <1>2, <1>3, <1>5, <1>6 DEF DeployInv, TypeOK
<1>8. InHand(s)' /\ Done(s)'
  BY <1>3, <1>4, <1>5 DEF InHand, Done
<1>9. FileSoFar'
  BY <1>3, <1>4, <1>5, <1>6 DEF FileSoFar, Full
<1>10. EarlySoFar'
  <2> SUFFICES ASSUME Full("deploy"), Central(profile), Going, ~command.parallel, "early" \notin missed
               PROVE  /\ step'["monitoring"] = "write" =>
                             /\ ~file'.whole /\ mem'.endpoint = "current"
                             /\ held'["monitoring"].endpoint = "current"
                      /\ step'["monitoring"] = "ok" \/ ~ToCome("deploy", "monitoring") => AddressSafe'
    BY <1>3 DEF EarlySoFar, Full, Central, Going, ToCome, Among
  <2>1. CASE s = "monitoring"
    BY <1>2, <1>3, <1>4, <1>5, <1>6, <2>1
  <2>2. CASE s = "websearch"
    <3>1. step'["monitoring"] = step["monitoring"] /\ step'["monitoring"] # "write"
      BY <1>4, <1>5, <2>2, CollectorWanted DEF Full, Active
    <3>2. AddressSafe => AddressSafe'
      BY <1>2, <1>3, <1>5, <1>6, <2>2 DEF AddressSafe
    <3>3. QED
      BY <3>1, <3>2 DEF DeployInv, EarlySoFar
  <2>3. QED
    BY <1>4, <2>1, <2>2
<1>11. QED
  BY <1>3, <1>5, <1>7, <1>8, <1>9, <1>10, ThreadKeeps

LEMMA OutputsUnreadKeeps ==
    ASSUME DeployInv, NEW s \in Stacks, OutputsUnread(s)
    PROVE  DeployInv'
<1>1. step \in [Stacks -> Steps] /\ missed \subseteq {"early", "late"}
  BY DEF DeployInv, TypeOK
<1>2. /\ step[s] = "save" /\ Goes(s, "ok") /\ Trouble
      /\ missed \subseteq missed' /\ missed' \subseteq {"early", "late"}
      /\ s = "monitoring" => "early" \in missed'
      /\ UNCHANGED <<profile, region, prior, file, cloud, mem, held, Plan>>
  BY <1>1 DEF OutputsUnread, Misses
<1>3. /\ cloud[s] = "complete" /\ command.kind # "destroy" /\ step[s] \in Active
  BY <1>2, OnlySaver
<1>4. /\ \A r \in Stacks \ {s} : step'[r] = step[r]
      /\ step' \in [Stacks -> Steps] /\ step'[s] = "ok"
  BY <1>1, <1>2 DEF Goes, Steps
<1>5. TypeOK'
  BY <1>2, <1>4, TroubleTyped DEF DeployInv, TypeOK
<1>6. InHand(s)' /\ Done(s)'
  BY <1>2, <1>3, <1>4 DEF InHand, Done, Active
<1>7. FileSoFar' /\ EarlySoFar'
  BY <1>2, <1>4, FileKept
<1>8. QED
  BY <1>2, <1>3, <1>4, <1>5, <1>6, <1>7, ThreadKeeps

LEMMA SaveFailsKeeps ==
    ASSUME DeployInv, NEW s \in Stacks, SaveFails(s)
    PROVE  DeployInv'
<1>1. /\ step \in [Stacks -> Steps] /\ missed \subseteq {"early", "late"} /\ mem \in Addresses
      /\ file \in [whole: BOOLEAN, at: Addresses]
  BY DEF DeployInv, TypeOK
<1>2. /\ step[s] \in {"save", "write"} /\ Trouble
      /\ Goes(s, IF s = "monitoring" THEN "ok" ELSE "failed")
      /\ "early" \in missed' /\ missed' \subseteq {"early", "late"}
      /\ UNCHANGED <<profile, region, prior, cloud, held, Plan>>
  BY <1>1 DEF SaveFails, Misses
<1>3. /\ cloud[s] = "complete" /\ command.kind # "destroy" /\ step[s] \in Active
      /\ Full("deploy") /\ ~Central(profile) => s = "websearch"
  BY <1>2, OnlySaver
<1>4. /\ \A r \in Stacks \ {s} : step'[r] = step[r]
      /\ step' \in [Stacks -> Steps] /\ step'[s] \in {"ok", "failed"}
  BY <1>1, <1>2 DEF Goes, Steps
<1>5. mem' \in Addresses /\ file' \in [whole: BOOLEAN, at: Addresses]
  <2>1. WithAddress(s) \in Addresses
    BY <1>1 DEF WithAddress, Addresses
  <2>2. QED
    BY <1>1, <2>1 DEF SaveFails
<1>6. TypeOK'
  BY <1>2, <1>4, <1>5, TroubleTyped DEF DeployInv, TypeOK
<1>7. InHand(s)' /\ Done(s)'
  BY <1>2, <1>3, <1>4 DEF InHand, Done, Active
<1>8. FileSoFar' /\ EarlySoFar'
  BY <1>2 DEF FileSoFar, EarlySoFar
<1>9. QED
  BY <1>2, <1>3, <1>4, <1>6, <1>7, <1>8, ThreadKeeps

LEMMA WriteProfileKeeps ==
    ASSUME DeployInv, NEW s \in Stacks, WriteProfile(s)
    PROVE  DeployInv'
<1>1. /\ cloud \in [Stacks -> Statuses] /\ step \in [Stacks -> Steps]
      /\ file \in [whole: BOOLEAN, at: Addresses] /\ held \in [{"monitoring", "websearch"} -> Addresses]
  BY DEF DeployInv, TypeOK
<1>2. /\ step[s] = "write" /\ step[s] \in Active /\ Goes(s, "ok")
      /\ file' = [whole |-> ~(file.whole /\ Longer(file.at, held[s])), at |-> held[s]]
      /\ UNCHANGED <<profile, region, prior, cloud, mem, held, Control, trouble>>
  BY DEF WriteProfile, Active
<1>3. /\ s \in {"monitoring", "websearch"} /\ cloud[s] = "complete" /\ command.kind # "destroy"
      /\ Full("deploy") /\ ~Central(profile) => s = "websearch"
      /\ ~command.parallel /\ command.kind = "deploy" =>
            \A r \in Stacks : step[r] \in Active => r = s
  BY <1>2, OnlySaver
<1>4. /\ \A r \in Stacks \ {s} : step'[r] = step[r]
      /\ step' \in [Stacks -> Steps] /\ step'[s] = "ok"
  BY <1>1, <1>2 DEF Goes, Steps
<1>5. file' \in [whole: BOOLEAN, at: Addresses] /\ file'.at = held[s] /\ (~file.whole => file'.whole)
  BY <1>1, <1>2, <1>3
<1>6. TypeOK'
  BY <1>2, <1>4, <1>5 DEF DeployInv, TypeOK
<1>7. InHand(s)' /\ Done(s)'
  BY <1>2, <1>3, <1>4 DEF InHand, Done, Active
<1>8. FileSoFar'
  <2> SUFFICES ASSUME Full("deploy"), ~Central(profile), "early" \notin missed
               PROVE  file'.whole /\ step'["websearch"] # "write"
    BY <1>2 DEF FileSoFar, Full, Central
  <2>1. s = "websearch"
    BY <1>3
  <2>2. ~file.whole
    BY <1>2, <2>1 DEF DeployInv, FileSoFar
  <2>3. QED
    BY <1>4, <1>5, <2>1, <2>2
<1>9. EarlySoFar'
  <2> SUFFICES ASSUME Full("deploy"), Central(profile), Going, ~command.parallel, "early" \notin missed
               PROVE  /\ step'["monitoring"] # "write"
                      /\ step'["monitoring"] = "ok" \/ ~ToCome("deploy", "monitoring") => AddressSafe'
    BY <1>2 DEF EarlySoFar, Full, Central, Going, ToCome, Among
  <2>1. step'["monitoring"] # "write" /\ step'["websearch"] # "write"
    BY <1>3, <1>4 DEF Full, Active, Stacks
  <2>2. CASE s = "monitoring"
    <3>1. ~file.whole /\ mem.endpoint = "current" /\ held[s].endpoint = "current"
      BY <1>2, <2>2 DEF DeployInv, EarlySoFar
    <3>2. QED
      BY <1>2, <1>5, <2>1, <3>1 DEF AddressSafe
  <2>3. CASE s = "websearch"
    <3>1. step'["monitoring"] = step["monitoring"]
      BY <1>4, <2>3, CollectorWanted
    <3>2. AddressSafe => AddressSafe'
      BY <1>2, <1>5, <2>1, <2>3 DEF AddressSafe
    <3>3. QED
      BY <2>1, <3>1, <3>2 DEF DeployInv, EarlySoFar
  <2>4. QED
    BY <1>3, <2>2, <2>3
<1>10. QED
  BY <1>2, <1>3, <1>4, <1>6, <1>7, <1>8, <1>9, ThreadKeeps

-----------------------------------------------------------------------------
(* CloudFormation on its own.                                              *)

LEMMA SettlesKeeps ==
    ASSUME DeployInv, NEW s \in Stacks, Settles(s)
    PROVE  DeployInv'
<1>1. /\ cloud[s] \in Busy /\ step[s] \notin {"clearing", "waiting"}
      /\ UNCHANGED <<profile, region, prior, held, step, Control>>
  BY DEF Settles, Vanishes
<1>2. /\ cloud' \in [Stacks -> Statuses] /\ \A r \in Stacks \ {s} : cloud'[r] = cloud[r]
      /\ file' \in [whole: BOOLEAN, at: Addresses] /\ file'.whole = file.whole
      /\ mem' \in Addresses
      /\ s # "monitoring" => file'.at.endpoint = file.at.endpoint /\ mem'.endpoint = mem.endpoint
  <2>1. CASE Vanishes(s)
    BY <2>1, VanishesTyped
  <2>2. CASE Becomes(s, "complete") /\ UNCHANGED <<saved, mem, held>>
    BY <2>2 DEF DeployInv, TypeOK, Becomes, Statuses
  <2>3. CASE /\ Becomes(s, [creating |-> "rollback", updating |-> "restored",
                            deleting |-> "deleteFailed"][cloud[s]])
             /\ UNCHANGED <<saved, mem, held>>
    BY <1>1, <2>3 DEF DeployInv, TypeOK, Becomes, Statuses, Busy
  <2>4. QED
    BY <2>1, <2>2, <2>3 DEF Settles
<1>3. trouble' \in 0 .. MaxTrouble
  BY TroubleTyped DEF Settles
<1>4. TypeOK'
  BY <1>1, <1>2, <1>3 DEF DeployInv, TypeOK
<1>5. Planned'
  BY <1>1 DEF DeployInv, Planned, Running, PlanFits, Fit, InOrder, Selected, OutputsAtEnd,
              CollectorShown, OneEach
<1>6. Threads'
  <2>1. step[s] \notin Active /\ cloud[s] \notin {"complete", "absent"}
    BY <1>1 DEF DeployInv, Threads, InHand, Active, Busy
  <2>2. \A r \in Stacks : InHand(r)'
    BY <1>1, <1>2, <2>1 DEF DeployInv, Threads, InHand
  <2>3. \A r \in Stacks : Done(r)'
    BY <1>1, <1>2, <2>1 DEF DeployInv, Threads, Done, Selected
  <2>4. QED
    BY <2>2, <2>3 DEF Threads
<1>7. cloud[s] \notin {"complete", "absent"}
  BY <1>1 DEF Busy
<1>8. DeployedSoFar'
  <2> SUFFICES ASSUME Full("deploy"), Going, NEW r \in Needed
               PROVE  cloud'[r] = "complete" \/ ToCome("deploy", r)
    BY <1>1 DEF DeployedSoFar, Full, Going, Needed, Selected, ToCome, Among
  <2>1. cloud[r] = "complete" \/ ToCome("deploy", r)
    BY DEF DeployInv, DeployedSoFar
  <2>2. r \in Stacks
    BY SelectedStacks DEF Needed
  <2>3. QED
    BY <1>2, <1>7, <2>1, <2>2
<1>9. DestroyedSoFar'
  <2> SUFFICES ASSUME Full("destroy"), Going, NEW r \in Covered(profile)
               PROVE  cloud'[r] = "absent" \/ failures # {} \/ ToCome("destroy", r)
    BY <1>1 DEF DestroyedSoFar, Full, Going, Covered, ToCome, Among
  <2>1. cloud[r] = "absent" \/ failures # {} \/ ToCome("destroy", r)
    BY DEF DeployInv, DestroyedSoFar
  <2>2. r \in Stacks
    BY DEF Covered
  <2>3. QED
    BY <1>2, <1>7, <2>1, <2>2
<1>10. Reported' /\ FileSoFar'
  BY <1>1, <1>2 DEF DeployInv, Reported, FileSoFar, Full, Going, Saving, Central
<1>11. ASSUME cloud["monitoring"] = "complete"
       PROVE  AddressSafe => AddressSafe'
  <2>1. s # "monitoring"
    BY <1>7, <1>11
  <2>2. QED
    BY <1>1, <1>2, <2>1 DEF AddressSafe, Saving
<1>12. EarlySoFar'
  <2> SUFFICES ASSUME Full("deploy"), Central(profile), Going, ~command.parallel, "early" \notin missed
               PROVE  /\ step["monitoring"] = "write" =>
                             /\ ~file'.whole /\ mem'.endpoint = "current"
                             /\ held["monitoring"].endpoint = "current"
                      /\ step["monitoring"] = "ok" \/ ~ToCome("deploy", "monitoring") => AddressSafe'
    BY <1>1 DEF EarlySoFar, Full, Central, Going, ToCome, Among
  <2>1. CASE step["monitoring"] = "write"
    <3>1. cloud["monitoring"] = "complete" /\ ToCome("deploy", "monitoring")
      BY <2>1, OnlySaver, CollectorWanted
    <3>2. s # "monitoring"
      BY <1>7, <3>1
    <3>3. QED
      BY <1>2, <2>1, <3>1, <3>2 DEF DeployInv, EarlySoFar
  <2>2. CASE step["monitoring"] = "ok"
    <3>1. cloud["monitoring"] = "complete"
      BY <2>2, CollectorWanted DEF DeployInv, Threads, Done, Full, Needed
    <3>2. QED
      BY <1>11, <2>2, <3>1 DEF DeployInv, EarlySoFar
  <2>3. CASE ~ToCome("deploy", "monitoring") /\ step["monitoring"] # "write"
    <3>1. cloud["monitoring"] = "complete"
      BY <2>3, CollectorWanted DEF DeployInv, DeployedSoFar
    <3>2. QED
      BY <1>11, <2>3, <3>1 DEF DeployInv, EarlySoFar
  <2>4. QED
    BY <2>1, <2>2, <2>3
<1>13. LateSoFar'
  <2> SUFFICES ASSUME Full("deploy"), Central(profile), Going, "late" \notin missed,
                      ~CollectorShown(todo)
               PROVE  AddressSafe'
    BY <1>1 DEF LateSoFar, Full, Central, Going, CollectorShown
  <2>1. todo = <<>> \/ todo[1].act \in Ends
    BY ShownLater DEF Full
  <2>2. cloud["monitoring"] = "complete"
    BY <2>1, AllDeployed, CollectorWanted
  <2>3. QED
    BY <1>11, <2>2 DEF DeployInv, LateSoFar
<1>14. QED
  BY <1>4, <1>5, <1>6, <1>8, <1>9, <1>10, <1>12, <1>13 DEF DeployInv

-----------------------------------------------------------------------------
(* The end of a wave and of the command.                                   *)

(* A command that ends keeps nothing to come and leaves no thread.         *)
LEMMA EndKeeps ==
    ASSUME DeployInv, NEW exit \in {"zero", "one"},
           command' = [command EXCEPT !.exit = exit], todo' = <<>>,
           step' \in [Stacks -> Steps], \A s \in Stacks : step'[s] \notin Active,
           \A s \in Stacks : step'[s] = "ok" => step[s] = "ok",
           UNCHANGED <<profile, region, prior, cloud, held>>,
           file' \in [whole: BOOLEAN, at: Addresses], mem' \in Addresses,
           failures' \subseteq Stacks, trouble' \in 0 .. MaxTrouble,
           missed' \subseteq {"early", "late"},
           exit = "zero" =>
               /\ command.kind = "destroy" => failures' = {}
               /\ Full("deploy") =>
                     /\ \A s \in Needed : cloud[s] = "complete"
                     /\ FileSoFar' /\ EarlySoFar' /\ LateSoFar'
               /\ Full("destroy") => \A s \in Covered(profile) : cloud[s] = "absent"
    PROVE  DeployInv'
<1>1. /\ command'.exit = exit /\ command'.kind = command.kind /\ command'.only = command.only
      /\ command' \in [kind: {"none", "deploy", "destroy"}, only: Stacks \cup {"all"}, parallel: BOOLEAN,
                       exit: {"none", "running", "zero", "one"}, given: 0 .. MaxCommands]
  BY DEF DeployInv, TypeOK
<1>2. TypeOK'
  BY <1>1, NoWaves DEF DeployInv, TypeOK
<1>3. Planned'
  <2>1. todo' = <<>> /\ 1 .. Len(todo') = {} /\ 2 .. Len(todo') = {} /\ ~Running'
    BY <1>1, NoWaves DEF Running
  <2>2. PlanFits(command.kind, command.only, command.parallel, todo)'
    BY <2>1 DEF PlanFits, InOrder, OutputsAtEnd, OneEach
  <2>3. QED
    BY <2>1, <2>2 DEF Planned
<1>4. Threads'
  BY <1>1 DEF DeployInv, Threads, InHand, Done, Selected
<1>5. step'["websearch"] # "write"
  BY DEF Stacks, Active
<1>6. DeployedSoFar' /\ DestroyedSoFar' /\ Reported'
  BY <1>1 DEF DeployedSoFar, DestroyedSoFar, Reported, Full, Going, Needed, Selected, Covered
<1>7. FileSoFar' /\ EarlySoFar' /\ LateSoFar'
  BY <1>1, <1>5 DEF FileSoFar, EarlySoFar, LateSoFar, Full, Going
<1>8. QED
  BY <1>2, <1>3, <1>4, <1>6, <1>7 DEF DeployInv

LEMMA NobodyIdle ==
    /\ Idle \in [Stacks -> Steps]
    /\ \A s \in Stacks : Idle[s] = "off" /\ Idle[s] \notin Active
BY DEF Idle, Steps, Active

(* What is left when the wave in hand is over.                             *)
LEMMA TailFits ==
    ASSUME DeployInv, todo # <<>>, NEW t, t = Tail(todo)
    PROVE  /\ t \in Seq(Wave)
           /\ PlanFits(command.kind, command.only, command.parallel, t)
           /\ \A act, s : ToCome(act, s) => (todo[1].act = act /\ s \in todo[1].stacks) \/ Among(t, act, s)
           /\ \A act, s : Among(t, act, s) => ToCome(act, s)
           /\ CollectorShown(todo) => todo[1].act = "collector" \/ CollectorShown(t)
           /\ t # <<>> => t[1].act # "save"
           /\ t # <<>> /\ command.kind = "deploy" /\ todo[1].act \in Ends => t[1].act \in Ends
<1>1. /\ t \in Seq(Wave) /\ Len(t) \in Nat /\ Len(todo) = Len(t) + 1
      /\ \A i \in 1 .. Len(t) : i + 1 \in 2 .. Len(todo) /\ i + 1 \in 1 .. Len(todo) /\ t[i] = todo[i + 1]
      /\ \A i \in 2 .. Len(todo) : i - 1 \in 1 .. Len(t) /\ todo[i] = t[i - 1]
      /\ t # <<>> => 1 \in 1 .. Len(t)
  <2>1. /\ Tail(todo) \in Seq(Wave) /\ Len(todo) \in Nat \ {0} /\ Len(Tail(todo)) = Len(todo) - 1
        /\ \A i \in 1 .. Len(todo) - 1 : Tail(todo)[i] = todo[i + 1]
        /\ Tail(todo) = <<>> <=> Len(todo) = 1
    BY WaveInHand DEF DeployInv, TypeOK
  <2>2. QED
    BY <2>1
<1>2. /\ \A i \in 1 .. Len(todo) : Fit(command.kind, command.only, todo[i])
      /\ \A i \in 2 .. Len(todo) : todo[i].act # "save"
      /\ command.kind = "deploy" => OutputsAtEnd(todo)
      /\ command.kind = "deploy" /\ ~command.parallel => OneEach(todo)
      /\ command.kind = "deploy" /\ command.only = "all" => InOrder(todo)
  BY DEF DeployInv, Planned, PlanFits
<1>3. \A i \in 1 .. Len(t) : Fit(command.kind, command.only, t[i]) /\ t[i].act # "save"
  BY <1>1, <1>2
<1>4. CollectorShown(todo) => todo[1].act = "collector" \/ CollectorShown(t)
  <2> SUFFICES ASSUME NEW i \in 1 .. Len(todo), todo[i].act = "collector", i # 1
               PROVE  CollectorShown(t)
    BY DEF CollectorShown
  <2>1. i \in 2 .. Len(todo)
    BY <1>1
  <2>2. QED
    BY <1>1, <2>1 DEF CollectorShown
<1>5. command.kind = "deploy" => OutputsAtEnd(t)
  <2> SUFFICES ASSUME command.kind = "deploy" PROVE OutputsAtEnd(t)
    OBVIOUS
  <2>1. t # <<>> => t[Len(t)].act \in Ends
    <3> SUFFICES ASSUME t # <<>> PROVE t[Len(t)].act \in Ends
      OBVIOUS
    <3>1. Len(t) \in 1 .. Len(t)
      BY <1>1
    <3>2. t[Len(t)] = todo[Len(todo)]
      BY <1>1, <3>1
    <3>3. QED
      BY <1>2, <3>2 DEF OutputsAtEnd
  <2>2. \A i, j \in 1 .. Len(t) : i <= j /\ t[i].act \in Ends => t[j].act \in Ends
    <3> SUFFICES ASSUME NEW i \in 1 .. Len(t), NEW j \in 1 .. Len(t), i <= j, t[i].act \in Ends
                 PROVE  t[j].act \in Ends
      OBVIOUS
    <3>1. /\ i + 1 <= j + 1 /\ i + 1 \in 1 .. Len(todo) /\ j + 1 \in 1 .. Len(todo)
          /\ t[i] = todo[i + 1] /\ t[j] = todo[j + 1]
      BY <1>1
    <3>2. QED
      BY <1>2, <3>1 DEF OutputsAtEnd
  <2>3. ASSUME NEW i \in 1 .. Len(t), t[i].act \notin Ends
        PROVE  CollectorShown(t)
    <3>1. i + 1 \in 1 .. Len(todo) /\ todo[i + 1].act \notin Ends /\ 1 \in 1 .. Len(todo) /\ 1 <= i + 1
      BY <1>1, <2>3
    <3>2. todo[1].act \notin Ends
      BY <1>2, <3>1 DEF OutputsAtEnd
    <3>3. CollectorShown(todo)
      BY <1>2, <3>1 DEF OutputsAtEnd
    <3>4. QED
      BY <1>4, <3>2, <3>3 DEF Ends, Shown
  <2>4. QED
    BY <2>1, <2>2, <2>3 DEF OutputsAtEnd
<1>6. OneEach(todo) => OneEach(t)
  BY <1>1 DEF OneEach
<1>7. InOrder(todo) => InOrder(t)
  <2> SUFFICES ASSUME InOrder(todo), NEW i \in 1 .. Len(t), NEW j \in 1 .. Len(t), i <= j,
                      t[i].act = "deploy", NEW s \in t[i].stacks,
                      NEW d \in DependsOn(s) \cap Selected(profile)
               PROVE  d \notin t[j].stacks
    BY DEF InOrder
  <2>1. i + 1 <= j + 1 /\ i + 1 \in 1 .. Len(todo) /\ j + 1 \in 1 .. Len(todo)
        /\ t[i] = todo[i + 1] /\ t[j] = todo[j + 1]
    BY <1>1
  <2>2. QED
    BY <2>1 DEF InOrder
<1>8. 2 .. Len(t) \subseteq 1 .. Len(t)
  BY <1>1
<1>9. PlanFits(command.kind, command.only, command.parallel, t)
  BY <1>2, <1>3, <1>5, <1>6, <1>7, <1>8 DEF PlanFits
<1>10. \A act, s : ToCome(act, s) => (todo[1].act = act /\ s \in todo[1].stacks) \/ Among(t, act, s)
  <2> SUFFICES ASSUME NEW act, NEW s, NEW i \in 1 .. Len(todo), todo[i].act = act, s \in todo[i].stacks,
                      i # 1
               PROVE  Among(t, act, s)
    BY DEF ToCome, Among
  <2>1. i - 1 \in 1 .. Len(t) /\ todo[i] = t[i - 1]
    BY <1>1
  <2>2. QED
    BY <2>1 DEF Among
<1>11. \A act, s : Among(t, act, s) => ToCome(act, s)
  BY <1>1 DEF ToCome, Among
<1>12. t # <<>> /\ command.kind = "deploy" /\ todo[1].act \in Ends => t[1].act \in Ends
  <2> SUFFICES ASSUME t # <<>>, command.kind = "deploy", todo[1].act \in Ends PROVE t[1].act \in Ends
    OBVIOUS
  <2>1. 1 \in 1 .. Len(todo) /\ 2 \in 1 .. Len(todo) /\ t[1] = todo[2]
    BY <1>1
  <2>2. QED
    BY <1>2, <2>1 DEF OutputsAtEnd
<1>13. QED
  BY <1>1, <1>3, <1>4, <1>9, <1>10, <1>11, <1>12

LEMMA WaveEndsKeeps ==
    ASSUME DeployInv, WaveEnds
    PROVE  DeployInv'
<1> DEFINE fatal == Act = "deploy" /\ Failed \ {"websearch"} # {}
           last == fatal \/ Tail(todo) = <<>>
           exit == IF fatal \/ failures' # {} THEN "one" ELSE "zero"
<1>1. /\ Running /\ Act \notin Ends
      /\ \A s \in Head(todo).stacks : step[s] \in {"ok", "failed"}
      /\ failures' = failures \cup Recorded
      /\ UNCHANGED <<profile, region, prior, file, cloud, mem, held, missed, trouble>>
  BY DEF WaveEnds, Ends
<1>2. /\ todo # <<>> /\ Len(todo) \in Nat \ {0} /\ Head(todo) = todo[1] /\ Act = todo[1].act
      /\ todo[1].stacks \subseteq Stacks
      /\ Tail(todo) \in Seq(Wave) /\ Len(Tail(todo)) = Len(todo) - 1
      /\ \A i \in 1 .. Len(todo) - 1 : Tail(todo)[i] = todo[i + 1]
      /\ Tail(todo) = <<>> <=> Len(todo) = 1
  BY <1>1, WaveInHand DEF DeployInv, TypeOK, Planned, Act
<1>3. failures' \subseteq Stacks
  BY <1>1, <1>2 DEF DeployInv, TypeOK, Recorded, Failed
<1>4. command.kind = "destroy" => Act \in {"destroy", "prior"}
  BY <1>1, <1>2 DEF DeployInv, Planned, PlanFits, Fit
<1>5. \A s \in Stacks : step[s] \notin Active
  BY <1>1, <1>2 DEF DeployInv, Threads, InHand, Active
<1>6. CASE last
  <2>1. todo' = <<>> /\ step' = Idle /\ command' = [command EXCEPT !.exit = exit]
    BY <1>6 DEF WaveEnds
  <2>2. exit \in {"zero", "one"} /\ (exit = "zero" => ~fatal /\ failures' = {})
    OBVIOUS
  <2> DEFINE e == exit
  <2>3. ASSUME exit = "zero"
        PROVE  command.kind # "deploy" /\ (Full("destroy") => \A s \in Covered(profile) : cloud[s] = "absent")
    <3>1. Len(todo) = 1
      BY <1>2, <1>6, <2>2, <2>3
    <3>2. command.kind # "deploy"
      BY <1>1, <1>2, <3>1 DEF DeployInv, Planned, PlanFits, OutputsAtEnd
    <3>3. Recorded = {} /\ failures = {}
      BY <1>1, <2>2, <2>3
    <3>4. ASSUME Full("destroy"), NEW s \in Covered(profile)
          PROVE  cloud[s] = "absent"
      <4>1. cloud[s] = "absent" \/ ToCome("destroy", s)
        BY <1>1, <3>3, <3>4 DEF DeployInv, DestroyedSoFar, Going, Running
      <4>2. CASE ToCome("destroy", s)
        <5>1. todo[1].act = "destroy" /\ s \in todo[1].stacks
          BY <3>1, <4>2 DEF ToCome, Among
        <5>2. step[s] # "failed"
          BY <1>2, <3>3, <5>1 DEF Recorded, Failed
        <5>3. step[s] = "ok"
          BY <1>1, <1>2, <5>1, <5>2
        <5>4. s \in Stacks
          BY DEF Covered
        <5>5. QED
          BY <3>4, <5>3, <5>4 DEF DeployInv, Threads, Done, Full
      <4>3. QED
        BY <4>1, <4>2
    <3>5. QED
      BY <3>2, <3>4
  <2>4. /\ file \in [whole: BOOLEAN, at: Addresses] /\ mem \in Addresses
        /\ trouble \in 0 .. MaxTrouble /\ missed \subseteq {"early", "late"}
    BY DEF DeployInv, TypeOK
  <2> HIDE DEF fatal, exit
  <2>5. QED
    BY <1>1, <1>3, <2>1, <2>2, <2>3, <2>4, NobodyIdle, EndKeeps DEF Full
<1>7. CASE ~last
  <2>1. todo' = Tail(todo) /\ step' = step /\ command'.exit = command.exit
        /\ command' = [command EXCEPT !.exit = command.exit]
    BY <1>7 DEF WaveEnds
  <2>2. command' = command
    BY <2>1 DEF DeployInv, TypeOK
  <2> DEFINE t == Tail(todo)
  <2>3. /\ t \in Seq(Wave) /\ t # <<>> /\ t[1].act # "save"
        /\ PlanFits(command.kind, command.only, command.parallel, t)
        /\ \A act, s : ToCome(act, s) => (todo[1].act = act /\ s \in todo[1].stacks) \/ Among(t, act, s)
        /\ CollectorShown(todo) => todo[1].act = "collector" \/ CollectorShown(t)
    BY <1>2, <1>7, TailFits
  <2> HIDE DEF t
  <2>4. todo' = t
    BY <2>1 DEF t
  <2>5. TypeOK'
    BY <1>1, <1>3, <2>1, <2>2, <2>3, <2>4 DEF DeployInv, TypeOK
  <2>6. Planned'
    <3>1. PlanFits(command.kind, command.only, command.parallel, todo)'
      BY <1>1, <2>2, <2>3, <2>4
      DEF PlanFits, Fit, InOrder, Selected, OutputsAtEnd, CollectorShown, OneEach
    <3>2. QED
      BY <1>1, <2>2, <2>3, <2>4, <3>1 DEF DeployInv, Planned, Running
  <2>7. Threads'
    BY <1>1, <1>5, <2>1, <2>2 DEF DeployInv, Threads, InHand, Done, Selected
  <2>8. DeployedSoFar'
    <3> SUFFICES ASSUME Full("deploy"), NEW s \in Needed
                 PROVE  cloud[s] = "complete" \/ Among(t, "deploy", s)
      BY <1>1, <2>2, <2>4 DEF DeployedSoFar, Full, Needed, Selected, ToCome
    <3>1. s \in Stacks /\ s \in Selected(profile) \ Builders /\ s # "websearch"
      BY SelectedStacks DEF Needed
    <3>2. cloud[s] = "complete" \/ ToCome("deploy", s)
      BY <1>1 DEF DeployInv, DeployedSoFar, Going, Running
    <3>3. CASE todo[1].act = "deploy" /\ s \in todo[1].stacks
      <4>1. step[s] # "failed"
        BY <1>2, <1>7, <3>1, <3>3 DEF Failed
      <4>2. step[s] = "ok"
        BY <1>1, <1>2, <3>3, <4>1
      <4>3. QED
        BY <3>1, <4>2 DEF DeployInv, Threads, Done, Full
    <3>4. QED
      BY <2>3, <3>2, <3>3
  <2>9. DestroyedSoFar'
    <3> SUFFICES ASSUME Full("destroy"), NEW s \in Covered(profile)
                 PROVE  cloud[s] = "absent" \/ failures' # {} \/ Among(t, "destroy", s)
      BY <1>1, <2>2, <2>4 DEF DestroyedSoFar, Full, Covered, ToCome
    <3>1. s \in Stacks
      BY DEF Covered
    <3>2. cloud[s] = "absent" \/ failures # {} \/ ToCome("destroy", s)
      BY <1>1 DEF DeployInv, DestroyedSoFar, Going, Running
    <3>3. CASE todo[1].act = "destroy" /\ s \in todo[1].stacks
      <4>1. step[s] = "failed" => failures' # {}
        BY <1>1, <1>2, <3>3 DEF Recorded, Failed
      <4>2. step[s] = "ok" => cloud[s] = "absent"
        BY <3>1 DEF DeployInv, Threads, Done, Full
      <4>3. QED
        BY <1>1, <1>2, <3>3, <4>1, <4>2
    <3>4. QED
      BY <1>1, <2>3, <3>2, <3>3
  <2>10. step["websearch"] # "write" /\ step["monitoring"] # "write"
    BY <1>5 DEF Stacks, Active
  <2>11. ~Saving /\ ~Saving'
    BY <1>1, <1>2, <2>3, <2>4 DEF Saving, Ends
  <2>12. Reported' /\ FileSoFar'
    BY <1>1, <2>1, <2>2, <2>10, <2>11 DEF DeployInv, Reported, FileSoFar, Full, Going, Running, Central
  <2>13. AddressSafe => AddressSafe'
    BY <1>1, <2>1, <2>10, <2>11 DEF AddressSafe
  <2>14. EarlySoFar'
    <3> SUFFICES ASSUME Full("deploy"), Central(profile), ~command.parallel, "early" \notin missed,
                        step["monitoring"] = "ok" \/ ~Among(t, "deploy", "monitoring")
                 PROVE  AddressSafe
      BY <1>1, <2>1, <2>2, <2>4, <2>10, <2>13 DEF EarlySoFar, Full, Central, ToCome
    <3>1. step["monitoring"] = "ok" \/ ~ToCome("deploy", "monitoring")
      <4>1. CASE todo[1].act = "deploy" /\ "monitoring" \in todo[1].stacks
        <5>1. step["monitoring"] # "failed"
          BY <1>2, <1>7, <4>1 DEF Failed
        <5>2. QED
          BY <1>1, <1>2, <4>1, <5>1
      <4>2. QED
        BY <2>3, <4>1
    <3>2. QED
      BY <1>1, <3>1 DEF DeployInv, EarlySoFar, Going, Running
  <2>15. LateSoFar'
    <3>1. command.kind = "deploy" => CollectorShown(todo)
      BY <1>1, <1>2, ShownLater
    <3>2. command.kind = "deploy" => CollectorShown(t)
      BY <1>1, <1>2, <2>3, <3>1 DEF Ends, Shown
    <3>3. QED
      BY <2>2, <2>4, <3>2 DEF LateSoFar, Full, CollectorShown
  <2>16. QED
    BY <2>5, <2>6, <2>7, <2>8, <2>9, <2>12, <2>14, <2>15 DEF DeployInv
<1>8. QED
  BY <1>6, <1>7

LEMMA InterruptKeeps ==
    ASSUME DeployInv, Interrupt
    PROVE  DeployInv'
<1>1. /\ file \in [whole: BOOLEAN, at: Addresses] /\ mem \in Addresses
      /\ failures \subseteq Stacks /\ missed \subseteq {"early", "late"}
  BY DEF DeployInv, TypeOK
<1>2. QED
  BY <1>1, NobodyIdle, EndKeeps, TroubleTyped DEF Interrupt

(* When the outputs are shown, and when they are saved.                    *)
LEMMA AtTheEnd ==
    ASSUME DeployInv, Running, Act \in Ends
    PROVE  /\ todo # <<>> /\ Act = todo[1].act /\ command.kind = "deploy"
           /\ \A s \in Stacks : step[s] \notin Active
           /\ \A s : ~Among(Tail(todo), "deploy", s)
           /\ Full("deploy") =>
                 /\ \A s \in Needed : cloud[s] = "complete"
                 /\ ~ToCome("deploy", "monitoring")
           /\ Full("deploy") /\ Central(profile) /\ Act = "collector" => Found
<1>1. todo # <<>> /\ Act = todo[1].act /\ 1 \in 1 .. Len(todo)
  BY WaveInHand DEF DeployInv, TypeOK, Planned, Act
<1>2. \A s \in Stacks : step[s] \notin Active
  BY <1>1, NobodyAtWork
<1>3. command.kind = "deploy"
  <2>1. Fit(command.kind, command.only, todo[1])
    BY <1>1 DEF DeployInv, Planned, PlanFits
  <2>2. command.kind \in {"none", "deploy", "destroy"} /\ command.kind # "destroy"
    BY <1>1, <2>1 DEF Fit, Ends, Shown, DeployInv, TypeOK
  <2>3. command.kind # "none"
    BY DEF DeployInv, Planned
  <2>4. QED
    BY <2>2, <2>3
<1>4. Full("deploy") => (\A s \in Needed : cloud[s] = "complete") /\ ~ToCome("deploy", "monitoring")
  BY <1>1, AllDeployed DEF Going, Running
<1>5. \A s : ~Among(Tail(todo), "deploy", s)
  <2>1. \A i \in 1 .. Len(todo) : todo[i].act \in Ends
    BY <1>1, <1>3 DEF DeployInv, Planned, PlanFits, OutputsAtEnd
  <2>2. \A s : ~ToCome("deploy", s)
    BY <2>1 DEF ToCome, Among, Ends, Shown
  <2>3. QED
    BY <1>1, <2>2, TailFits
<1>6. Full("deploy") /\ Central(profile) /\ Act = "collector" => Found
  BY <1>4, CollectorWanted DEF Found, HasOutputs, Central
<1>7. QED
  BY <1>1, <1>2, <1>3, <1>4, <1>5, <1>6

(* One output less to show.                                                *)
LEMMA ShowsKeeps ==
    ASSUME DeployInv, Running, Act \in Ends, Shows,
           UNCHANGED <<profile, region, prior, cloud, step, held, failures>>,
           file' \in [whole: BOOLEAN, at: Addresses], mem' \in Addresses,
           missed' \subseteq {"early", "late"}, trouble' \in 0 .. MaxTrouble,
           FileSoFar', EarlySoFar', LateSoFar'
    PROVE  DeployInv'
<1>1. /\ todo # <<>> /\ todo[1].act \in Ends /\ command.kind = "deploy"
      /\ \A s \in Stacks : step[s] \notin Active
      /\ Full("deploy") => \A s \in Needed : cloud[s] = "complete"
  BY AtTheEnd
<1>2. step \in [Stacks -> Steps] /\ failures \subseteq Stacks
  BY DEF DeployInv, TypeOK
<1>3. CASE Tail(todo) = <<>>
  <2>1. todo' = <<>> /\ command' = [command EXCEPT !.exit = "zero"]
    BY <1>3 DEF Shows
  <2>2. QED
    BY <1>1, <1>2, <2>1, EndKeeps DEF Full
<1>4. CASE Tail(todo) # <<>>
  <2> DEFINE t == Tail(todo)
  <2>1. todo' = t /\ command' = [command EXCEPT !.exit = command.exit]
    BY <1>4 DEF Shows
  <2>2. command' = command
    BY <2>1 DEF DeployInv, TypeOK
  <2>3. t # <<>> /\ t \in Seq(Wave) /\ PlanFits(command.kind, command.only, command.parallel, t)
    BY <1>1, <1>4, TailFits
  <2> HIDE DEF t
  <2>4. TypeOK'
    BY <2>1, <2>2, <2>3 DEF DeployInv, TypeOK
  <2>5. Planned'
    BY <1>1, <2>1, <2>2, <2>3
    DEF Planned, Running, PlanFits, Fit, InOrder, Selected, OutputsAtEnd, CollectorShown, OneEach
  <2>6. Threads'
    BY <1>1, <2>2 DEF DeployInv, Threads, InHand, Done, Selected
  <2>7. DeployedSoFar' /\ DestroyedSoFar' /\ Reported'
    BY <1>1, <2>2 DEF DeployedSoFar, DestroyedSoFar, Reported, Full, Needed, Selected
  <2>8. QED
    BY <2>4, <2>5, <2>6, <2>7 DEF DeployInv
<1>5. QED
  BY <1>3, <1>4

LEMMA PassOverKeeps ==
    ASSUME DeployInv, PassOver
    PROVE  DeployInv'
<1>1. /\ Running /\ Act \in Shown /\ Act \in Ends /\ Shows
      /\ Trouble \/ NoTrouble
      /\ UNCHANGED <<profile, region, prior, file, cloud, step, mem, held, failures>>
  BY DEF PassOver, Ends
<1>2. /\ missed \subseteq missed' /\ missed' \subseteq {"early", "late"}
      /\ Act = "collector" /\ Found => "late" \in missed'
  BY DEF PassOver, Misses, DeployInv, TypeOK
<1>3. /\ todo # <<>> /\ Act = todo[1].act
      /\ \A s \in Stacks : step[s] \notin Active
      /\ Full("deploy") => ~ToCome("deploy", "monitoring")
      /\ Full("deploy") /\ Central(profile) /\ Act = "collector" => Found
  BY <1>1, AtTheEnd
<1>4. step["websearch"] # "write" /\ step["monitoring"] # "write" /\ ~Saving
  BY <1>1, <1>3 DEF Stacks, Active, Saving, Shown
<1>5. command'.kind = command.kind /\ command'.only = command.only /\ command'.parallel = command.parallel
  BY <1>1 DEF Shows, DeployInv, TypeOK
<1>6. AddressSafe => AddressSafe'
  BY <1>1, <1>4 DEF AddressSafe
<1>7. FileSoFar'
  BY <1>1, <1>2, <1>4, <1>5 DEF DeployInv, FileSoFar, Full, Going, Running, Central
<1>8. EarlySoFar'
  BY <1>1, <1>2, <1>3, <1>4, <1>5, <1>6 DEF DeployInv, EarlySoFar, Full, Going, Running, Central
<1>9. LateSoFar'
  <2> SUFFICES ASSUME Full("deploy"), Central(profile), "late" \notin missed',
                      ~CollectorShown(Tail(todo))
               PROVE  AddressSafe
    BY <1>1, <1>5, <1>6 DEF LateSoFar, Full, Central, Shows, CollectorShown
  <2>1. ~CollectorShown(todo)
    BY <1>2, <1>3, TailFits
  <2>2. QED
    BY <1>1, <1>2, <2>1 DEF DeployInv, LateSoFar, Going, Running
<1>10. file \in [whole: BOOLEAN, at: Addresses] /\ mem \in Addresses
  BY DEF DeployInv, TypeOK
<1>11. QED
  BY <1>1, <1>2, <1>7, <1>8, <1>9, <1>10, ShowsKeeps, TroubleTyped

LEMMA WriteOutputsKeeps ==
    ASSUME DeployInv, WriteOutputs
    PROVE  DeployInv'
<1>1. /\ Running /\ Act = "save" /\ Act \in Ends /\ Shows
      /\ file' = [whole |-> TRUE, at |-> mem]
      /\ UNCHANGED <<profile, region, prior, cloud, step, mem, held, failures, missed, trouble>>
  BY DEF WriteOutputs, Ends
<1>2. /\ todo # <<>> /\ Act = todo[1].act
      /\ \A s \in Stacks : step[s] \notin Active
      /\ Full("deploy") => ~ToCome("deploy", "monitoring")
  BY <1>1, AtTheEnd
<1>3. step["websearch"] # "write" /\ step["monitoring"] # "write"
  BY <1>2 DEF Stacks, Active
<1>4. command'.kind = command.kind /\ command'.only = command.only /\ command'.parallel = command.parallel
  BY <1>1 DEF Shows, DeployInv, TypeOK
<1>5. AddressSafe => AddressSafe'
  BY <1>1, <1>3 DEF AddressSafe
<1>6. FileSoFar'
  BY <1>1, <1>3 DEF FileSoFar
<1>7. EarlySoFar'
  BY <1>1, <1>2, <1>3, <1>4, <1>5 DEF DeployInv, EarlySoFar, Full, Going, Running, Central
<1>8. LateSoFar'
  <2> SUFFICES ASSUME Full("deploy"), Central(profile), "late" \notin missed,
                      ~CollectorShown(Tail(todo))
               PROVE  AddressSafe
    BY <1>1, <1>4, <1>5 DEF LateSoFar, Full, Central, Shows, CollectorShown
  <2>1. ~CollectorShown(todo)
    BY <1>1, <1>2, TailFits
  <2>2. QED
    BY <1>1, <2>1 DEF DeployInv, LateSoFar, Going, Running
<1>9. /\ file' \in [whole: BOOLEAN, at: Addresses] /\ mem \in Addresses
      /\ missed \subseteq {"early", "late"} /\ trouble \in 0 .. MaxTrouble
  BY <1>1 DEF DeployInv, TypeOK
<1>10. QED
  BY <1>1, <1>6, <1>7, <1>8, <1>9, ShowsKeeps

LEMMA OpenOutputsKeeps ==
    ASSUME DeployInv, OpenOutputs
    PROVE  DeployInv'
<1> DEFINE w == [act |-> "save", stacks |-> {}]
           t == Tail(todo)
<1>1. /\ Running /\ Act \in Ends
      /\ todo' = <<w>> \o t
      /\ mem' = IF Act = "collector" THEN [mem EXCEPT !.endpoint = "current"] ELSE mem
      /\ file' = [file EXCEPT !.whole = FALSE]
      /\ UNCHANGED <<profile, region, prior, cloud, command, step, held, failures, missed, trouble>>
  BY DEF OpenOutputs, Ends
<1>2. /\ todo # <<>> /\ Act = todo[1].act /\ command.kind = "deploy"
      /\ \A s \in Stacks : step[s] \notin Active
      /\ \A s : ~Among(t, "deploy", s)
      /\ Full("deploy") => (\A s \in Needed : cloud[s] = "complete") /\ ~ToCome("deploy", "monitoring")
  BY <1>1, AtTheEnd
<1>3. /\ t \in Seq(Wave) /\ PlanFits("deploy", command.only, command.parallel, t)
      /\ CollectorShown(todo) => Act = "collector" \/ CollectorShown(t)
      /\ t # <<>> => t[1].act # "save" /\ t[1].act \in Ends
  BY <1>1, <1>2, TailFits
<1>4. w \in Wave /\ w.act = "save" /\ w.stacks = {}
  BY DEF Wave
<1> HIDE DEF w, t
<1>5. /\ todo' \in Seq(Wave) /\ Len(t) \in Nat /\ Len(todo') = Len(t) + 1
      /\ todo' # <<>> /\ todo'[1] = w
      /\ \A i \in 1 .. Len(t) : i + 1 \in 1 .. Len(todo') /\ todo'[i + 1] = t[i]
      /\ \A i \in 2 .. Len(todo') : i - 1 \in 1 .. Len(t) /\ todo'[i] = t[i - 1]
  <2>1. <<w>> \in Seq(Wave) /\ Len(<<w>>) = 1 /\ <<w>>[1] = w
    BY <1>4, OneWave
  <2> DEFINE one == <<w>>
             c == one \o t
  <2>2. one \in Seq(Wave) /\ Len(one) = 1 /\ one[1] = w
    BY <2>1
  <2> HIDE DEF one
  <2>3. /\ c \in Seq(Wave) /\ Len(t) \in Nat /\ Len(c) = Len(one) + Len(t)
        /\ \A i \in 1 .. Len(one) : c[i] = one[i]
        /\ \A i \in 1 .. Len(t) : Len(one) + i \in 1 .. Len(c) /\ c[Len(one) + i] = t[i]
    BY <1>3, <2>2, Concatenated
  <2>4. todo' = c
    BY <1>1 DEF one
  <2> HIDE DEF c
  <2>5. c # <<>>
    BY <2>2, <2>3, EmptySeq
  <2>6. \A i \in 1 .. Len(t) : i + 1 \in 1 .. Len(c) /\ c[i + 1] = t[i]
    BY <2>2, <2>3
  <2>7. \A i \in 2 .. Len(c) : i - 1 \in 1 .. Len(t) /\ c[i] = t[i - 1]
    BY <2>2, <2>3, <2>6
  <2>8. QED
    BY <2>2, <2>3, <2>4, <2>5, <2>6, <2>7
<1>6. \A i \in 1 .. Len(t) : t[i].act \in Ends /\ t[i].act # "save"
  <2> SUFFICES ASSUME NEW i \in 1 .. Len(t) PROVE t[i].act \in Ends /\ t[i].act # "save"
    OBVIOUS
  <2>1. t # <<>> /\ 1 \in 1 .. Len(t) /\ 1 <= i
    BY <1>5, EmptySeq
  <2>2. t[i].act \in Ends
    BY <1>3, <2>1 DEF PlanFits, OutputsAtEnd
  <2>3. i = 1 \/ i \in 2 .. Len(t)
    BY <1>5
  <2>4. QED
    BY <1>3, <2>1, <2>2, <2>3 DEF PlanFits
<1>7. \A i \in 1 .. Len(todo') : i = 1 \/ i \in 2 .. Len(todo')
  BY <1>5
<1>8. \A i \in 1 .. Len(todo') : todo'[i].act \in Ends /\ todo'[i].act # "deploy"
  BY <1>4, <1>5, <1>6, <1>7 DEF Ends, Shown
<1>9. PlanFits("deploy", command.only, command.parallel, todo')
  <2>1. \A i \in 1 .. Len(todo') : Fit("deploy", command.only, todo'[i])
    <3>1. Fit("deploy", command.only, w)
      BY <1>4 DEF Fit, Ends, Shown
    <3>2. \A i \in 1 .. Len(t) : Fit("deploy", command.only, t[i])
      BY <1>3 DEF PlanFits
    <3>3. QED
      BY <1>5, <1>7, <3>1, <3>2
  <2>2. \A i \in 2 .. Len(todo') : todo'[i].act # "save"
    BY <1>5, <1>6
  <2>3. Len(todo') \in 1 .. Len(todo')
    BY <1>5
  <2>4. OutputsAtEnd(todo')
    BY <1>8, <2>3 DEF OutputsAtEnd
  <2>5. OneEach(todo') /\ InOrder(todo')
    BY <1>8 DEF OneEach, InOrder
  <2>6. QED
    BY <2>1, <2>2, <2>4, <2>5 DEF PlanFits
<1>10. mem' \in Addresses /\ (Act = "collector" => mem'.endpoint = "current")
  BY <1>1 DEF DeployInv, TypeOK, Addresses
<1>11. file' \in [whole: BOOLEAN, at: Addresses]
  BY <1>1 DEF DeployInv, TypeOK
<1>12. TypeOK'
  BY <1>1, <1>5, <1>10, <1>11 DEF DeployInv, TypeOK
<1>13. Planned'
  <2>1. PlanFits(command.kind, command.only, command.parallel, todo)'
    <3>1. UNCHANGED <<profile, region, command>> /\ command.kind = "deploy"
      BY <1>1, <1>2
    <3>2. QED
      BY <1>9, <3>1 DEF PlanFits, Fit, InOrder, Selected, OutputsAtEnd, CollectorShown, OneEach
  <2>2. QED
    BY <1>1, <1>2, <1>5, <2>1 DEF Planned, Running
<1>14. Threads'
  BY <1>1, <1>2 DEF DeployInv, Threads, InHand, Done, Selected
<1>15. DeployedSoFar' /\ DestroyedSoFar' /\ Reported'
  BY <1>1, <1>2 DEF DeployedSoFar, DestroyedSoFar, Reported, Full, Needed, Selected
<1>16. step["websearch"] # "write" /\ step["monitoring"] # "write" /\ Saving'
  BY <1>2, <1>4, <1>5 DEF Stacks, Active, Saving
<1>17. AddressSafe \/ Act = "collector" => AddressSafe'
  BY <1>1, <1>10, <1>16 DEF AddressSafe
<1>18. FileSoFar'
  BY <1>1, <1>16 DEF FileSoFar
<1>19. EarlySoFar'
  BY <1>1, <1>2, <1>16, <1>17 DEF DeployInv, EarlySoFar, Full, Going, Running, Central
<1>20. LateSoFar'
  <2>1. CollectorShown(t) => CollectorShown(todo')
    BY <1>5 DEF CollectorShown
  <2> SUFFICES ASSUME Full("deploy"), Central(profile), "late" \notin missed
               PROVE  CollectorShown(todo') \/ AddressSafe'
    BY <1>1 DEF LateSoFar, Full, Central, CollectorShown
  <2>2. CollectorShown(todo) \/ AddressSafe
    BY <1>1 DEF DeployInv, LateSoFar, Going, Running
  <2>3. QED
    BY <1>3, <1>17, <2>1, <2>2
<1>21. QED
  BY <1>12, <1>13, <1>14, <1>15, <1>18, <1>19, <1>20 DEF DeployInv

-----------------------------------------------------------------------------
LEMMA ThreadStepKeeps ==
    ASSUME DeployInv, NEW s \in Stacks, Thread(s)
    PROVE  DeployInv'
BY StartDeployKeeps, RefuseDeployKeeps, RecreateKeeps, DeployEndsKeeps, WaitTimeoutKeeps,
   StartDeleteKeeps, DeleteEndsKeeps, OpenProfileKeeps, WriteProfileKeeps, OutputsUnreadKeeps,
   SaveFailsKeeps DEF Thread

LEMMA StutterKeeps ==
    ASSUME DeployInv, UNCHANGED vars
    PROVE  DeployInv'
<1>1. UNCHANGED <<profile, region, prior, file, cloud, command, todo, step, mem, held, failures,
                  missed, trouble>>
  BY DEF vars
<1>2. Planned' /\ Threads'
  BY <1>1 DEF DeployInv, Planned, Running, PlanFits, Fit, InOrder, Threads, InHand, Done, Selected,
              OutputsAtEnd, CollectorShown, OneEach
<1>3. DeployedSoFar' /\ DestroyedSoFar' /\ Reported'
  BY <1>1 DEF DeployInv, DeployedSoFar, DestroyedSoFar, Reported, Full, Going, Needed, Selected,
              Covered, ToCome, Among
<1>4. FileSoFar' /\ EarlySoFar' /\ LateSoFar'
  BY <1>1 DEF DeployInv, FileSoFar, EarlySoFar, LateSoFar, Full, Going, Saving, Central, AddressSafe,
              ToCome, Among, CollectorShown
<1>5. QED
  BY <1>1, <1>2, <1>3, <1>4 DEF DeployInv, TypeOK

LEMMA DeployInvariant == Spec => []DeployInv
<1>1. DeployInv /\ [Next]_vars => DeployInv'
  <2> SUFFICES ASSUME DeployInv, [Next]_vars PROVE DeployInv'
    OBVIOUS
  <2>1. ASSUME NEW parallel \in BOOLEAN, DeployAll(parallel) PROVE DeployInv'
    BY <2>1, DeployAllKeeps
  <2>2. ASSUME NEW s \in Stacks, DeployOne(s) \/ Thread(s) \/ Settles(s) PROVE DeployInv'
    BY <2>2, DeployOneKeeps, ThreadStepKeeps, SettlesKeeps
  <2>3. ASSUME NEW only \in Stacks \cup {"all"}, Destroy(only) PROVE DeployInv'
    BY <2>3, DestroyKeeps
  <2>4. ASSUME NEW c \in Profiles, Reconfigure(c) PROVE DeployInv'
    BY <2>4, ReconfigureKeeps
  <2>5. CASE WaveEnds
    BY <2>5, WaveEndsKeeps
  <2>6. CASE OpenOutputs
    BY <2>6, OpenOutputsKeeps
  <2>7. CASE WriteOutputs
    BY <2>7, WriteOutputsKeeps
  <2>8. CASE Interrupt
    BY <2>8, InterruptKeeps
  <2>9. CASE UNCHANGED vars
    BY <2>9, StutterKeeps
  <2>10. CASE PassOver
    BY <2>10, PassOverKeeps
  <2>11. QED
    BY <2>1, <2>2, <2>3, <2>4, <2>5, <2>6, <2>7, <2>8, <2>9, <2>10 DEF Next
<1>2. QED
  BY <1>1, InitKeeps, PTL DEF Spec

-----------------------------------------------------------------------------
(* The statuses of the stacks, the waves to come, the steps of the threads *)
(* and the addresses in the profile's file stay what they may be.          *)
THEOREM DeployTypeCorrect == Spec => []TypeOK
<1>1. DeployInv => TypeOK
  BY DEF DeployInv
<1>2. QED
  BY <1>1, DeployInvariant, PTL

(* A full deploy, in waves or one by one, works on a stack only when those *)
(* whose outputs it reads are complete and none of them is still to come.  *)
THEOREM DeploySettledFirst == Spec => []SettledFirst
<1>1. DeployInv => SettledFirst
  <2> SUFFICES ASSUME DeployInv, Running, Full("deploy"), NEW s \in Stacks,
                      step[s] \in {"clearing", "waiting"}, Act = "deploy",
                      NEW d \in DependsOn(s) \cap Selected(profile)
               PROVE  /\ \A i \in DOMAIN todo : d \notin todo[i].stacks
                      /\ d # "websearch" => cloud[d] = "complete"
    BY DEF SettledFirst, Full
  <2>1. /\ todo[1].act = "deploy" /\ s \in todo[1].stacks /\ 1 \in 1 .. Len(todo)
    BY AtWork DEF Active
  <2>2. DOMAIN todo = 1 .. Len(todo)
    BY LenProperties DEF DeployInv, TypeOK
  <2>3. \A i \in 1 .. Len(todo) : d \notin todo[i].stacks
    BY <2>1 DEF DeployInv, Planned, PlanFits, InOrder, Full
  <2>4. d # "websearch" => cloud[d] = "complete"
    <3>1. d # "websearch" => d \in Needed
      BY Dependencies DEF Needed, Builders
    <3>2. QED
      BY <2>3, <3>1 DEF DeployInv, DeployedSoFar, Going, Running, ToCome, Among
  <2>5. QED
    BY <2>2, <2>3, <2>4
<1>2. QED
  BY <1>1, DeployInvariant, PTL

(* A "destroy" that reports success has left none of the stacks it did not *)
(* skip, whatever was refused, failed or took too long.                    *)
THEOREM DestroyTellsOfAll == Spec => []DestroyTells
<1>1. DeployInv => DestroyTells
  <2> SUFFICES ASSUME DeployInv, Full("destroy"), command.exit = "zero", NEW s \in Covered(profile)
               PROVE  cloud[s] = "absent"
    BY DEF DestroyTells, Full
  <2>1. failures = {} /\ todo = <<>>
    BY DEF DeployInv, Reported, Planned, Running, Full
  <2>2. ~ToCome("destroy", s)
    BY <2>1, NoWaves DEF ToCome, Among
  <2>3. QED
    BY <2>1, <2>2 DEF DeployInv, DestroyedSoFar, Going
<1>2. QED
  BY <1>1, DeployInvariant, PTL

(* A full deploy that reports success has left a profile that can be read, *)
(* with the address of the collector that runs now, unless reading or      *)
(* saving it failed untold: the second time, or, if the stacks came one    *)
(* after the other, both times.                                            *)
THEOREM DeployEndpointSaved == Spec => []EndpointSaved
<1>1. DeployInv => EndpointSaved
  <2> SUFFICES ASSUME DeployInv, Full("deploy"), command.exit = "zero"
               PROVE  IF Central(profile)
                      THEN "late" \notin missed \/ (~command.parallel /\ "early" \notin missed) =>
                              file.whole /\ file.at.endpoint = "current"
                      ELSE "early" \notin missed => file.whole
    BY DEF EndpointSaved, Full
  <2>1. todo = <<>> /\ Going
    BY DEF DeployInv, Planned, Running, Going
  <2>2. step["websearch"] # "write" /\ ~Saving
    BY <2>1, NobodyAtWork DEF Stacks, Active, Saving
  <2>3. AddressSafe => file.whole /\ file.at.endpoint = "current"
    BY <2>2 DEF AddressSafe
  <2>4. ~CollectorShown(todo) /\ ~ToCome("deploy", "monitoring")
    BY <2>1, NoWaves DEF CollectorShown, ToCome, Among
  <2>5. QED
    BY <2>1, <2>2, <2>3, <2>4 DEF DeployInv, FileSoFar, EarlySoFar, LateSoFar
<1>2. QED
  BY <1>1, DeployInvariant, PTL

(* A deploy never deletes a stack the profile selects, other than a failed *)
(* creation it is about to repeat: not even through its sweep.             *)
THEOREM DeployWantedSpared == Spec => WantedSpared
<1> DEFINE Spared == \A s \in Selected(profile) :
               command.kind = "deploy" /\ cloud'[s] = "deleting" => cloud[s] \in {"deleting", "rollback"}
<1>1. DeployInv /\ [Next]_vars => [Spared]_vars
  <2> SUFFICES ASSUME DeployInv, Next, NEW s \in Selected(profile),
                      command.kind = "deploy", cloud'[s] = "deleting",
                      cloud[s] \notin {"deleting", "rollback"}
               PROVE  FALSE
    OBVIOUS
  <2>1. s \in Stacks /\ cloud \in [Stacks -> Statuses] /\ cloud' # cloud
    BY SelectedStacks DEF DeployInv, TypeOK
  <2>2. ASSUME NEW r \in Stacks, Thread(r) \/ Settles(r)
        PROVE  FALSE
    <3>1. CASE StartDelete(r)
      <4>1. r = s
        BY <2>1, <3>1 DEF StartDelete, Becomes
      <4>2. s \in todo[1].stacks /\ todo[1].act \notin {"deploy"} \cup Ends
            /\ Fit(command.kind, command.only, todo[1])
        BY <3>1, <4>1, AtWork DEF StartDelete
      <4>3. QED
        BY <4>2 DEF Fit
    <3>2. CASE StartDeploy(r)
      BY <2>1, <3>2 DEF StartDeploy, Becomes
    <3>3. CASE \/ RefuseDeploy(r) \/ WaitTimeout(r) \/ OpenProfile(r) \/ WriteProfile(r)
               \/ OutputsUnread(r) \/ SaveFails(r)
      BY <2>1, <3>3 DEF RefuseDeploy, WaitTimeout, OpenProfile, WriteProfile, OutputsUnread, SaveFails
    <3>4. CASE Recreate(r) \/ DeployEnds(r)
      BY <2>1, <3>4 DEF Recreate, DeployEnds, Becomes
    <3>5. CASE DeleteEnds(r)
      BY <2>1, <3>5 DEF DeleteEnds, Vanishes, Becomes
    <3>6. CASE Settles(r)
      BY <2>1, <3>6 DEF Settles, Vanishes, Becomes, Busy
    <3>7. QED
      BY <2>2, <3>1, <3>2, <3>3, <3>4, <3>5, <3>6 DEF Thread
  <2>3. QED
    BY <2>1, <2>2
    DEF Next, DeployAll, DeployOne, Destroy, Give, Reconfigure, WaveEnds, OpenOutputs, PassOver,
        WriteOutputs, Interrupt
<1>2. QED
  BY <1>1, DeployInvariant, PTL DEF Spec, WantedSpared

=============================================================================
