---------------------------- MODULE MCPackaging ----------------------------
EXTENDS Packaging

PageSetup == [codebuild |-> TRUE, zero |-> FALSE, monitoring |-> TRUE, distribution |-> "page"]
ArchiveSetup == [codebuild |-> TRUE, zero |-> FALSE, monitoring |-> FALSE, distribution |-> "archive"]
LocalSetup == [codebuild |-> FALSE, zero |-> FALSE, monitoring |-> TRUE, distribution |-> "archive"]
ZeroSetup == [codebuild |-> FALSE, zero |-> TRUE, monitoring |-> FALSE, distribution |-> "page"]
MCProfiles == {"A", "B"}
MCSetups == {[A |-> PageSetup, B |-> LocalSetup], [A |-> ArchiveSetup, B |-> ZeroSetup]}
MCRequests == {{"windows", "mac"}, {"windows"}}
=============================================================================
