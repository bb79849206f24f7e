--------------------------- MODULE MCBitBucketFS ---------------------------
(* Model-checking instance of BitBucketFS: the path arguments used by   *)
(* the runs.                                                            *)
EXTENDS BitBucketFS, TLC

P(ws, form, dot, leaf) == [ws |-> ws, form |-> form, dot |-> dot, leaf |-> leaf]

(* "/a" and "/b" *)
PlainNames == {P(FALSE, "root", FALSE, "a"), P(FALSE, "root", FALSE, "b")}

(* "/a", "/a/." and "/b" *)
DottedNames == PlainNames \cup {P(FALSE, "root", TRUE, "a")}

(* "~/a", "<home>/a" and " /b": the three spellings the two cleaners   *)
(* disagree on                                                          *)
TildeNames == {P(FALSE, "tilde", FALSE, "a"), P(FALSE, "home", FALSE, "a"),
               P(TRUE, "root", FALSE, "b")}

(* "/a", "/b" and "~/a": links that resolve, and a spelling that Stat  *)
(* looks up elsewhere than every other operation                        *)
RefineNames == PlainNames \cup {P(FALSE, "tilde", FALSE, "a")}

(* " " and "/a": a target name that trims to empty *)
BlankNames == {P(TRUE, "blank", FALSE, "a"), P(FALSE, "root", FALSE, "a")}

(* The node type createNode builds, and both of its choices *)
Functional == {"functional"}
BothLevels == {"functional", "lite"}

(* Mkdir(name, 0777) *)
StdPerms == {ALL_PERMS}

NoRenameOps == AllOps \ {"Rename"}

EveryOp == AllOps

(* Every operation that never removes or replaces an entry *)
AddOnlyOps == AllOps \ {"Remove", "Rename", "WithFakeFiles", "WithFakeDirectories"}

(* "/a", "/b", "~/a", "<home>/a" and " /b" *)
MixedNames == PlainNames \cup TildeNames

ProcSymmetry == Permutations(Procs)
=============================================================================
