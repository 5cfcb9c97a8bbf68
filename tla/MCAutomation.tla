---------------------------- MODULE MCAutomation ----------------------------
(* Instances of Automation: the texts messages may have, and whose they are. *)
EXTENDS Automation, TLC

CONSTANTS mother, sister, resume, marksheet

In(c, kind, number, files) ==
    [chat |-> c, kind |-> kind, number |-> number, mentions |-> files]

Yes(c) == In(c, "yes", 0, {})
Ask(c, files) == In(c, "request", 0, files)
Talk(c, files) == In(c, "talk", 0, files)
Pick(c, n) == In(c, "talk", n, {})

\* Requests and confirmations only.
FileTexts == {Yes(mother), Ask(mother, {})}

\* The same, and talk that names a file.
TalkTexts == FileTexts \cup {Talk(mother, {resume})}

\* Requests, and answers: a "yes" that two offered files leave open, one that
\* picks one of them, and one in another conversation.
PickTexts == {Ask(mother, {}), Yes(mother), Pick(mother, 1), Pick(mother, 2), Pick(sister, 1)}

\* Every environment.
AllEnvironments == [mode : DefaultModes, killSwitch : BOOLEAN]

\* The two files are interchangeable where Texts treats them alike.
FileSymmetry == Permutations({resume, marksheet})
=============================================================================
