----------------------------- MODULE SkillLinks -----------------------------
(***************************************************************************)
(* scripts/install_skill_links.py: one symbolic link to the canonical skill*)
(* for each of three harnesses, the old one removed first.  The script may *)
(* be killed between any two of its system calls and run again, and the    *)
(* home directory belongs to other programs too.                           *)
(***************************************************************************)
EXTENDS Naturals, Sequences

VARIABLES
    source,     \* does the canonical SKILL.md exist?
    at,         \* what is at each destination
    pc,         \* the script's next call, or "idle"
    i,          \* the destination it is at
    exit,       \* how its last run ended
    disturbed,  \* has anyone else changed a file since that run began?
    touched     \* destinations changed by others since they were verified

vars == <<source, at, pc, i, exit, disturbed, touched>>

DESTINATIONS == <<".claude", ".cursor", ".codex">>

Harnesses == {DESTINATIONS[n] : n \in DOMAIN DESTINATIONS}

Links == {"ours", "other link", "dangling link"}

\* In the last case the parent of the destination cannot be made either.
Obstacles == {"directory", "no parent"}

Kinds == Links \cup Obstacles \cup {"absent", "file"}

Here == DESTINATIONS[i]

Init ==
    /\ source \in BOOLEAN
    /\ at \in [Harnesses -> Kinds]
    /\ pc = "idle"
    /\ i = 1
    /\ exit = "none"
    /\ disturbed = FALSE
    /\ touched = {}

Fail ==
    /\ pc' = "idle"
    /\ exit' = "failed"

Start ==
    /\ pc = "idle"
    /\ i' = 1
    /\ disturbed' = FALSE
    /\ touched' = {}
    /\ IF source THEN pc' = "look" /\ exit' = "none" ELSE Fail
    /\ UNCHANGED <<source, at>>

\* Mutation: exists() alone, which is false of a link to nowhere.
LookThroughLinks ==
    /\ pc = "look"
    /\ IF at[Here] = "no parent" THEN Fail
       ELSE /\ pc' = IF at[Here] \in {"absent", "dangling link"} THEN "link" ELSE "unlink"
            /\ UNCHANGED exit
    /\ UNCHANGED <<source, at, i, disturbed, touched>>

\* mkdir of the parent; is_symlink() or exists()
Look ==
    /\ pc = "look"
    /\ IF at[Here] = "no parent" THEN Fail
       ELSE /\ pc' = IF at[Here] = "absent" THEN "link" ELSE "unlink"
            /\ UNCHANGED exit
    /\ UNCHANGED <<source, at, i, disturbed, touched>>

\* Mutation: whatever is there is removed.
UnlinkTree ==
    /\ pc = "unlink"
    /\ at' = [at EXCEPT ![Here] = "absent"]
    /\ pc' = "link"
    /\ UNCHANGED <<source, i, exit, disturbed, touched>>

\* unlink() raises on a directory and on nothing.
Unlink ==
    /\ pc = "unlink"
    /\ IF at[Here] \in Links \cup {"file"}
       THEN /\ at' = [at EXCEPT ![Here] = "absent"]
            /\ pc' = "link"
            /\ UNCHANGED exit
       ELSE Fail /\ UNCHANGED at
    /\ UNCHANGED <<source, i, disturbed, touched>>

Link ==
    /\ pc = "link"
    /\ IF at[Here] = "absent"
       THEN /\ at' = [at EXCEPT ![Here] = "ours"]
            /\ pc' = "verify"
            /\ UNCHANGED exit
       ELSE Fail /\ UNCHANGED at
    /\ UNCHANGED <<source, i, disturbed, touched>>

Advance ==
    IF i < Len(DESTINATIONS)
    THEN /\ i' = i + 1
         /\ pc' = "look"
         /\ UNCHANGED exit
    ELSE /\ pc' = "idle"
         /\ exit' = "linked"
         /\ UNCHANGED i

\* Mutation: the link just made is not looked at.
VerifyNothing ==
    /\ pc = "verify"
    /\ Advance
    /\ touched' = touched \ {Here}
    /\ UNCHANGED <<source, at, disturbed>>

\* The path behind the destination is compared, whether it exists or not.
Verify ==
    /\ pc = "verify"
    /\ IF at[Here] = "ours" THEN Advance ELSE Fail /\ UNCHANGED i
    /\ touched' = touched \ {Here}
    /\ UNCHANGED <<source, at, disturbed>>

Kill ==
    /\ pc # "idle"
    /\ pc' = "idle"
    /\ exit' = "killed"
    /\ UNCHANGED <<source, at, i, disturbed, touched>>

Change(h, kind) ==
    /\ at' = [at EXCEPT ![h] = kind]
    /\ disturbed' = TRUE
    /\ touched' = touched \cup {h}
    /\ UNCHANGED <<source, pc, i, exit>>

MoveSource ==
    /\ source' = ~source
    /\ disturbed' = TRUE
    /\ UNCHANGED <<at, pc, i, exit, touched>>

Script == Start \/ Look \/ Unlink \/ Link \/ Verify \/ Kill

Next ==
    \/ Script
    \/ \E h \in Harnesses, kind \in Kinds : Change(h, kind)
    \/ MoveSource

Spec == Init /\ [][Next]_vars

-----------------------------------------------------------------------------
(* Safety.                                                                 *)

\* Exit code 0 means that every harness has the skill, whatever earlier runs
\* left half done, but for links others changed after they were verified.
LinkedMeansLinked ==
    exit = "linked" => \A h \in Harnesses \ touched : at[h] = "ours"

\* A run that nobody disturbs succeeds from whatever killed runs, moved
\* repositories or other tools left, unless the canonical skill is missing or
\* a directory is in the way.
UndisturbedRunSucceeds ==
    exit = "failed" /\ ~disturbed =>
        \/ ~source
        \/ \E h \in Harnesses : at[h] \in Obstacles

\* The script takes nothing away but links and files, and never more than one
\* at a time without its replacement.
RemovalStep ==
    \A h \in Harnesses :
        Script /\ at'[h] # at[h] =>
            /\ at[h] \notin Obstacles
            /\ at'[h] = "absent" =>
                  \A x \in Harnesses \ ({h} \cup touched) :
                      (\E n \in 1 .. i - 1 : DESTINATIONS[n] = x) => at[x] = "ours"

RemovesLinksOnly == [][RemovalStep]_vars
=============================================================================
