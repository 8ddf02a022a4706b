-------------------------- MODULE SkillLinksProofs --------------------------
(***************************************************************************)
(* Proofs about SkillLinks: any number of runs of the script, killed and   *)
(* disturbed anywhere.                                                     *)
(***************************************************************************)
EXTENDS SkillLinks, TLAPS

-----------------------------------------------------------------------------
(* The three destinations are different.                                   *)

Indices == 1 .. 3

LEMMA Destinations ==
    /\ Len(DESTINATIONS) = 3
    /\ DOMAIN DESTINATIONS = Indices
    /\ \A m, n \in Indices : DESTINATIONS[m] = DESTINATIONS[n] => m = n
    /\ \A n \in Indices : DESTINATIONS[n] \in Harnesses
    /\ \A h \in Harnesses : \E n \in Indices : h = DESTINATIONS[n]
<1>1. Len(DESTINATIONS) = 3 /\ DOMAIN DESTINATIONS = Indices
  BY DEF DESTINATIONS, Indices
<1>2. ASSUME NEW m \in Indices, NEW n \in Indices, DESTINATIONS[m] = DESTINATIONS[n]
      PROVE  m = n
  BY <1>2 DEF DESTINATIONS, Indices
<1> QED
  BY <1>1, <1>2 DEF Harnesses

-----------------------------------------------------------------------------
(* The invariant: what a run has done, as far as others left it alone.     *)

WellFormed ==
    /\ at \in [Harnesses -> Kinds]
    /\ pc \in {"idle", "look", "unlink", "link", "verify"}
    /\ i \in Indices
    /\ pc # "idle" => exit = "none"

Running == pc # "idle"

\* The destinations before this one are linked.
EarlierLinked ==
    Running => \A n \in 1 .. i - 1 :
                  DESTINATIONS[n] \in touched \/ at[DESTINATIONS[n]] = "ours"

\* What was seen or made at a destination is there at the next call.
Undisturbed ==
    Running /\ ~disturbed =>
        /\ source
        /\ pc = "unlink" => at[Here] \notin {"absent", "no parent"}
        /\ pc = "link" => at[Here] = "absent"
        /\ pc = "verify" => at[Here] = "ours"

Inv ==
    /\ WellFormed
    /\ EarlierLinked
    /\ Undisturbed
    /\ LinkedMeansLinked
    /\ UndisturbedRunSucceeds

LEMMA HereType ==
    ASSUME WellFormed
    PROVE  Here \in Harnesses
BY Destinations DEF WellFormed, Here

LEMMA StartPreserves ==
    ASSUME Inv, Start
    PROVE  Inv'
<1>1. /\ pc = "idle" /\ i' = 1
      /\ disturbed' = FALSE /\ touched' = {}
      /\ UNCHANGED <<source, at>>
      /\ WellFormed
  BY DEF Start, Inv
<1>2. i' \in Indices /\ 1 .. i' - 1 = {}
  BY <1>1 DEF Indices
<1>3. CASE source
  <2>1. pc' = "look" /\ exit' = "none"
    BY <1>3 DEF Start
  <2> QED
    BY <1>1, <1>2, <1>3, <2>1
       DEF Inv, WellFormed, EarlierLinked, Undisturbed, LinkedMeansLinked,
           UndisturbedRunSucceeds
<1>4. CASE ~source
  <2>1. pc' = "idle" /\ exit' = "failed"
    BY <1>4 DEF Start, Fail
  <2> QED
    BY <1>1, <1>2, <1>4, <2>1
       DEF Inv, WellFormed, EarlierLinked, Undisturbed, Running, LinkedMeansLinked,
           UndisturbedRunSucceeds
<1> QED
  BY <1>3, <1>4

LEMMA LookPreserves ==
    ASSUME Inv, Look
    PROVE  Inv'
<1>1. Here \in Harnesses /\ Here' = Here
  BY HereType DEF Inv, Look, Here
<1> QED
  BY <1>1 DEF Look, Fail, Inv, WellFormed, EarlierLinked, Undisturbed, Running,
              LinkedMeansLinked, UndisturbedRunSucceeds, Obstacles

\* Unlink and Link only change the destination they are at.
LEMMA OthersStay ==
    ASSUME Inv, Running, at' = [at EXCEPT ![Here] = at'[Here]], i' = i, touched' = touched
    PROVE  \A n \in 1 .. i - 1 :
              DESTINATIONS[n] \in touched' \/ at'[DESTINATIONS[n]] = "ours"
<1> SUFFICES ASSUME NEW n \in 1 .. i - 1
             PROVE  DESTINATIONS[n] \in touched' \/ at'[DESTINATIONS[n]] = "ours"
  BY DEF Inv, WellFormed, Indices
<1>1. n \in Indices /\ n # i /\ i \in Indices
  BY DEF Inv, WellFormed, Indices
<1>2. DESTINATIONS[n] # Here /\ DESTINATIONS[n] \in Harnesses
  BY <1>1, Destinations DEF Here
<1>3. at'[DESTINATIONS[n]] = at[DESTINATIONS[n]]
  BY <1>2 DEF Inv, WellFormed
<1> QED
  BY <1>3 DEF Inv, EarlierLinked

LEMMA UnlinkPreserves ==
    ASSUME Inv, Unlink
    PROVE  Inv'
<1>1. Here \in Harnesses /\ Here' = Here
  BY HereType DEF Inv, Unlink, Here
<1>2. CASE at[Here] \in Links \cup {"file"}
  <2>1. /\ at' = [at EXCEPT ![Here] = "absent"] /\ at'[Here] = "absent"
        /\ at' \in [Harnesses -> Kinds]
        /\ pc = "unlink" /\ pc' = "link" /\ exit = "none"
        /\ UNCHANGED <<source, i, exit, disturbed, touched>>
    BY <1>1, <1>2 DEF Unlink, Inv, WellFormed, Kinds
  <2>2. EarlierLinked'
    BY <2>1, OthersStay DEF EarlierLinked, Running
  <2> QED
    BY <1>1, <2>1, <2>2
       DEF Inv, WellFormed, Undisturbed, Running, LinkedMeansLinked,
           UndisturbedRunSucceeds
<1>3. CASE at[Here] \notin Links \cup {"file"}
  <2>1. /\ pc = "unlink" /\ pc' = "idle" /\ exit' = "failed"
        /\ UNCHANGED <<source, at, i, disturbed, touched>>
    BY <1>3 DEF Unlink, Fail
  <2>2. ~disturbed => at[Here] \in Obstacles
    BY <1>1, <1>3, <2>1
       DEF Inv, WellFormed, Undisturbed, Running, Kinds, Links, Obstacles
  <2> QED
    BY <1>1, <2>1, <2>2
       DEF Inv, WellFormed, EarlierLinked, Undisturbed, Running, LinkedMeansLinked,
           UndisturbedRunSucceeds
<1> QED
  BY <1>2, <1>3

LEMMA LinkPreserves ==
    ASSUME Inv, Link
    PROVE  Inv'
<1>1. Here \in Harnesses /\ Here' = Here
  BY HereType DEF Inv, Link, Here
<1>2. CASE at[Here] = "absent"
  <2>1. /\ at' = [at EXCEPT ![Here] = "ours"] /\ at'[Here] = "ours"
        /\ at' \in [Harnesses -> Kinds]
        /\ pc = "link" /\ pc' = "verify" /\ exit = "none"
        /\ UNCHANGED <<source, i, exit, disturbed, touched>>
    BY <1>1, <1>2 DEF Link, Inv, WellFormed, Kinds, Links
  <2>2. EarlierLinked'
    BY <2>1, OthersStay DEF EarlierLinked, Running
  <2> QED
    BY <1>1, <2>1, <2>2
       DEF Inv, WellFormed, Undisturbed, Running, LinkedMeansLinked,
           UndisturbedRunSucceeds
<1>3. CASE at[Here] # "absent"
  BY <1>3 DEF Link, Fail, Inv, WellFormed, EarlierLinked, Undisturbed, Running,
              LinkedMeansLinked, UndisturbedRunSucceeds
<1> QED
  BY <1>2, <1>3

LEMMA VerifyPreserves ==
    ASSUME Inv, Verify
    PROVE  Inv'
<1>1. /\ pc = "verify" /\ exit = "none" /\ i \in Indices
      /\ UNCHANGED <<source, at, disturbed>>
      /\ touched' = touched \ {Here}
      /\ WellFormed /\ EarlierLinked /\ Undisturbed /\ Running
  BY DEF Verify, Inv, WellFormed, Running
<1>2. CASE at[Here] = "ours"
  <2>1. \A n \in 1 .. i : DESTINATIONS[n] \in touched' \/ at'[DESTINATIONS[n]] = "ours"
    <3> SUFFICES ASSUME NEW n \in 1 .. i
                 PROVE  DESTINATIONS[n] \in touched' \/ at'[DESTINATIONS[n]] = "ours"
      OBVIOUS
    <3>1. CASE n = i
      BY <1>1, <1>2, <3>1 DEF Here
    <3>2. CASE n # i
      <4>1. n \in 1 .. i - 1 /\ n \in Indices
        BY <1>1, <3>2 DEF Indices
      <4>2. DESTINATIONS[n] # Here
        BY <1>1, <3>2, <4>1, Destinations DEF Here
      <4> QED
        BY <1>1, <4>1, <4>2 DEF EarlierLinked
    <3> QED
      BY <3>1, <3>2
  <2>2. CASE i < 3
    <3>1. i' = i + 1 /\ pc' = "look" /\ exit' = exit
      BY <1>2, <2>2, Destinations DEF Verify, Advance
    <3>2. i' \in Indices /\ i' - 1 = i
      BY <1>1, <2>2, <3>1 DEF Indices
    <3>3. EarlierLinked'
      BY <2>1, <3>2 DEF EarlierLinked
    <3> QED
      BY <1>1, <3>1, <3>2, <3>3
         DEF Inv, WellFormed, Undisturbed, Running, LinkedMeansLinked,
             UndisturbedRunSucceeds
  <2>3. CASE ~(i < 3)
    <3>1. i' = i /\ pc' = "idle" /\ exit' = "linked"
      BY <1>2, <2>3, Destinations DEF Verify, Advance
    <3>2. 1 .. i = Indices
      BY <1>1, <2>3 DEF Indices
    <3>3. LinkedMeansLinked'
      <4>1. ASSUME NEW h \in Harnesses \ touched'
            PROVE  at'[h] = "ours"
        <5>1. PICK n \in Indices : h = DESTINATIONS[n]
          BY Destinations
        <5> QED
          BY <2>1, <3>2, <5>1
      <4> QED
        BY <4>1 DEF LinkedMeansLinked
    <3> QED
      BY <1>1, <3>1, <3>3
         DEF Inv, WellFormed, EarlierLinked, Undisturbed, Running,
             UndisturbedRunSucceeds
  <2> QED
    BY <2>2, <2>3
<1>3. CASE at[Here] # "ours"
  BY <1>1, <1>3 DEF Verify, Fail, Inv, WellFormed, EarlierLinked, Undisturbed, Running,
                    LinkedMeansLinked, UndisturbedRunSucceeds
<1> QED
  BY <1>2, <1>3

LEMMA KillPreserves ==
    ASSUME Inv, Kill
    PROVE  Inv'
BY DEF Kill, Inv, WellFormed, EarlierLinked, Undisturbed, Running, LinkedMeansLinked,
       UndisturbedRunSucceeds

LEMMA ChangePreserves ==
    ASSUME Inv, NEW h \in Harnesses, NEW kind \in Kinds, Change(h, kind)
    PROVE  Inv'
<1>1. /\ at' \in [Harnesses -> Kinds]
      /\ \A x \in Harnesses \ {h} : at'[x] = at[x]
      /\ disturbed' /\ touched' = touched \cup {h}
      /\ UNCHANGED <<source, pc, i, exit>>
  BY DEF Change, Inv, WellFormed
<1>2. \A n \in 1 .. i - 1 : DESTINATIONS[n] \in Harnesses
  BY Destinations DEF Inv, WellFormed, Indices
<1>3. EarlierLinked'
  BY <1>1, <1>2 DEF Inv, EarlierLinked, Running
<1>4. LinkedMeansLinked'
  BY <1>1 DEF Inv, LinkedMeansLinked
<1> QED
  BY <1>1, <1>3, <1>4 DEF Inv, WellFormed, Undisturbed, UndisturbedRunSucceeds

LEMMA MoveSourcePreserves ==
    ASSUME Inv, MoveSource
    PROVE  Inv'
BY DEF MoveSource, Inv, WellFormed, EarlierLinked, Undisturbed, Running,
       LinkedMeansLinked, UndisturbedRunSucceeds

LEMMA InvInductive == Spec => []Inv
<1>1. Init => Inv
  BY DEF Init, Inv, WellFormed, Indices, EarlierLinked, Undisturbed, Running,
         LinkedMeansLinked, UndisturbedRunSucceeds
<1>2. Inv /\ [Next]_vars => Inv'
  <2> SUFFICES ASSUME Inv, [Next]_vars
               PROVE  Inv'
    OBVIOUS
  <2>1. CASE UNCHANGED vars
    BY <2>1 DEF vars, Inv, WellFormed, EarlierLinked, Undisturbed, Running, Here,
                LinkedMeansLinked, UndisturbedRunSucceeds
  <2> QED
    BY <2>1, StartPreserves, LookPreserves, UnlinkPreserves, LinkPreserves,
       VerifyPreserves, KillPreserves, ChangePreserves, MoveSourcePreserves
       DEF Next, Script
<1> QED
  BY <1>1, <1>2, PTL DEF Spec

-----------------------------------------------------------------------------
(* The results.                                                            *)

\* Exit code 0 means that every harness has the skill, but for what others
\* changed after it was verified.
THEOREM ExitZeroIsLinked == Spec => []LinkedMeansLinked
<1>1. Inv => LinkedMeansLinked
  BY DEF Inv
<1> QED
  BY <1>1, InvInductive, PTL

\* A run nobody disturbs only fails for want of the skill or before a directory.
THEOREM UndisturbedSucceeds == Spec => []UndisturbedRunSucceeds
<1>1. Inv => UndisturbedRunSucceeds
  BY DEF Inv
<1> QED
  BY <1>1, InvInductive, PTL

\* The script never removes a directory, and never a second entry before the
\* first has its replacement.
THEOREM OnlyLinksAreRemoved == Spec => RemovesLinksOnly
<1>1. Inv /\ [Next]_vars => [RemovalStep]_vars
  <2> SUFFICES ASSUME Inv, NEW h \in Harnesses, Script, at'[h] # at[h]
               PROVE  /\ at[h] \notin Obstacles
                      /\ at'[h] = "absent" =>
                            \A x \in Harnesses \ ({h} \cup touched) :
                               (\E n \in 1 .. i - 1 : DESTINATIONS[n] = x)
                                   => at[x] = "ours"
    BY DEF RemovalStep
  <2>1. at' # at /\ (Unlink \/ Link)
    BY DEF Script, Start, Look, Verify, Kill
  <2>2. Running /\ h = Here /\ at[Here] \in Links \cup {"file", "absent"}
    BY <2>1, HereType DEF Unlink, Link, Running, Inv, WellFormed
  <2> QED
    BY <2>2 DEF Inv, EarlierLinked, Links, Obstacles
<1> QED
  BY <1>1, InvInductive, PTL DEF Spec, RemovesLinksOnly
=============================================================================
