-------------------------- MODULE JsonStoreProofs ---------------------------
(***************************************************************************)
(* Proofs about JsonStore for any number of processes and updates.         *)
(***************************************************************************)
EXTENDS JsonStore, TLAPS

-----------------------------------------------------------------------------
(* Type correctness, which needs to know that a process that is writing    *)
(* has a temporary file and that a process inside update() has a call.     *)

TypeInv ==
    /\ TypeOK
    /\ \A p \in Procs : pc[p] \in {"written", "synced"} => tmp[p] \in Version
    /\ \A p \in Procs : pc[p] # "idle" => calls[p] >= 1

LEMMA CurrentType ==
    ASSUME TypeInv, NEW p \in Procs, pc[p] # "idle"
    PROVE  Current(p) \in Update
BY StoreAssumption DEF TypeInv, TypeOK, Current, Update

LEMMA TypeInductive == Spec => []TypeInv
<1>1. Init => TypeInv
  <2>1. empty_state \in Seq(Update)
    BY DEF empty_state
  <2>2. NoFile \in Version
    BY <2>1 DEF NoFile, Version
  <2> QED
    BY <2>1, <2>2, StoreAssumption DEF Init, TypeInv, TypeOK, PC
<1>2. TypeInv /\ [Next]_vars => TypeInv'
  <2> SUFFICES ASSUME TypeInv, [Next]_vars
               PROVE  TypeInv'
    OBVIOUS
  <2> USE StoreAssumption, TornAssumption DEF TypeInv, TypeOK, PC, Goto
  <2>1. ASSUME NEW p \in Procs, Call(p)
        PROVE  TypeInv'
    BY <2>1 DEF Call
  <2>2. ASSUME NEW p \in Procs, Lock(p)
        PROVE  TypeInv'
    BY <2>2 DEF Lock
  <2>3. ASSUME NEW p \in Procs, Read(p)
        PROVE  TypeInv'
    <3>1. empty_state \in Seq(Update)
      BY DEF empty_state
    <3>2. file # Torn => file.log \in Seq(Update)
      BY DEF Version
    <3>3. state' \in [Procs -> Seq(Update)]
      BY <2>3, <3>1, <3>2 DEF Read
    <3> QED
      BY <2>3, <3>3 DEF Read
  <2>4. ASSUME NEW p \in Procs, Mutate(p)
        PROVE  TypeInv'
    <3>1. Append(state[p], Current(p)) \in Seq(Update)
      BY <2>4, CurrentType DEF Mutate
    <3> QED
      BY <2>4, <3>1 DEF Mutate
  <2>5. ASSUME NEW p \in Procs, MutateRaises(p)
        PROVE  TypeInv'
    BY <2>5 DEF MutateRaises
  <2>6. ASSUME NEW p \in Procs, WriteTmp(p)
        PROVE  TypeInv'
    BY <2>6 DEF WriteTmp, Version
  <2>7. ASSUME NEW p \in Procs, Fsync(p)
        PROVE  TypeInv'
    <3>1. [tmp[p] EXCEPT !.synced = TRUE] \in Version
      BY <2>7 DEF Fsync, Version
    <3>2. tmp' = [tmp EXCEPT ![p] = [tmp[p] EXCEPT !.synced = TRUE]]
      BY <2>7 DEF Fsync
    <3> HIDE DEF TypeOK
    <3>3. tmp' \in [Procs -> Version \cup {None}]
      BY <3>1, <3>2 DEF TypeOK
    <3> QED
      BY <2>7, <3>1, <3>2, <3>3 DEF Fsync, TypeOK
  <2>8. ASSUME NEW p \in Procs, Replace(p)
        PROVE  TypeInv'
    BY <2>8 DEF Replace
  <2>9. ASSUME NEW p \in Procs, WriteFails(p)
        PROVE  TypeInv'
    BY <2>9 DEF WriteFails
  <2>10. ASSUME NEW p \in Procs, Return(p)
         PROVE  TypeInv'
    BY <2>10, CurrentType DEF Return, Unlock
  <2>11. ASSUME NEW p \in Procs, Raise(p)
         PROVE  TypeInv'
    BY <2>11, CurrentType DEF Raise, Unlock
  <2>12. ASSUME NEW p \in Procs, Crash(p)
         PROVE  TypeInv'
    BY <2>12 DEF Crash, Unlock
  <2>13. CASE Writeback
    <3>1. file' \in Version
      BY <2>13 DEF Writeback, Version
    <3> QED
      BY <2>13, <3>1 DEF Writeback
  <2>14. CASE PowerFailure
    BY <2>14 DEF PowerFailure
  <2>15. CASE UNCHANGED vars
    BY <2>15 DEF vars
  <2> QED
    BY <2>1, <2>2, <2>3, <2>4, <2>5, <2>6, <2>7, <2>8, <2>9, <2>10, <2>11,
       <2>12, <2>13, <2>14, <2>15 DEF Next, Step
<1> QED
  BY <1>1, <1>2, PTL DEF Spec

\* Type correctness, with or without a lock, read errors and power failures.
THEOREM StoreTypeCorrect == Spec => []TypeOK
<1>1. TypeInv => TypeOK
  BY DEF TypeInv
<1> QED
  BY <1>1, TypeInductive, PTL

-----------------------------------------------------------------------------
(* No torn file, whatever fails: only a synced temporary file gets a name, *)
(* so each version that may come back after a power failure was synced.    *)

SyncedFirst ==
    /\ TypeInv
    /\ file # Torn
    /\ \A v \in survivors : v \in Version /\ v.synced = TRUE
    /\ \A p \in Procs : pc[p] = "synced" => tmp[p].synced = TRUE

LEMMA SyncedFirstInductive == Spec => []SyncedFirst
<1>1. TypeInv /\ Init => SyncedFirst
  <2>1. empty_state \in Seq(Update)
    BY DEF empty_state
  <2>2. NoFile \in Version /\ NoFile.synced = TRUE
    BY <2>1 DEF NoFile, Version
  <2> QED
    BY <2>2, TornAssumption DEF Init, SyncedFirst
<1>2. TypeInv' /\ SyncedFirst /\ [Next]_vars => SyncedFirst'
  <2> SUFFICES ASSUME TypeInv', SyncedFirst, [Next]_vars
               PROVE  SyncedFirst'
    OBVIOUS
  <2>0. pc \in [Procs -> PC] /\ tmp \in [Procs -> Version \cup {None}]
    BY DEF SyncedFirst, TypeInv, TypeOK
  <2>1. ASSUME NEW p \in Procs,
               \/ Call(p) \/ Lock(p) \/ Read(p) \/ Mutate(p) \/ MutateRaises(p)
               \/ Return(p) \/ Raise(p)
        PROVE  SyncedFirst'
    BY <2>0, <2>1 DEF Call, Lock, Read, Mutate, MutateRaises, Return, Raise, Goto,
                      SyncedFirst
  <2>2. ASSUME NEW p \in Procs, WriteTmp(p) \/ WriteFails(p) \/ Crash(p)
        PROVE  SyncedFirst'
    BY <2>0, <2>2 DEF WriteTmp, WriteFails, Crash, Goto, SyncedFirst
  <2>3. ASSUME NEW p \in Procs, Fsync(p)
        PROVE  SyncedFirst'
    <3>1. tmp[p] \in Version
      BY <2>3 DEF Fsync, Goto, SyncedFirst, TypeInv
    <3>2. [tmp[p] EXCEPT !.synced = TRUE].synced = TRUE
      BY <3>1 DEF Version
    <3>3. tmp' = [tmp EXCEPT ![p] = [tmp[p] EXCEPT !.synced = TRUE]]
      BY <2>3 DEF Fsync
    <3>4. \A q \in Procs : pc'[q] = "synced" => tmp'[q].synced = TRUE
      BY <2>0, <2>3, <3>2, <3>3 DEF Fsync, Goto, SyncedFirst
    <3> QED
      BY <2>3, <3>4 DEF Fsync, SyncedFirst
  <2>4. ASSUME NEW p \in Procs, Replace(p)
        PROVE  SyncedFirst'
    <3>1. tmp[p] \in Version /\ tmp[p].synced = TRUE
      BY <2>4 DEF Replace, Goto, SyncedFirst, TypeInv
    <3> QED
      BY <2>0, <2>4, <3>1, TornAssumption DEF Replace, Goto, SyncedFirst
  <2>5. CASE Writeback
    <3>1. file \in Version /\ file' = [file EXCEPT !.synced = TRUE]
      BY <2>5 DEF Writeback, SyncedFirst, TypeInv, TypeOK
    <3>2. file' \in Version /\ file'.synced = TRUE
      BY <3>1 DEF Version
    <3> QED
      BY <2>5, <3>2, TornAssumption DEF Writeback, SyncedFirst
  <2>6. CASE PowerFailure
    <3>1. file' \in survivors /\ survivors' = {file'}
      BY <2>6 DEF PowerFailure, SyncedFirst
    <3> QED
      BY <2>6, <3>1, TornAssumption DEF PowerFailure, SyncedFirst
  <2>7. CASE UNCHANGED vars
    BY <2>7 DEF vars, SyncedFirst
  <2> QED
    BY <2>1, <2>2, <2>3, <2>4, <2>5, <2>6, <2>7 DEF Next, Step
<1> QED
  BY <1>1, <1>2, TypeInductive, PTL DEF Spec

\* With or without a lock, read errors and power failures, the file is whole.
THEOREM FileIsWhole == Spec => []NeverTorn
<1>1. SyncedFirst => NeverTorn
  BY TornAssumption DEF SyncedFirst, NeverTorn
<1> QED
  BY <1>1, SyncedFirstInductive, PTL

-----------------------------------------------------------------------------
(* Atomicity, where the lock is there, the file can be read and the power  *)
(* stays on.  The invariant says what a process inside update() may rely   *)
(* on: nobody else is inside, its copy of the ledger is the file's content *)
(* and its temporary file is that content and its own update.              *)

Friendly == Flock /\ ~ReadErrors /\ ~PowerFails

Inside == PC \ {"idle", "waiting"}

Elements(s) == {s[i] : i \in DOMAIN s}

\* Whether process q's call number n is over.
Over(q, n) == n < calls[q] \/ (n = calls[q] /\ pc[q] = "idle")

\* Only the holder of the lock is inside update().
Exclusive == \A p \in Procs : pc[p] \in Inside => holder = p

\* What a process holds in memory and on disk is the ledger and its update.
CopyIsFresh ==
    \A p \in Procs :
        /\ pc[p] = "read" => state[p] = file.log
        /\ pc[p] \in {"mutated", "written", "synced"} =>
              state[p] = Append(file.log, Current(p))
        /\ pc[p] \in {"written", "synced"} => tmp[p].log = state[p]

\* An update is in the ledger only once its process has replaced the file.
LogIsPast ==
    /\ \A p \in Procs : pc[p] = "replaced" => Current(p) \in Elements(file.log)
    /\ \A q \in Procs, n \in Nat :
          <<q, n>> \in Elements(file.log) =>
              Over(q, n) \/ (n = calls[q] /\ pc[q] = "replaced")

OutcomesAreTrue ==
    /\ acked \subseteq Elements(file.log)
    /\ refused \cap Elements(file.log) = {}
    /\ \A q \in Procs, n \in Nat : <<q, n>> \in refused => Over(q, n)

Inv ==
    /\ TypeInv
    /\ file # Torn
    /\ Exclusive
    /\ CopyIsFresh
    /\ LogIsPast
    /\ OutcomesAreTrue

LEMMA AppendElements ==
    ASSUME NEW S, NEW s \in Seq(S), NEW u \in S
    PROVE  Elements(Append(s, u)) = Elements(s) \cup {u}
<1>1. /\ Len(s) \in Nat
      /\ DOMAIN s = 1 .. Len(s)
      /\ Append(s, u) \in Seq(S)
      /\ DOMAIN Append(s, u) = 1 .. Len(s) + 1
      /\ \A i \in 1 .. Len(s) : Append(s, u)[i] = s[i]
      /\ Append(s, u)[Len(s) + 1] = u
  OBVIOUS
<1>2. \A i \in 1 .. Len(s) + 1 : i \in 1 .. Len(s) \/ i = Len(s) + 1
  BY <1>1
<1>3. ASSUME NEW x \in Elements(Append(s, u))
      PROVE  x \in Elements(s) \cup {u}
  BY <1>1, <1>2, <1>3 DEF Elements
<1>4. ASSUME NEW x \in Elements(s)
      PROVE  x \in Elements(Append(s, u))
  BY <1>1, <1>4 DEF Elements
<1>5. u \in Elements(Append(s, u))
  BY <1>1 DEF Elements
<1> QED
  BY <1>3, <1>4, <1>5

LEMMA ElementsType ==
    ASSUME TypeInv, file # Torn
    PROVE  /\ file.log \in Seq(Update)
           /\ \A u \in Elements(file.log) : u \in Update
BY DEF TypeInv, TypeOK, Version, Elements

\* The only step that changes the content of the file.
LEMMA ReplaceAppends ==
    ASSUME Inv, NEW p \in Procs, Replace(p)
    PROVE  /\ file'.log = Append(file.log, Current(p))
           /\ file' # Torn
           /\ Current(p) \in Update
           /\ Elements(file'.log) = Elements(file.log) \cup {Current(p)}
           /\ Current(p) \notin Elements(file.log)
           /\ Current(p) \notin refused
<1>1. pc[p] = "synced" /\ file' = tmp[p] /\ tmp[p] \in Version
  BY DEF Replace, Goto, Inv, TypeInv
<1>2. file'.log = Append(file.log, Current(p))
  BY <1>1 DEF Inv, CopyIsFresh
<1>3. Current(p) \in Update
  BY <1>1, CurrentType DEF Inv
<1>4. file' # Torn
  BY <1>1, TornAssumption
<1>5. Elements(file'.log) = Elements(file.log) \cup {Current(p)}
  BY <1>2, <1>3, ElementsType, AppendElements DEF Inv
<1>6. calls[p] \in Nat
  BY StoreAssumption DEF Inv, TypeInv, TypeOK
<1>7. ~Over(p, calls[p])
  BY <1>1, <1>6 DEF Over
<1>8. Current(p) \notin Elements(file.log) /\ Current(p) \notin refused
  BY <1>1, <1>6, <1>7 DEF Inv, Current, LogIsPast, OutcomesAreTrue
<1> QED
  BY <1>2, <1>3, <1>4, <1>5, <1>8

\* The steps of a process that leave the content of the file alone.
LEMMA LocalStep ==
    ASSUME Inv, TypeInv', NEW p \in Procs, NEW to \in PC,
           pc' = [pc EXCEPT ![p] = to],
           file' # Torn, file'.log = file.log, calls' = calls,
           \A q \in Procs \ {p} : state'[q] = state[q] /\ tmp'[q] = tmp[q],
           to \in Inside => holder' = p,
           \A q \in Procs \ {p} : pc[q] \in Inside => holder' = q,
           to = "read" => state'[p] = file.log,
           to \in {"mutated", "written", "synced"} =>
               state'[p] = Append(file.log, Current(p)),
           to \in {"written", "synced"} => tmp'[p].log = state'[p],
           to # "replaced", pc[p] # "idle",
           pc[p] = "replaced" => to = "idle",
           acked' \subseteq Elements(file.log),
           refused' \cap Elements(file.log) = {},
           \A u \in refused' : u \in refused \/ (u = Current(p) /\ to = "idle")
    PROVE  Inv'
<1>1. /\ pc \in [Procs -> PC]
      /\ calls \in [Procs -> Nat]
      /\ pc'[p] = to
      /\ \A q \in Procs \ {p} : pc'[q] = pc[q]
  BY StoreAssumption DEF Inv, TypeInv, TypeOK
<1>2. \A q \in Procs : Current(q)' = Current(q)
  BY DEF Current
<1>3. Exclusive'
  BY <1>1 DEF Exclusive
<1>4. CopyIsFresh'
  BY <1>1, <1>2 DEF Inv, CopyIsFresh
<1>5. Elements(file'.log) = Elements(file.log)
  OBVIOUS
<1>6. \A q \in Procs, n \in Nat : Over(q, n) => Over(q, n)'
  BY <1>1 DEF Over
<1>7. LogIsPast'
  <2>1. \A q \in Procs : pc'[q] = "replaced" => pc[q] = "replaced"
    BY <1>1
  <2>2. ASSUME NEW q \in Procs, NEW n \in Nat, n = calls[q], pc[q] = "replaced"
        PROVE  Over(q, n)' \/ (n = calls'[q] /\ pc'[q] = "replaced")
    BY <1>1, <2>2 DEF Over
  <2> QED
    BY <1>2, <1>5, <1>6, <2>1, <2>2 DEF Inv, LogIsPast
<1>8. OutcomesAreTrue'
  <2>1. ASSUME NEW q \in Procs, NEW n \in Nat, <<q, n>> \in refused'
        PROVE  Over(q, n)'
    BY <1>1, <1>6, <2>1 DEF Inv, OutcomesAreTrue, Current, Over
  <2> QED
    BY <1>5, <2>1 DEF OutcomesAreTrue
<1> QED
  BY <1>3, <1>4, <1>7, <1>8 DEF Inv

LEMMA CallPreserves ==
    ASSUME Inv, TypeInv', NEW p \in Procs, Call(p)
    PROVE  Inv'
<1>1. /\ pc \in [Procs -> PC]
      /\ calls \in [Procs -> Nat]
      /\ pc[p] = "idle" /\ pc'[p] = "waiting"
      /\ calls'[p] = calls[p] + 1
      /\ \A q \in Procs \ {p} : pc'[q] = pc[q] /\ calls'[q] = calls[q]
      /\ UNCHANGED <<file, holder, state, tmp, acked, refused>>
  BY StoreAssumption DEF Inv, TypeInv, TypeOK, Call, Goto
<1>2. Exclusive'
  BY <1>1 DEF Inv, Exclusive, Inside
<1>3. CopyIsFresh'
  BY <1>1 DEF Inv, CopyIsFresh, Current
<1>4. \A q \in Procs, n \in Nat : Over(q, n) => Over(q, n)'
  BY <1>1 DEF Over
<1>5. LogIsPast'
  BY <1>1, <1>4 DEF Inv, LogIsPast, Current
<1>6. OutcomesAreTrue'
  BY <1>1, <1>4 DEF Inv, OutcomesAreTrue
<1> QED
  BY <1>1, <1>2, <1>3, <1>5, <1>6 DEF Inv

LEMMA ReplacePreserves ==
    ASSUME Inv, TypeInv', NEW p \in Procs, Replace(p)
    PROVE  Inv'
<1>1. /\ pc \in [Procs -> PC]
      /\ calls \in [Procs -> Nat]
      /\ pc[p] = "synced" /\ pc'[p] = "replaced"
      /\ \A q \in Procs \ {p} : pc'[q] = pc[q]
      /\ UNCHANGED <<holder, calls, state, acked, refused>>
  BY StoreAssumption DEF Inv, TypeInv, TypeOK, Replace, Goto
<1>2. /\ Elements(file'.log) = Elements(file.log) \cup {Current(p)}
      /\ file' # Torn
      /\ Current(p) \notin refused
  BY ReplaceAppends
<1>3. Exclusive'
  BY <1>1 DEF Inv, Exclusive, Inside
<1>4. \A q \in Procs \ {p} : pc[q] \notin Inside
  BY <1>1 DEF Inv, Exclusive, Inside, PC
<1>5. CopyIsFresh'
  BY <1>1, <1>4 DEF CopyIsFresh, Inside, PC
<1>6. \A q \in Procs, n \in Nat : Over(q, n) => Over(q, n)'
  BY <1>1 DEF Over
<1>7. LogIsPast'
  BY <1>1, <1>2, <1>4, <1>6 DEF Inv, LogIsPast, Current, Inside, PC
<1>8. OutcomesAreTrue'
  BY <1>1, <1>2, <1>6 DEF Inv, OutcomesAreTrue
<1> QED
  BY <1>2, <1>3, <1>5, <1>7, <1>8 DEF Inv

LEMMA StepPreserves ==
    ASSUME Friendly, Inv, TypeInv', NEW p \in Procs, Step(p) \/ Crash(p)
    PROVE  Inv'
<1> DEFINE Moves(to) ==
        /\ to \in PC
        /\ pc' = [pc EXCEPT ![p] = to]
        /\ file' = file /\ calls' = calls
        /\ pc[p] # "idle"
        /\ to # "replaced"
        /\ pc[p] = "replaced" => to = "idle"
<1>0. /\ file # Torn
      /\ acked \subseteq Elements(file.log)
      /\ refused \cap Elements(file.log) = {}
      /\ state \in [Procs -> Seq(Update)]
      /\ tmp \in [Procs -> Version \cup {None}]
      /\ pc[p] \in Inside => \A q \in Procs \ {p} : pc[q] \notin Inside
      /\ \A q \in Procs : pc[q] \in Inside => holder = q
  BY DEF Inv, OutcomesAreTrue, TypeInv, TypeOK, Exclusive
<1>1. CASE Lock(p)
  <2>1. Moves("locked") /\ holder = None /\ holder' = p
    BY <1>1 DEF Lock, Goto, Friendly, PC
  <2>2. \A q \in Procs \ {p} : pc[q] \notin Inside
    BY <1>0, <2>1, StoreAssumption
  <2> QED
    BY <1>0, <1>1, <2>1, <2>2, LocalStep DEF Lock
<1>2. CASE Read(p)
  <2>1. Moves("read") /\ pc[p] \in Inside /\ state'[p] = file.log
    BY <1>0, <1>2 DEF Read, Goto, Friendly, PC, Inside
  <2>2. \A q \in Procs \ {p} : state'[q] = state[q]
    BY <1>0, <1>2 DEF Read
  <2> QED
    BY <1>0, <1>2, <2>1, <2>2, LocalStep DEF Read
<1>3. CASE Mutate(p)
  <2>1. Moves("mutated") /\ pc[p] = "read" /\ pc[p] \in Inside
    BY <1>3 DEF Mutate, Goto, PC, Inside
  <2>2. state'[p] = Append(file.log, Current(p))
    BY <1>0, <1>3, <2>1 DEF Mutate, Inv, CopyIsFresh
  <2>3. \A q \in Procs \ {p} : state'[q] = state[q]
    BY <1>0, <1>3 DEF Mutate
  <2> QED
    BY <1>0, <1>3, <2>1, <2>2, <2>3, LocalStep DEF Mutate
<1>4. CASE MutateRaises(p)
  <2>1. Moves("raising") /\ pc[p] \in Inside
    BY <1>4 DEF MutateRaises, Goto, PC, Inside
  <2> QED
    BY <1>0, <1>4, <2>1, LocalStep DEF MutateRaises
<1>5. CASE WriteTmp(p)
  <2>1. Moves("written") /\ pc[p] = "mutated" /\ pc[p] \in Inside
    BY <1>5 DEF WriteTmp, Goto, PC, Inside
  <2>2. state[p] = Append(file.log, Current(p)) /\ state' = state
    BY <1>5, <2>1 DEF WriteTmp, Inv, CopyIsFresh
  <2>3. tmp'[p].log = state[p] /\ \A q \in Procs \ {p} : tmp'[q] = tmp[q]
    BY <1>0, <1>5 DEF WriteTmp
  <2> QED
    BY <1>0, <1>5, <2>1, <2>2, <2>3, LocalStep DEF WriteTmp
<1>6. CASE Fsync(p)
  <2>1. Moves("synced") /\ pc[p] = "written" /\ pc[p] \in Inside
    BY <1>6 DEF Fsync, Goto, PC, Inside
  <2>2. /\ state[p] = Append(file.log, Current(p)) /\ state' = state
        /\ tmp[p].log = state[p]
        /\ tmp[p] \in Version
    BY <1>6, <2>1 DEF Fsync, Inv, CopyIsFresh, TypeInv
  <2>3. tmp'[p].log = state[p] /\ \A q \in Procs \ {p} : tmp'[q] = tmp[q]
    BY <1>0, <1>6, <2>2 DEF Fsync, Version
  <2> QED
    BY <1>0, <1>6, <2>1, <2>2, <2>3, LocalStep DEF Fsync
<1>7. CASE Replace(p)
  BY <1>7, ReplacePreserves
<1>8. CASE WriteFails(p)
  <2>1. Moves("raising") /\ pc[p] \in Inside
    BY <1>8 DEF WriteFails, Goto, PC, Inside
  <2>2. \A q \in Procs \ {p} : tmp'[q] = tmp[q]
    BY <1>0, <1>8 DEF WriteFails
  <2> QED
    BY <1>0, <1>8, <2>1, <2>2, LocalStep DEF WriteFails
<1>9. CASE Return(p)
  <2>1. Moves("idle") /\ pc[p] = "replaced" /\ pc[p] \in Inside
    BY <1>9 DEF Return, Goto, PC, Inside
  <2>2. acked' \subseteq Elements(file.log)
    BY <1>0, <1>9, <2>1 DEF Return, Inv, LogIsPast
  <2> QED
    BY <1>0, <1>9, <2>1, <2>2, LocalStep DEF Return, Inside
<1>10. CASE Raise(p)
  <2>1. Moves("idle") /\ pc[p] = "raising" /\ pc[p] \in Inside
    BY <1>10 DEF Raise, Goto, PC, Inside
  <2>2. Current(p) \notin Elements(file.log)
    <3>1. calls[p] \in Nat
      BY StoreAssumption DEF Inv, TypeInv, TypeOK
    <3> QED
      BY <2>1, <3>1 DEF Inv, LogIsPast, Current, Over
  <2> QED
    BY <1>0, <1>10, <2>1, <2>2, LocalStep DEF Raise, Inside
<1>11. CASE Crash(p)
  <2>1. Moves("idle")
    BY <1>11 DEF Crash, PC
  <2>2. \A q \in Procs \ {p} : tmp'[q] = tmp[q]
    BY <1>0, <1>11 DEF Crash
  <2>3. \A q \in Procs \ {p} : pc[q] \in Inside => holder' = q
    BY <1>0, <1>11 DEF Crash, Unlock
  <2> QED
    BY <1>0, <1>11, <2>1, <2>2, <2>3, LocalStep DEF Crash, Inside
<1> QED
  BY <1>1, <1>2, <1>3, <1>4, <1>5, <1>6, <1>7, <1>8, <1>9, <1>10, <1>11 DEF Step

LEMMA InvInductive == ASSUME Friendly PROVE Spec => []Inv
<1>1. TypeInv /\ Init => Inv
  <2> SUFFICES ASSUME TypeInv, Init
               PROVE  Inv
    OBVIOUS
  <2>1. file = NoFile /\ file # Torn
    <3>1. empty_state \in Seq(Update)
      BY DEF empty_state
    <3>2. NoFile \in Version
      BY <3>1 DEF NoFile, Version
    <3> QED
      BY <3>2, TornAssumption DEF Init
  <2>2. Elements(file.log) = {}
    BY <2>1 DEF NoFile, empty_state, Elements
  <2> QED
    BY <2>1, <2>2
       DEF Init, Inv, Inside, Exclusive, CopyIsFresh, LogIsPast, OutcomesAreTrue
<1>2. TypeInv' /\ Inv /\ [Next]_vars => Inv'
  <2> SUFFICES ASSUME TypeInv', Inv, [Next]_vars
               PROVE  Inv'
    OBVIOUS
  <2>1. ASSUME NEW p \in Procs, Call(p)
        PROVE  Inv'
    BY <2>1, CallPreserves
  <2>2. ASSUME NEW p \in Procs, Step(p) \/ Crash(p)
        PROVE  Inv'
    BY <2>2, StepPreserves
  <2>3. CASE Writeback
    <3>1. file' # Torn /\ file'.log = file.log
      <4>1. file \in Version
        BY DEF Inv, TypeInv, TypeOK
      <4>2. file' = [file EXCEPT !.synced = TRUE]
        BY <2>3 DEF Writeback
      <4>3. file' \in Version /\ file'.log = file.log
        BY <4>1, <4>2 DEF Version
      <4> QED
        BY <4>3, TornAssumption
    <3> QED
      BY <2>3, <3>1 DEF Writeback, Inv, Inside, Exclusive, CopyIsFresh, Current,
                        LogIsPast, Over, OutcomesAreTrue
  <2>4. CASE PowerFailure
    BY <2>4 DEF PowerFailure, Friendly
  <2>5. CASE UNCHANGED vars
    BY <2>5 DEF vars, Inv, Inside, Exclusive, CopyIsFresh, Current,
                LogIsPast, Over, OutcomesAreTrue
  <2> QED
    BY <2>1, <2>2, <2>3, <2>4, <2>5 DEF Next
<1> QED
  BY <1>1, <1>2, TypeInductive, PTL DEF Spec

\* Friendly systems: an update that returned is in the ledger and stays there.
THEOREM AckedUpdatesSurvive == ASSUME Friendly PROVE Spec => []AckedSurvive
<1>1. Inv => AckedSurvive
  BY DEF Inv, OutcomesAreTrue, Elements, AckedSurvive, InLog
<1> QED
  BY <1>1, InvInductive, PTL

-----------------------------------------------------------------------------
(* Refinement: replacing the file applies the update, returning from       *)
(* update() acknowledges it, raising from it refuses it, and every other   *)
(* step leaves the abstract ledger alone.                                  *)

LEMMA ReplaceApplies ==
    ASSUME Inv, NEW p \in Procs, Replace(p)
    PROVE  Abs!Next
<1>1. /\ file # Torn
      /\ file' # Torn
      /\ file'.log = Append(file.log, Current(p))
      /\ Current(p) \in Update
      /\ Current(p) \notin Elements(file.log)
      /\ Current(p) \notin refused
  BY ReplaceAppends DEF Inv
<1>2. Abs!Apply(Current(p))
  BY <1>1 DEF Abs!Apply, Abs!Applied, Elements, Replace
<1> QED
  BY <1>1, <1>2 DEF Abs!Next

LEMMA ReturnAcknowledges ==
    ASSUME Inv, NEW p \in Procs, Return(p)
    PROVE  Abs!Next
<1>1. /\ file # Torn
      /\ pc[p] = "replaced"
      /\ Current(p) \in Elements(file.log)
      /\ Current(p) \in Update
  BY CurrentType DEF Return, Goto, Inv, LogIsPast
<1>2. Abs!Acknowledge(Current(p))
  BY <1>1 DEF Abs!Acknowledge, Abs!Applied, Elements, Return
<1> QED
  BY <1>1, <1>2 DEF Abs!Next

LEMMA RaiseRefuses ==
    ASSUME Inv, NEW p \in Procs, Raise(p)
    PROVE  Abs!Next
<1>1. /\ file # Torn
      /\ pc[p] = "raising"
      /\ Current(p) \in Update
  BY CurrentType DEF Raise, Goto, Inv
<1>2. calls[p] \in Nat
  BY StoreAssumption DEF Inv, TypeInv, TypeOK
<1>3. Current(p) \notin Elements(file.log)
  BY <1>1, <1>2 DEF Inv, LogIsPast, Current, Over
<1>4. Abs!Refuse(Current(p))
  BY <1>1, <1>3 DEF Abs!Refuse, Abs!Applied, Elements, Raise
<1> QED
  BY <1>1, <1>4 DEF Abs!Next

\* Friendly systems: the store is an atomic ledger.
THEOREM StoreIsAtomic == ASSUME Friendly PROVE Spec => ImplementsAtomicLedger
<1>1. Init /\ Inv => Abs!Init
  BY DEF Init, Inv, NoFile, empty_state, Abs!Init
<1>2. Inv /\ Inv' /\ [Next]_vars => [Abs!Next]_Abs!vars
  <2> SUFFICES ASSUME Inv, Inv', [Next]_vars
               PROVE  Abs!Next \/ UNCHANGED Abs!vars
    OBVIOUS
  <2>1. file # Torn /\ file' # Torn
    BY DEF Inv
  <2>2. ASSUME NEW p \in Procs, Replace(p) \/ Return(p) \/ Raise(p)
        PROVE  Abs!Next
    BY <2>2, ReplaceApplies, ReturnAcknowledges, RaiseRefuses
  <2>3. ASSUME NEW p \in Procs,
               \/ Call(p) \/ Lock(p) \/ Read(p) \/ Mutate(p) \/ MutateRaises(p)
               \/ WriteTmp(p) \/ Fsync(p) \/ WriteFails(p) \/ Crash(p)
        PROVE  UNCHANGED <<file, acked, refused>>
    BY <2>3 DEF Call, Lock, Read, Mutate, MutateRaises, WriteTmp, Fsync,
                WriteFails, Crash
  <2>4. CASE Writeback
    <3>1. file \in Version /\ file' = [file EXCEPT !.synced = TRUE]
      BY <2>1, <2>4 DEF Writeback, Inv, TypeInv, TypeOK
    <3>2. file'.log = file.log
      BY <3>1 DEF Version
    <3> QED
      BY <2>1, <2>4, <3>2 DEF Writeback, Abs!vars
  <2>5. CASE PowerFailure
    BY <2>5 DEF PowerFailure, Friendly
  <2>6. CASE UNCHANGED vars
    BY <2>6 DEF vars, Abs!vars
  <2>7. UNCHANGED <<file, acked, refused>> => UNCHANGED Abs!vars
    BY DEF Abs!vars
  <2> QED
    BY <2>2, <2>3, <2>4, <2>5, <2>6, <2>7 DEF Next, Step
<1> QED
  BY <1>1, <1>2, InvInductive, PTL DEF Spec, ImplementsAtomicLedger, Abs!Spec

-----------------------------------------------------------------------------
(* Power failures, where the lock is there and the file can be read.  A    *)
(* failure ends every update, so the invariant is still that the copies of *)
(* those inside update() are fresh; the updates they append to the file    *)
(* leave what may come back a prefix of it.                                *)

Legible == Flock /\ ~ReadErrors

PowerInv ==
    /\ SyncedFirst
    /\ Exclusive
    /\ CopyIsFresh
    /\ PowerLosesSuffix

IsPrefixOf(t, s) == Len(t) <= Len(s) /\ t = SubSeq(s, 1, Len(t))

LEMMA PrefixOfItself ==
    ASSUME NEW S, NEW s \in Seq(S)
    PROVE  IsPrefixOf(s, s)
BY DEF IsPrefixOf

LEMMA PrefixOfLonger ==
    ASSUME NEW S, NEW s \in Seq(S), NEW t \in Seq(S), NEW u \in S, IsPrefixOf(t, s)
    PROVE  IsPrefixOf(t, Append(s, u))
<1>1. /\ Len(s) \in Nat /\ Len(t) \in Nat /\ Len(t) <= Len(s)
      /\ Append(s, u) \in Seq(S)
      /\ Len(Append(s, u)) = Len(s) + 1
      /\ \A i \in 1 .. Len(s) : Append(s, u)[i] = s[i]
  BY DEF IsPrefixOf
<1>2. SubSeq(Append(s, u), 1, Len(t)) = SubSeq(s, 1, Len(t))
  BY <1>1
<1> QED
  BY <1>1, <1>2 DEF IsPrefixOf

LEMMA SuffixIsPrefix ==
    PowerLosesSuffix <=>
        \A v \in survivors : v # Torn /\ file # Torn /\ IsPrefixOf(v.log, file.log)
BY DEF PowerLosesSuffix, IsPrefixOf

LEMMA LocalKeepsPrefix ==
    ASSUME PowerInv, SyncedFirst', NEW p \in Procs, NEW to \in PC,
           pc' = [pc EXCEPT ![p] = to],
           UNCHANGED <<file, survivors, calls>>,
           \A q \in Procs \ {p} : state'[q] = state[q] /\ tmp'[q] = tmp[q],
           to \in Inside => holder' = p,
           \A q \in Procs \ {p} : pc[q] \in Inside => holder' = q,
           to = "read" => state'[p] = file.log,
           to \in {"mutated", "written", "synced"} =>
               state'[p] = Append(file.log, Current(p)),
           to \in {"written", "synced"} => tmp'[p].log = state'[p]
    PROVE  PowerInv'
<1>1. /\ pc'[p] = to
      /\ \A q \in Procs \ {p} : pc'[q] = pc[q]
  BY DEF PowerInv, SyncedFirst, TypeInv, TypeOK
<1>2. \A q \in Procs : Current(q)' = Current(q)
  BY DEF Current
<1>3. Exclusive'
  BY <1>1 DEF Exclusive
<1>4. CopyIsFresh'
  BY <1>1, <1>2 DEF PowerInv, CopyIsFresh
<1>5. PowerLosesSuffix'
  BY DEF PowerInv, PowerLosesSuffix
<1> QED
  BY <1>3, <1>4, <1>5 DEF PowerInv

LEMMA ReplaceKeepsPrefix ==
    ASSUME PowerInv, SyncedFirst', NEW p \in Procs, Replace(p)
    PROVE  PowerInv'
<1>1. /\ pc \in [Procs -> PC]
      /\ pc[p] = "synced" /\ pc'[p] = "replaced"
      /\ \A q \in Procs \ {p} : pc'[q] = pc[q]
      /\ UNCHANGED <<holder, calls, state>>
      /\ file' = tmp[p]
      /\ survivors' = survivors \cup {tmp[p]}
  BY DEF PowerInv, SyncedFirst, TypeInv, TypeOK, Replace, Goto
<1>2. Exclusive'
  BY <1>1 DEF PowerInv, Exclusive, Inside
<1>3. CopyIsFresh'
  BY <1>1 DEF PowerInv, Exclusive, CopyIsFresh, Inside, PC
<1>4. /\ file' \in Version /\ file' # Torn
      /\ file'.log \in Seq(Update)
      /\ file'.log = Append(file.log, Current(p))
  BY <1>1, TornAssumption DEF PowerInv, SyncedFirst, TypeInv, CopyIsFresh, Version
<1>5. file.log \in Seq(Update) /\ Current(p) \in Update
  BY <1>1, CurrentType, TornAssumption DEF PowerInv, SyncedFirst, TypeInv, TypeOK, Version
<1>6. ASSUME NEW v \in survivors
      PROVE  v # Torn /\ IsPrefixOf(v.log, file'.log)
  <2>1. v \in Version /\ v # Torn /\ IsPrefixOf(v.log, file.log)
    BY SuffixIsPrefix, TornAssumption DEF PowerInv, SyncedFirst, TypeInv, TypeOK
  <2>2. v.log \in Seq(Update)
    BY <2>1 DEF Version
  <2> QED
    BY <1>4, <1>5, <2>1, <2>2, PrefixOfLonger
<1>7. IsPrefixOf(file'.log, file'.log)
  BY <1>4, PrefixOfItself
<1>8. PowerLosesSuffix'
  <2>1. \A v \in survivors' : v # Torn /\ IsPrefixOf(v.log, file'.log)
    BY <1>1, <1>4, <1>6, <1>7
  <2> QED
    BY <1>4, <2>1 DEF PowerLosesSuffix, IsPrefixOf
<1> QED
  BY <1>2, <1>3, <1>8 DEF PowerInv

LEMMA ProcessKeepsPrefix ==
    ASSUME Legible, PowerInv, SyncedFirst', NEW p \in Procs,
           Call(p) \/ Step(p) \/ Crash(p)
    PROVE  PowerInv'
<1> DEFINE Moves(to) ==
        /\ to \in PC
        /\ pc' = [pc EXCEPT ![p] = to]
        /\ UNCHANGED <<file, survivors, calls>>
<1>0. /\ file # Torn
      /\ pc \in [Procs -> PC]
      /\ state \in [Procs -> Seq(Update)]
      /\ tmp \in [Procs -> Version \cup {None}]
      /\ \A q \in Procs : pc[q] \in Inside => holder = q
  BY TornAssumption DEF PowerInv, SyncedFirst, TypeInv, TypeOK, Exclusive
<1>1. CASE Call(p)
  <2>1. /\ pc[p] = "idle" /\ pc'[p] = "waiting"
        /\ \A q \in Procs \ {p} : pc'[q] = pc[q] /\ calls'[q] = calls[q]
        /\ UNCHANGED <<file, survivors, holder, state, tmp>>
    BY <1>0, <1>1 DEF Call, Goto, PowerInv, SyncedFirst, TypeInv, TypeOK
  <2>2. Exclusive'
    BY <2>1 DEF PowerInv, Exclusive, Inside
  <2>3. CopyIsFresh'
    BY <2>1 DEF PowerInv, CopyIsFresh, Current
  <2> QED
    BY <2>1, <2>2, <2>3 DEF PowerInv, PowerLosesSuffix
<1>2. CASE Lock(p)
  <2>1. Moves("locked") /\ holder = None /\ holder' = p
    BY <1>2 DEF Lock, Goto, Legible, PC
  <2>2. \A q \in Procs \ {p} : pc[q] \notin Inside
    BY <1>0, <2>1, StoreAssumption
  <2> QED
    BY <1>0, <1>2, <2>1, <2>2, LocalKeepsPrefix DEF Lock
<1>3. CASE Read(p)
  <2>1. Moves("read") /\ pc[p] \in Inside /\ state'[p] = file.log
    BY <1>0, <1>3 DEF Read, Goto, Legible, PC, Inside
  <2>2. \A q \in Procs \ {p} : state'[q] = state[q]
    BY <1>0, <1>3 DEF Read
  <2> QED
    BY <1>0, <1>3, <2>1, <2>2, LocalKeepsPrefix DEF Read
<1>4. CASE Mutate(p)
  <2>1. Moves("mutated") /\ pc[p] = "read" /\ pc[p] \in Inside
    BY <1>4 DEF Mutate, Goto, PC, Inside
  <2>2. state'[p] = Append(file.log, Current(p))
    BY <1>0, <1>4, <2>1 DEF Mutate, PowerInv, CopyIsFresh
  <2>3. \A q \in Procs \ {p} : state'[q] = state[q]
    BY <1>0, <1>4 DEF Mutate
  <2> QED
    BY <1>0, <1>4, <2>1, <2>2, <2>3, LocalKeepsPrefix DEF Mutate
<1>5. CASE MutateRaises(p)
  <2>1. Moves("raising") /\ pc[p] \in Inside
    BY <1>5 DEF MutateRaises, Goto, PC, Inside
  <2> QED
    BY <1>0, <1>5, <2>1, LocalKeepsPrefix DEF MutateRaises
<1>6. CASE WriteTmp(p)
  <2>1. Moves("written") /\ pc[p] = "mutated" /\ pc[p] \in Inside
    BY <1>6 DEF WriteTmp, Goto, PC, Inside
  <2>2. state[p] = Append(file.log, Current(p)) /\ state' = state
    BY <1>6, <2>1 DEF WriteTmp, PowerInv, CopyIsFresh
  <2>3. tmp'[p].log = state[p] /\ \A q \in Procs \ {p} : tmp'[q] = tmp[q]
    BY <1>0, <1>6 DEF WriteTmp
  <2> QED
    BY <1>0, <1>6, <2>1, <2>2, <2>3, LocalKeepsPrefix DEF WriteTmp
<1>7. CASE Fsync(p)
  <2>1. Moves("synced") /\ pc[p] = "written" /\ pc[p] \in Inside
    BY <1>7 DEF Fsync, Goto, PC, Inside
  <2>2. /\ state[p] = Append(file.log, Current(p)) /\ state' = state
        /\ tmp[p].log = state[p]
        /\ tmp[p] \in Version
    BY <1>7, <2>1 DEF Fsync, PowerInv, CopyIsFresh, SyncedFirst, TypeInv
  <2>3. tmp'[p].log = state[p] /\ \A q \in Procs \ {p} : tmp'[q] = tmp[q]
    BY <1>0, <1>7, <2>2 DEF Fsync, Version
  <2> QED
    BY <1>0, <1>7, <2>1, <2>2, <2>3, LocalKeepsPrefix DEF Fsync
<1>8. CASE Replace(p)
  BY <1>8, ReplaceKeepsPrefix
<1>9. CASE WriteFails(p)
  <2>1. Moves("raising") /\ pc[p] \in Inside
    BY <1>9 DEF WriteFails, Goto, PC, Inside
  <2>2. \A q \in Procs \ {p} : tmp'[q] = tmp[q]
    BY <1>0, <1>9 DEF WriteFails
  <2> QED
    BY <1>0, <1>9, <2>1, <2>2, LocalKeepsPrefix DEF WriteFails
<1>10. CASE Return(p) \/ Raise(p) \/ Crash(p)
  <2>1. Moves("idle") /\ state' = state
    BY <1>10 DEF Return, Raise, Crash, Goto, PC
  <2>2. \A q \in Procs \ {p} : tmp'[q] = tmp[q]
    BY <1>0, <1>10 DEF Return, Raise, Crash
  <2>3. \A q \in Procs \ {p} : pc[q] \in Inside => holder' = q
    BY <1>0, <1>10 DEF Return, Raise, Crash, Unlock
  <2> QED
    BY <2>1, <2>2, <2>3, LocalKeepsPrefix DEF Inside
<1> QED
  BY <1>1, <1>2, <1>3, <1>4, <1>5, <1>6, <1>7, <1>8, <1>9, <1>10 DEF Step

LEMMA PowerInvInductive == ASSUME Legible PROVE Spec => []PowerInv
<1>1. SyncedFirst /\ Init => PowerInv
  <2> SUFFICES ASSUME SyncedFirst, Init
               PROVE  PowerInv
    OBVIOUS
  <2>1. /\ file # Torn /\ survivors = {file}
        /\ file.log \in Seq(Update)
    BY TornAssumption DEF Init, SyncedFirst, TypeInv, TypeOK, Version
  <2>2. PowerLosesSuffix
    BY <2>1, PrefixOfItself, SuffixIsPrefix
  <2> QED
    BY <2>2 DEF Init, PowerInv, Inside, Exclusive, CopyIsFresh
<1>2. SyncedFirst' /\ PowerInv /\ [Next]_vars => PowerInv'
  <2> SUFFICES ASSUME SyncedFirst', PowerInv, [Next]_vars
               PROVE  PowerInv'
    OBVIOUS
  <2>1. ASSUME NEW p \in Procs, Call(p) \/ Step(p) \/ Crash(p)
        PROVE  PowerInv'
    BY <2>1, ProcessKeepsPrefix
  <2>2. ASSUME survivors' = {file'}
        PROVE  PowerLosesSuffix'
    <3>1. file' # Torn /\ file'.log \in Seq(Update)
      BY TornAssumption DEF SyncedFirst, TypeInv, TypeOK, Version
    <3>2. IsPrefixOf(file'.log, file'.log)
      BY <3>1, PrefixOfItself
    <3> QED
      BY <2>2, <3>1, <3>2 DEF PowerLosesSuffix, IsPrefixOf
  <2>3. CASE Writeback
    <3>1. file' = [file EXCEPT !.synced = TRUE] /\ file \in Version
      BY <2>3 DEF Writeback, PowerInv, SyncedFirst, TypeInv, TypeOK
    <3>2. file'.log = file.log
      BY <3>1 DEF Version
    <3> QED
      BY <2>2, <2>3, <3>2
         DEF Writeback, PowerInv, Exclusive, CopyIsFresh, Current
  <2>4. CASE PowerFailure
    <3>1. \A p \in Procs : pc'[p] = "idle"
      BY <2>4 DEF PowerFailure
    <3> QED
      BY <2>2, <2>4, <3>1
         DEF PowerFailure, PowerInv, Exclusive, CopyIsFresh, Inside
  <2>5. CASE UNCHANGED vars
    BY <2>5 DEF vars, PowerInv, Inside, Exclusive, CopyIsFresh, Current,
                PowerLosesSuffix
  <2> QED
    BY <2>1, <2>3, <2>4, <2>5 DEF Next
<1> QED
  BY <1>1, <1>2, SyncedFirstInductive, PTL DEF Spec

\* What a power failure takes back is the end of the ledger, however many
\* processes write and however often the power fails.
THEOREM PowerTakesTheEnd == ASSUME Legible PROVE Spec => []PowerLosesSuffix
<1>1. PowerInv => PowerLosesSuffix
  BY DEF PowerInv
<1> QED
  BY <1>1, PowerInvInductive, PTL
=============================================================================
