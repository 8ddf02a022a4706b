----------------------------- MODULE JsonStore ------------------------------
(***************************************************************************)
(* AtomicJsonStore: a JSON file that several processes (or threads) update *)
(* by reading it, changing it in memory and replacing it, under an         *)
(* advisory lock.  Each system call whose outcome another process, a crash *)
(* or a power failure can observe is a step.                               *)
(*                                                                         *)
(* The content of the file is the sequence of updates made to it, as the   *)
(* "events" of the ledger are.  A missing file reads as the empty ledger   *)
(* and is modelled as one.  Temporary files have unique names, so those a  *)
(* crash leaves behind are never looked at and are left out.               *)
(***************************************************************************)
EXTENDS Naturals, Sequences

CONSTANTS
    Procs,        \* the processes and threads that use the store
    MaxUpdates,   \* how many updates each of them makes
    Flock,        \* fcntl is there: TRUE except on Windows
    ReadErrors,   \* reading the file may raise OSError
    PowerFails,   \* the machine may lose power
    None,         \* no process
    Torn          \* a file cut short: not JSON

ASSUME StoreAssumption ==
    /\ MaxUpdates \in Nat
    /\ Flock \in BOOLEAN /\ ReadErrors \in BOOLEAN /\ PowerFails \in BOOLEAN
    /\ None \notin Procs

Update == Procs \X (1 .. MaxUpdates)

\* A file as the kernel holds it: its content, and whether the bytes are known
\* to be on the medium.
Version == [log : Seq(Update), synced : BOOLEAN]

ASSUME TornAssumption == Torn \notin Version /\ None \notin Version

PC == {"idle", "waiting", "locked", "read", "mutated", "written", "synced",
       "replaced", "raising"}

VARIABLES
    file,        \* what the path names
    survivors,   \* the versions a power failure may leave under the path
    holder,      \* who holds the lock
    pc,          \* where each process is inside update()
    calls,       \* how many updates each process has begun
    state,       \* each process's copy of the ledger in memory
    tmp,         \* each process's temporary file
    acked,       \* the updates that returned
    refused      \* the updates that raised

vars == <<file, survivors, holder, pc, calls, state, tmp, acked, refused>>

TypeOK ==
    /\ file \in Version \cup {Torn}
    /\ survivors \subseteq Version \cup {Torn}
    /\ holder \in Procs \cup {None}
    /\ pc \in [Procs -> PC]
    /\ calls \in [Procs -> 0 .. MaxUpdates]
    /\ state \in [Procs -> Seq(Update)]
    /\ tmp \in [Procs -> Version \cup {None}]
    /\ acked \subseteq Update
    /\ refused \subseteq Update

empty_state == <<>>

NoFile == [log |-> empty_state, synced |-> TRUE]

Init ==
    /\ file = NoFile
    /\ survivors = {NoFile}
    /\ holder = None
    /\ pc = [p \in Procs |-> "idle"]
    /\ calls = [p \in Procs |-> 0]
    /\ state = [p \in Procs |-> empty_state]
    /\ tmp = [p \in Procs |-> None]
    /\ acked = {}
    /\ refused = {}

\* The update process p is making.
Current(p) == <<p, calls[p]>>

Goto(p, from, to) == pc[p] = from /\ pc' = [pc EXCEPT ![p] = to]

-----------------------------------------------------------------------------
(* update(), up to the replacement of the file.                            *)

Call(p) ==
    /\ calls[p] < MaxUpdates
    /\ Goto(p, "idle", "waiting")
    /\ calls' = [calls EXCEPT ![p] = @ + 1]
    /\ UNCHANGED <<file, survivors, holder, state, tmp, acked, refused>>

\* Mutation: the lock is taken without waiting for it to be free.
LockWithoutWaiting(p) ==
    /\ Goto(p, "waiting", "locked")
    /\ holder' = p
    /\ UNCHANGED <<file, survivors, calls, state, tmp, acked, refused>>

Lock(p) ==
    /\ Goto(p, "waiting", "locked")
    /\ IF Flock THEN holder = None /\ holder' = p ELSE UNCHANGED holder
    /\ UNCHANGED <<file, survivors, calls, state, tmp, acked, refused>>

\* _read_unlocked: whatever cannot be read or parsed is the empty ledger.
Read(p) ==
    /\ Goto(p, "locked", "read")
    /\ \E s \in {IF file = Torn THEN empty_state ELSE file.log}
                    \cup (IF ReadErrors THEN {empty_state} ELSE {}) :
          state' = [state EXCEPT ![p] = s]
    /\ UNCHANGED <<file, survivors, holder, calls, tmp, acked, refused>>

Mutate(p) ==
    /\ Goto(p, "read", "mutated")
    /\ state' = [state EXCEPT ![p] = Append(@, Current(p))]
    /\ UNCHANGED <<file, survivors, holder, calls, tmp, acked, refused>>

\* Mutation: the ledger that mutate was changing is written although it raised.
MutateRaisesAndWrites(p) ==
    /\ pc[p] = "read"
    /\ pc' = [pc EXCEPT ![p] = "raising"]
    /\ file' = [log |-> Append(state[p], Current(p)), synced |-> TRUE]
    /\ survivors' = survivors \cup {file'}
    /\ UNCHANGED <<holder, calls, state, tmp, acked, refused>>

MutateRaises(p) ==
    /\ Goto(p, "read", "raising")
    /\ UNCHANGED <<file, survivors, holder, calls, state, tmp, acked, refused>>

WriteTmp(p) ==
    /\ Goto(p, "mutated", "written")
    /\ tmp' = [tmp EXCEPT ![p] = [log |-> state[p], synced |-> FALSE]]
    /\ UNCHANGED <<file, survivors, holder, calls, state, acked, refused>>

Fsync(p) ==
    /\ Goto(p, "written", "synced")
    /\ tmp' = [tmp EXCEPT ![p].synced = TRUE]
    /\ UNCHANGED <<file, survivors, holder, calls, state, acked, refused>>

\* Mutation: the file is replaced before it is synced.
ReplaceUnsynced(p) ==
    /\ \E from \in {"written", "synced"} : Goto(p, from, "replaced")
    /\ file' = tmp[p]
    /\ survivors' = survivors \cup {tmp[p]}
    /\ tmp' = [tmp EXCEPT ![p] = None]
    /\ UNCHANGED <<holder, calls, state, acked, refused>>

\* os.replace: the name changes hands at once, but which of the two versions
\* it names after a power failure is open until the directory is written.
Replace(p) ==
    /\ Goto(p, "synced", "replaced")
    /\ file' = tmp[p]
    /\ survivors' = survivors \cup {tmp[p]}
    /\ tmp' = [tmp EXCEPT ![p] = None]
    /\ UNCHANGED <<holder, calls, state, acked, refused>>

\* Mutation: the error is swallowed once the temporary file is removed.
WriteFailsSilently(p) ==
    /\ \E from \in {"mutated", "written"} : Goto(p, from, "synced")
    /\ tmp' = [tmp EXCEPT ![p] = None]
    /\ UNCHANGED <<file, survivors, holder, calls, state, acked, refused>>

\* A full disk, say: the temporary file is removed and the error goes on.
WriteFails(p) ==
    /\ \E from \in {"mutated", "written", "synced"} : Goto(p, from, "raising")
    /\ tmp' = [tmp EXCEPT ![p] = None]
    /\ UNCHANGED <<file, survivors, holder, calls, state, acked, refused>>

-----------------------------------------------------------------------------
(* The ways out of update(), all of which release the lock.                *)

Unlock(p) == holder' = IF holder = p THEN None ELSE holder

Return(p) ==
    /\ Goto(p, "replaced", "idle")
    /\ Unlock(p)
    /\ acked' = acked \cup {Current(p)}
    /\ UNCHANGED <<file, survivors, calls, state, tmp, refused>>

\* Mutation: the lock is not released on the way out of an error.
RaiseHoldingLock(p) ==
    /\ Goto(p, "raising", "idle")
    /\ refused' = refused \cup {Current(p)}
    /\ UNCHANGED <<file, survivors, holder, calls, state, tmp, acked>>

Raise(p) ==
    /\ Goto(p, "raising", "idle")
    /\ Unlock(p)
    /\ refused' = refused \cup {Current(p)}
    /\ UNCHANGED <<file, survivors, calls, state, tmp, acked>>

\* The process dies and is started again.  The kernel drops its lock; nobody
\* is told what became of its update.
Crash(p) ==
    /\ pc[p] # "idle"
    /\ pc' = [pc EXCEPT ![p] = "idle"]
    /\ Unlock(p)
    /\ tmp' = [tmp EXCEPT ![p] = None]
    /\ UNCHANGED <<file, survivors, calls, state, acked, refused>>

-----------------------------------------------------------------------------
(* The machine.                                                            *)

\* The kernel writes everything out.
Writeback ==
    /\ file # Torn
    /\ file' = [file EXCEPT !.synced = TRUE]
    /\ survivors' = {file'}
    /\ UNCHANGED <<holder, pc, calls, state, tmp, acked, refused>>

\* Content that was never synced may come back cut short.
PowerFailure ==
    /\ PowerFails
    /\ \E v \in survivors :
          file' \in (IF v = Torn \/ v.synced THEN {v} ELSE {v, Torn})
    /\ survivors' = {file'}
    /\ holder' = None
    /\ pc' = [p \in Procs |-> "idle"]
    /\ tmp' = [p \in Procs |-> None]
    /\ UNCHANGED <<calls, state, acked, refused>>

Step(p) ==
    \/ Lock(p) \/ Read(p)
    \/ Mutate(p) \/ MutateRaises(p)
    \/ WriteTmp(p) \/ Fsync(p) \/ Replace(p) \/ WriteFails(p)
    \/ Return(p) \/ Raise(p)

Next ==
    \/ \E p \in Procs : Call(p) \/ Step(p) \/ Crash(p)
    \/ Writeback
    \/ PowerFailure

Spec == Init /\ [][Next]_vars

\* A process inside update() runs on, and gets the lock if it stays free.
FairSpec == Spec /\ \A p \in Procs : WF_vars(Step(p))

-----------------------------------------------------------------------------
(* Properties.                                                             *)

InLog(u) == file # Torn /\ \E i \in DOMAIN file.log : file.log[i] = u

\* An update whose call returned is in the ledger and stays there, whichever
\* processes raced with it, failed or died.
AckedSurvive == \A u \in acked : InLog(u)

\* A reader never finds half a ledger (which it would take for an empty one),
\* not even after a power failure: the content is synced before the name is.
NeverTorn == file # Torn /\ Torn \notin survivors

\* What a power failure takes is the end of the ledger, never its middle:
\* every version that may come back is a prefix of the present one.
PowerLosesSuffix ==
    \A v \in survivors :
        /\ v # Torn /\ file # Torn
        /\ Len(v.log) <= Len(file.log)
        /\ v.log = SubSeq(file.log, 1, Len(v.log))

\* Every update ends: the lock is let go by those who return, raise and die.
EveryUpdateEnds == \A p \in Procs : pc[p] # "idle" ~> pc[p] = "idle"

Abs == INSTANCE AtomicLedger WITH
           Updates <- Update,
           ledger  <- IF file = Torn THEN <<>> ELSE file.log

\* The store is an atomic ledger.
ImplementsAtomicLedger == Abs!Spec
=============================================================================
