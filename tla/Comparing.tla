----------------------------- MODULE Comparing ------------------------------
(***************************************************************************)
(* compare as it runs beside the other handlers: it takes the records from *)
(* the ledger in one load, gives the lock back, and judges them against    *)
(* the files later, when the ledger may be another.                        *)
(***************************************************************************)
EXTENDS Comparison, TLC

VARIABLES
    loaded,     \* the records the comparison under way has taken
    counted     \* the runs of the last comparison that passed

compare_vars == <<loaded, counted>>

Nothing == [r \in {} |-> None]

CompareInit ==
    /\ Init
    /\ loaded = Nothing
    /\ counted = {}

\* What the records alone decide: a comparison they fail cannot pass.
Promising(records) ==
    /\ Comparable(records)
    /\ HashesMatch(records)
    /\ \A r \in DOMAIN records : Complete(records[r].contract, records[r].evidence)

\* Mutation: the ledger is loaded anew for each run id.
LoadOneByOne(ids) ==
    /\ \E r \in (ids \cap Registered) \ DOMAIN loaded :
          /\ loaded' = loaded @@ Loaded({r})
          /\ Promising(loaded')
    /\ UNCHANGED <<vars, counted>>

\* compare up to the end of its load.  Only records that may still pass are
\* kept; a comparison of others fails whatever becomes of the files, and
\* changes nothing.
Load(ids) ==
    /\ loaded = Nothing
    /\ ids \subseteq Registered
    /\ Promising(Loaded(ids))
    /\ loaded' = Loaded(ids)
    /\ UNCHANGED <<vars, counted>>

\* The rest of compare.
Judge(ids) ==
    /\ DOMAIN loaded = ids
    /\ counted' = IF ComparisonPasses(loaded) THEN ids ELSE counted
    /\ loaded' = Nothing
    /\ UNCHANGED vars

\* Groups of runs worth comparing have two members at least.
Groups == {ids \in SUBSET RunIds : \E r, x \in ids : r # x}

CompareNext ==
    \/ Next /\ UNCHANGED compare_vars
    \/ \E ids \in Groups : Load(ids) \/ Judge(ids)

CompareSpec == CompareInit /\ [][CompareNext]_<<vars, compare_vars>>

-----------------------------------------------------------------------------
(* Safety.                                                                 *)

\* An attempt and its clean retry never count in one passed comparison, then
\* or ever after, although either may have been complete at some time and the
\* ledger moves on while compare judges (compare, _validate_retry).
NeverBothCount ==
    \A r, x \in counted : runs[x].retry_of # r
=============================================================================
