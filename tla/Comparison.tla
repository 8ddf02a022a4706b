----------------------------- MODULE Comparison -----------------------------
(***************************************************************************)
(* ControlPlane.compare: the verdict on some records of the ledger, given  *)
(* as a function from run ids to what compare reads of a record.  The      *)
(* report beside the verdict is left out.                                  *)
(***************************************************************************)
EXTENDS ControlPlane

Loaded(ids) ==
    [r \in ids |-> [contract |-> runs[r].contract, evidence |-> runs[r].evidence]]

\* What runs may differ in and still be compared.
PerRunFields == {"candidate", "attempt"}

\* Mutation: records without recorded requirements are compared like others.
ComparableLegacy(records) ==
    \A r, x \in DOMAIN records, f \in ContractFields \ PerRunFields :
        records[r].contract[f] = records[x].contract[f]

\* _comparison_mismatches: legacy records do not even compare with each other.
Comparable(records) ==
    /\ \A r, x \in DOMAIN records, f \in ContractFields \ PerRunFields :
          records[r].contract[f] = records[x].contract[f]
    /\ \A r \in DOMAIN records :
          records[r].contract.requirements # LEGACY_REQUIREMENTS_HASH

HashesMatch(records) ==
    \A r, x \in DOMAIN records :
        /\ records[r].evidence.result_hash # None
        /\ records[r].evidence.result_hash = records[x].evidence.result_hash

\* Every record is judged again, whatever its status says.
ComparisonPasses(records) ==
    /\ Comparable(records)
    /\ \A r \in DOMAIN records :
          /\ Complete(records[r].contract, records[r].evidence)
          /\ Fresh(records[r].evidence)
    /\ HashesMatch(records)
=============================================================================
