\* The three harnesses, anything at their destinations, killed and rerun, and
\* changed by others at any time.
SPECIFICATION Spec
INVARIANTS
    LinkedMeansLinked
    UndisturbedRunSucceeds
PROPERTIES
    RemovesLinksOnly
