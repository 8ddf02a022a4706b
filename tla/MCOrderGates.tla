---------------------------- MODULE MCOrderGates ----------------------------
(***************************************************************************)
(* A small instance of OrderGates for TLC.                                 *)
(***************************************************************************)
EXTENDS OrderGates

Event(id, o, time, ingest, status, amount) ==
    [event_id |-> id, order_id |-> o, event_time |-> time, ingest_time |-> ingest,
     status |-> status, amount_cents |-> amount]

\* Order "a" completes, moves to the next day and is cancelled late; order "b"
\* has two events at one instant, one of them again, altered, and one whose
\* amount does not fit.
MCEvents ==
    {Event(1, "a", 0, 0, "completed", 2),
     Event(2, "a", 3, 1, "completed", 1),
     Event(3, "a", 1, 2, "cancelled", 0),
     Event(4, "b", 1, 1, "completed", 1),
     Event(5, "b", 1, 1, "completed", 2),
     Event(4, "b", 3, 3, "created", 1),
     Event(6, "b", 2, 0, "completed", 4)}

MCBatches == UNION {[1 .. n -> MCEvents] : n \in 0 .. 2}
=============================================================================
