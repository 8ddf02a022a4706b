---------------------------- MODULE AtomicLedger ----------------------------
(***************************************************************************)
(* What a ledger file promises its writers: updates take effect one at a   *)
(* time, each on all that came before it; an acknowledged update is in the *)
(* ledger for good; an update that was refused is not in it and never will *)
(* be.  JsonStore is shown to implement this specification.                *)
(***************************************************************************)
EXTENDS Sequences

CONSTANT Updates

VARIABLES ledger,    \* the updates in effect, in order
          acked,     \* those whose caller was told they succeeded
          refused    \* those whose caller was told they failed

vars == <<ledger, acked, refused>>

Applied == {ledger[i] : i \in DOMAIN ledger}

Init == ledger = <<>> /\ acked = {} /\ refused = {}

Apply(u) ==
    /\ u \notin Applied \cup refused
    /\ ledger' = Append(ledger, u)
    /\ UNCHANGED <<acked, refused>>

Acknowledge(u) ==
    /\ u \in Applied
    /\ acked' = acked \cup {u}
    /\ UNCHANGED <<ledger, refused>>

Refuse(u) ==
    /\ u \notin Applied
    /\ refused' = refused \cup {u}
    /\ UNCHANGED <<ledger, acked>>

Next == \E u \in Updates : Apply(u) \/ Acknowledge(u) \/ Refuse(u)

Spec == Init /\ [][Next]_vars
=============================================================================
