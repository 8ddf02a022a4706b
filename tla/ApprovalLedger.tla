--------------------------- MODULE ApprovalLedger ---------------------------
(***************************************************************************)
(* What the run lifecycle promises, whatever order its operations arrive   *)
(* in.  A run carries a packet of evidence.  While the run is open the     *)
(* packet may be revised freely; only an acceptable packet is approved; an *)
(* approved packet is either submitted as it stands or sent back; and a    *)
(* submitted run, or a run that a clean retry has superseded, never        *)
(* changes again.  ControlPlane is shown to implement this specification.  *)
(***************************************************************************)

CONSTANTS Runs,           \* the identifiers of runs
          Acceptable(_)   \* the packets that may be approved

VARIABLES phase,    \* where each run stands
          packet    \* the evidence each run carries

vars == <<phase, packet>>

Phases == {"absent", "open", "approved", "submitted", "superseded"}

Init == phase = [r \in Runs |-> "absent"]

\* Only run r's packet may differ in the next state.
OthersKeepPackets(r) == \A x \in Runs \ {r} : packet'[x] = packet[x]

Enter(r) ==
    /\ phase[r] = "absent"
    /\ phase' = [phase EXCEPT ![r] = "open"]
    /\ OthersKeepPackets(r)

\* A clean retry r of run p takes p out of play for good.
EnterAsRetry(r, p) ==
    /\ phase[r] = "absent"
    /\ phase[p] = "open"
    /\ ~Acceptable(packet[p])
    /\ phase' = [phase EXCEPT ![r] = "open", ![p] = "superseded"]
    /\ OthersKeepPackets(r)

Revise(r) ==
    /\ phase[r] = "open"
    /\ phase' = phase
    /\ OthersKeepPackets(r)

Approve(r) ==
    /\ phase[r] = "open"
    /\ Acceptable(packet[r])
    /\ phase' = [phase EXCEPT ![r] = "approved"]
    /\ packet' = packet

SendBack(r) ==
    /\ phase[r] = "approved"
    /\ phase' = [phase EXCEPT ![r] = "open"]
    /\ packet' = packet

Submit(r) ==
    /\ phase[r] = "approved"
    /\ phase' = [phase EXCEPT ![r] = "submitted"]
    /\ packet' = packet

Next ==
    \E r \in Runs :
        \/ Enter(r)
        \/ \E p \in Runs : EnterAsRetry(r, p)
        \/ Revise(r)
        \/ Approve(r)
        \/ SendBack(r)
        \/ Submit(r)

Spec == Init /\ [][Next]_vars
=============================================================================
