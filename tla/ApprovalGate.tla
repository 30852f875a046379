----------------------------- MODULE ApprovalGate -----------------------------
(***************************************************************************)
(* What the system promises, without saying how: a fix is committed to when*)
(* it is offered, only a granted fix reaches the transformation file, the  *)
(* file never changes at any other time, and a granted incident is closed  *)
(* only with its fix wholly on disk (ADR-0016, ADR-0017, ADR-0025).        *)
(***************************************************************************)
EXTENDS Naturals, Sequences

CONSTANTS Contents, Torn, NoFix, Initial

VARIABLES
    ledger,  \* one entry per incident
    disk     \* the transformation file

gateVars == <<ledger, disk>>

Phases == {"noticed", "offered", "granted", "closed"}

Active == {i \in DOMAIN ledger : ledger[i].phase # "closed"}

GateInit == ledger = <<>> /\ disk = Initial

Notice ==
    /\ Active = {}
    /\ ledger' = Append(ledger, [phase |-> "noticed", fix |-> NoFix])
    /\ UNCHANGED disk

Offer(i) ==
    /\ ledger[i].phase = "noticed"
    /\ \E text \in Contents :
          ledger' = [ledger EXCEPT ![i] = [phase |-> "offered", fix |-> text]]
    /\ UNCHANGED disk

Grant(i) ==
    /\ ledger[i].phase = "offered"
    /\ ledger' = [ledger EXCEPT ![i].phase = "granted"]
    /\ UNCHANGED disk

Write(i) ==
    /\ ledger[i].phase = "granted"
    /\ disk' \in {Torn, ledger[i].fix}
    /\ UNCHANGED ledger

Close(i) ==
    /\ \/ ledger[i].phase \in {"noticed", "offered"}
       \/ ledger[i].phase = "granted" /\ disk = ledger[i].fix
    /\ ledger' = [ledger EXCEPT ![i].phase = "closed"]
    /\ UNCHANGED disk

GateNext ==
    \/ Notice
    \/ \E i \in DOMAIN ledger : Offer(i) \/ Grant(i) \/ Write(i) \/ Close(i)

GateSpec == GateInit /\ [][GateNext]_gateVars
=============================================================================
