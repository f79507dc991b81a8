------------------------------- MODULE NetScan -------------------------------
(***************************************************************************)
(* The network scan of os/apps/network_diagnostics/network_diagnostics.c:  *)
(* a state machine that a task moves by one state a slice, from one probe  *)
(* of the target to the next.  Whether a port answers is an input.  The    *)
(* line that a complete scan appends to the audit log every 200 ticks is   *)
(* left out.                                                               *)
(* Definitions named Bad... are faulty variants of the one that follows.   *)
(***************************************************************************)
EXTENDS Integers, Sequences

CONSTANTS Loopback,  \* "127.0.0.1"
          Hosts      \* the other targets

VARIABLES
    scan,    \* current_state: the step, and the probe it is about
    target,  \* target_ip
    open,    \* icmp_reachable and tcp_..._open
    probed,  \* history: the target of the latest attempt of each probe
    fresh    \* history: the probes attempted since the scan was started
scanVars == <<scan, target, open, probed, fresh>>

Targets == {Loopback} \cup Hosts
Probes == <<"icmp", "tcp22", "tcp80", "tcp443">>  \* in the order they are made
ProbeSet == {Probes[k] : k \in 1 .. Len(Probes)}

At(step, k) == [step |-> step, probe |-> k]

(* network_diagnostics_init.                                               *)
ScanInit ==
    /\ scan = At("configured", 0)
    /\ target = Loopback
    /\ open = [p \in ProbeSet |-> FALSE]
    /\ probed = [p \in ProbeSet |-> Loopback]
    /\ fresh = {}
-----------------------------------------------------------------------------
BadResults(t) == open  \* of the target before

Results(t) == [p \in ProbeSet |-> FALSE]

(* network_diagnostics_set_target; network_diagnostics_reset sets the      *)
(* loopback address.                                                       *)
SetTarget(t) ==
    /\ target' = t
    /\ open' = Results(t)
    /\ scan' = At("configured", 0)
    /\ fresh' = {}
    /\ UNCHANGED probed

(* network_diagnostics_start: the results stay until they are made anew.   *)
StartScan ==
    /\ scan' = At("pending", 1)
    /\ fresh' = {}
    /\ UNCHANGED <<target, open, probed>>

(* network_diagnostics_stop.                                               *)
StopScan ==
    /\ scan' = At("idle", 0)
    /\ UNCHANGED <<target, open, probed, fresh>>

(* network_diagnostics_task.                                               *)
BeginScan ==
    /\ scan.step = "configured"
    /\ scan' = At("pending", 1)
    /\ UNCHANGED <<target, open, probed, fresh>>

(* check_tcp_nonblocking; no echo request is ever sent.                    *)
Answers(p) == IF p = "icmp" THEN {FALSE} ELSE BOOLEAN

Probe ==
    /\ scan.step = "pending"
    /\ LET p == Probes[scan.probe] IN
         /\ \E answer \in Answers(p) : open' = [open EXCEPT ![p] = answer]
         /\ probed' = [probed EXCEPT ![p] = target]
         /\ fresh' = fresh \cup {p}
    /\ scan' = At("result", scan.probe)
    /\ UNCHANGED target

Proceed ==
    /\ scan.step = "result"
    /\ scan' = IF scan.probe = Len(Probes) THEN At("complete", 0)
               ELSE At("pending", scan.probe + 1)
    /\ UNCHANGED <<target, open, probed, fresh>>

ScanNext ==
    \/ \E t \in Targets : SetTarget(t)
    \/ StartScan \/ StopScan
    \/ BeginScan \/ Probe \/ Proceed
-----------------------------------------------------------------------------
(* Whatever the order of set_target, start, stop and the task's slices, a  *)
(* port reported open answered at the target the report names, and a       *)
(* complete report was made since it was last asked for: a scan restarted  *)
(* or turned to another target half-way does not mix two.                  *)
ReportFresh ==
    /\ \A p \in ProbeSet : open[p] => probed[p] = target
    /\ scan.step = "complete" =>
         /\ fresh = ProbeSet
         /\ \A p \in ProbeSet : probed[p] = target
=============================================================================
