----------------------------- MODULE MCExporter -----------------------------
(***************************************************************************)
(* Two launcher pods of one machine, the second after the first or beside  *)
(* it, and a pod whose interface has a name with an underscore.            *)
(***************************************************************************)
EXTENDS Exporter

CONSTANTS s1, s2, s3, ns, vm1, eth0, net1

Launcher(suffix) == [launcher |-> TRUE, stem |-> vm1, suffix |-> suffix]
Plain == [launcher |-> FALSE, stem |-> NoVm, suffix |-> 0]

MCIdOf ==
    [s \in Sandboxes |->
        CASE s = s1 -> <<ns, Launcher(1), eth0>>
          [] s = s2 -> <<ns, Launcher(2), eth0>>
          [] s = s3 -> <<ns, Plain, net1, eth0>>]
=============================================================================
