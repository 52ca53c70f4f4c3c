----------------------------- MODULE MCEswitchd -----------------------------
(* Symmetry of the vnics and the VFs of Eswitchd for TLC.                  *)
EXTENDS Eswitchd, TLC

EswitchSymmetry == Permutations(Vfs) \cup Permutations(Macs)

=============================================================================
