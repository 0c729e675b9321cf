-------------------------- MODULE MCDeviceLifetime --------------------------
(* Nothing tells two pipelines, two pointers or two devices apart.           *)
EXTENDS DeviceLifetime

Symmetry == Permutations(Pipelines) \cup Permutations(Pointers) \cup Permutations(Devices)
=============================================================================
