----------------------- MODULE MCPathDiscoveryCache -----------------------
(* Instances of PathDiscoveryCache. *)
EXTENDS PathDiscoveryCache

CONSTANTS AB, path1, path2
=============================================================================
