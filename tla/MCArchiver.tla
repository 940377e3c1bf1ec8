----------------------------- MODULE MCArchiver -----------------------------
EXTENDS Archiver

\* A registration with two components.
MCNodes    == {"root", "left", "right"}
MCParentOf == [n \in MCNodes \ {"root"} |-> "root"]
MCChain    == <<"root", "left", "right">>

\* A registration with one component, two addons each.
PairNodes    == {"root", "left"}
PairParentOf == [n \in {"left"} |-> "root"]
PairChain    == <<"root", "left">>

MCAddons  == {"osfstorage", "s3"}
MCTargets == [n \in MCNodes |-> IF n = "right" THEN {"osfstorage"} ELSE MCAddons]
PairTargets == [n \in PairNodes |-> MCAddons]
=============================================================================
