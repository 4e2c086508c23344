-------------------------- MODULE MCChainAdmission --------------------------
(* Small instances of ChainAdmission: three domains, of 1, 2 and unlimited    *)
(* permits, and chains of up to four groups.                                  *)
EXTENDS ChainAdmission, TLC

MCDomains == {"x", "y", "z"}
MCCapacity == ("x" :> 1) @@ ("y" :> 2) @@ ("z" :> 0)

\* Pipelines that meet their bounded domains in one order: x before y.
OrderedChains ==
  ("a" :> <<"x", "z", "y">>) @@ ("b" :> <<"x", "x", "y">>) @@ ("c" :> <<"z", "y", "y", "z">>)
\* One pipeline that comes back to a bounded domain past another one.
ReentrantChain == ("a" :> <<"x", "z", "x">>)
=============================================================================
