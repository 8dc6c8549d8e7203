----------------------------- MODULE MCStartup -----------------------------
(* Three GPUs on two platforms for the model checker. *)
EXTENDS Startup

MCPlatformOf == <<1, 2, 2>>
MCIdLists    == {<<1, 3>>, <<3, 2, 3>>, <<9>>}

(* Solo or not, and up to two other options. *)
MCCommandLines ==
  {o \in Options : Cardinality({f \in DOMAIN o \ {"solo"} : o[f] # NotGiven}) <= 2}
=============================================================================
