------------------------------ MODULE MCServices ------------------------------
(***************************************************************************)
(* The small instance of four services of the process: the embedded LLM,    *)
(* the vector indexes, the credentials of a provider, the update.  They     *)
(* share no state: a behaviour runs one of them, the others stay in their   *)
(* initial states.  The update is run in two parts, the one with what the   *)
(* user skips but no updater, the other with updaters but no skips and no   *)
(* background check.                                                        *)
(***************************************************************************)
EXTENDS EmbeddedServer, VectorRoots, ProviderTokens, SelfUpdate

VARIABLE part

ServicesInit ==
  /\ part \in {"embedded", "roots", "tokens", "skips", "swaps"}
  /\ EmbedInit /\ (part # "embedded" => ~manifest)
  /\ RootsInit /\ (part # "roots" => wanted)
  /\ TokensInit /\ (part # "tokens" => token = NoToken)
  /\ UpdateInit

ServicesNext ==
  /\ UNCHANGED part
  /\ \/ part = "embedded" /\ EmbedNext /\ UNCHANGED <<rootsVars, authVars, updateVars>>
     \/ part = "roots" /\ RootsNext /\ UNCHANGED <<embedVars, authVars, updateVars>>
     \/ part = "tokens" /\ TokensNext /\ UNCHANGED <<embedVars, rootsVars, updateVars>>
     \/ part = "skips" /\ UNCHANGED <<updater, embedVars, rootsVars, authVars>> /\ UpdateNext
     \/ part = "swaps" /\ UNCHANGED <<skipped, choice, embedVars, rootsVars, authVars>> /\ UpdateNext
                       /\ check'["background"] = check["background"]

ServicesSpec == ServicesInit /\ [][ServicesNext]_<<part, embedVars, rootsVars, authVars, updateVars>>
===============================================================================
