---------------------------- MODULE MCServicesLive ----------------------------
(***************************************************************************)
(* The liveness of the services, on a smaller instance than MCServices': a  *)
(* behaviour runs one of them.                                              *)
(***************************************************************************)
EXTENDS EmbeddedServer, ProviderTokens, SelfUpdate

VARIABLE part

ServicesLiveInit ==
  /\ part \in {"embedded", "tokens", "update"}
  /\ EmbedInit /\ (part # "embedded" => ~manifest)
  /\ TokensInit /\ (part # "tokens" => token = NoToken)
  /\ UpdateInit

ServicesLiveNext ==
  /\ UNCHANGED part
  /\ \/ part = "embedded" /\ EmbedNext /\ UNCHANGED <<authVars, updateVars>>
     \/ part = "tokens" /\ TokensNext /\ UNCHANGED <<embedVars, updateVars>>
     \/ part = "update" /\ UNCHANGED <<skipVars, embedVars, authVars>> /\ UpdateNext

ServicesLiveSpec ==
  /\ ServicesLiveInit /\ [][ServicesLiveNext]_<<part, embedVars, authVars, updateVars>>
  /\ EmbedFairness /\ TokensFairness /\ UpdateFairness

(* Every call of the services comes back: loads and unloads of the model,   *)
(* the waits for a token, every staged updater; and an idle model is        *)
(* unloaded.                                                                *)
ServiceCallsEnd == EmbedCallsEnd /\ IdleUnloads /\ TokenCallsEnd /\ UpdatersEnd
===============================================================================
