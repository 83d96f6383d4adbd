---------------------------- MODULE MCAgentCalls ----------------------------
(* Two slots of routing.yaml, of two tiers and of three; an agent with a     *)
(* schema, one without, and a definition the registry must refuse.           *)
EXTENDS AgentCalls, TLC

CONSTANTS haiku, mini, flash, llama

MCTasks   == {"SUMMARIZE", "CLASSIFY"}
MCTargets == {haiku, mini, flash, llama}
MCProviderOf == (haiku :> "anthropic") @@ (mini :> "openai")
                  @@ (flash :> "google") @@ (llama :> "local")
MCTable ==
  "SUMMARIZE" :> ("low" :> <<haiku, mini, flash>>) @@
  "CLASSIFY"  :> ("low" :> <<haiku, llama, NoTarget>>)
MCAirGapped == [t \in Tasks |-> llama]
MCPrice  == [t \in Targets |-> IF t = llama THEN 0 ELSE 1]

Agent == [hidden |-> FALSE, named |-> TRUE, task |-> "SUMMARIZE", budget |-> "low",
          privacy |-> "standard", prompt |-> TRUE, schema |-> "json"]
MCDirectories == {Agent, [Agent EXCEPT !.task = "CLASSIFY", !.schema = "none"],
                  [Agent EXCEPT !.task = Unrecognised]}
MCCalls == 1..2
=============================================================================
