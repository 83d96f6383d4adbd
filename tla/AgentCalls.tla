----------------------------- MODULE AgentCalls -----------------------------
(***************************************************************************)
(* The orchestrator's commands as clients of the model gateway: a command  *)
(* loads the agent registry (packages/agents-py), then asks the gateway    *)
(* once for each agent it runs, with the agent's task kind and schema and  *)
(* its own --budget and --privacy options, and gives up a call after its   *)
(* timeout. A command that ends is run again over the same definitions     *)
(* with the same options, while calls it gave up go on in the gateway.     *)
(***************************************************************************)
EXTENDS ModelGateway

CONSTANTS Directories,    \* agent directories, as they may be found
          ValidTaskKinds, \* registry.py's own copies of the gateway's types
          ValidBudgets,
          ValidPrivacy

VARIABLES
  installed,  \* the directories under agents/
  options,    \* the command's budget and privacy
  step,       \* what the command is doing
  todo,       \* agents the command has still to run
  made,       \* calls made so far; the command waits for the last one
  used        \* calls whose answer became observations or sections

client == <<installed, options, step, todo, made, used>>

\* An agent directory: what its name, agent.yaml and the files it names hold.
Directory == [hidden : BOOLEAN, named : BOOLEAN,
              task : ValidTaskKinds \cup {Unrecognised},
              budget : ValidBudgets \cup {Unrecognised},
              privacy : ValidPrivacy \cup {Unrecognised},
              prompt : BOOLEAN, schema : {"none", "json", "broken"}]

\* A task kind the gateway does not know is Unrecognised in the registry's copy too.
ASSUME CallsAssumption ==
  /\ Directories \subseteq Directory
  /\ ValidTaskKinds \subseteq Tasks \cup {Unrecognised}
  /\ Calls \subseteq Nat \ {0}

----------------------------------------------------------------------------
(* The registry.                                                            *)

\* Mutant: the task kind is not looked at.
WellDefinedAnyTask(d) ==
  /\ d.named /\ d.budget \in ValidBudgets /\ d.privacy \in ValidPrivacy
  /\ d.prompt /\ d.schema # "broken"

\* _load_one: a definition is refused if its name is not the directory's, an option
\* is not one of the known ones, its prompt is missing or its schema is not JSON.
\* It need not have a schema.
WellDefined(d) ==
  /\ d.named
  /\ d.task \in ValidTaskKinds /\ d.budget \in ValidBudgets /\ d.privacy \in ValidPrivacy
  /\ d.prompt /\ d.schema # "broken"

\* load: a directory that starts with "_" or has no agent.yaml is passed over.
Listed(D) == {d \in D : ~d.hidden}

\* One bad definition, or none at all, fails the load.
Loads(D) == Listed(D) # {} /\ \A d \in Listed(D) : WellDefined(d)

----------------------------------------------------------------------------
(* The command.                                                             *)

Options == [budget : Budgets \cup {Unrecognised}, privacy : Privacy \cup {Unrecognised}]

CallsInit ==
  /\ GatewayInit
  /\ installed \in SUBSET Directories
  /\ options \in Options
  /\ step = "idle" /\ todo = {} /\ made = 0 /\ used = {}

\* A command starts over the agents A its evidence calls for.
StartPass(A) ==
  /\ step = "idle" /\ Loads(installed) /\ A \subseteq Listed(installed)
  /\ step' = "calling" /\ todo' = A
  /\ UNCHANGED <<gateway, installed, options, made, used>>

\* The body of the call for agent g: the privacy of its definition is not in it.
Body(g) == [task |-> g.task, budget |-> options.budget, privacy |-> options.privacy,
            schema |-> g.schema = "json"]

Ask(g) ==
  /\ step = "calling" /\ g \in todo /\ made + 1 \in Calls
  /\ Accept(made + 1, Body(g))
  /\ made' = made + 1
  /\ todo' = todo \ {g}
  /\ step' = "waiting"
  /\ UNCHANGED <<installed, options, used>>

\* Mutant: content that was not validated is used too.
ReceiveAny ==
  /\ step = "waiting" /\ phase[made] = "answered"
  /\ used' = used \cup {made}
  /\ step' = "calling"
  /\ UNCHANGED <<gateway, installed, options, todo, made>>

\* The answer arrives. Only parsed content is used, which the gateway provides for
\* answers it has validated.
Receive ==
  /\ step = "waiting" /\ phase[made] = "answered"
  /\ used' = IF answer[made].verdict = "valid" THEN used \cup {made} ELSE used
  /\ step' = "calling"
  /\ UNCHANGED <<gateway, installed, options, todo, made>>

\* The gateway answers an error, or the client's timeout expires or its connection
\* breaks while the gateway is still at it: the command ends.
PassFails ==
  /\ step = "waiting" /\ phase[made] # "answered"
  /\ step' = "idle" /\ todo' = {}
  /\ UNCHANGED <<gateway, installed, options, made, used>>

EndPass ==
  /\ step = "calling" /\ todo = {}
  /\ step' = "idle"
  /\ UNCHANGED <<gateway, installed, options, todo, made, used>>

CallsNext ==
  \/ \E A \in SUBSET Directories : StartPass(A)
  \/ \E g \in Directories : Ask(g)
  \/ Receive \/ PassFails \/ EndPass
  \/ \E k \in Calls : Handle(k) /\ UNCHANGED client

\* The gateway's handlers run, and every provider answers or raises in the end: the
\* SDKs and the local adapter have timeouts of their own.
CallsSpec ==
  /\ CallsInit /\ [][CallsNext]_<<gateway, client>>
  /\ \A k \in Calls : WF_<<gateway, client>>(Handle(k) /\ UNCHANGED client)

----------------------------------------------------------------------------
\* What an agent's observations or sections are made of has been validated against
\* the schema of an agent the registry loaded, whoever left the schema out or
\* answered late.
UsedContentIsValidated ==
  \A k \in used :
     /\ phase[k] = "answered" /\ answer[k].verdict = "valid" /\ request[k].schema
     /\ \E g \in Listed(installed) : WellDefined(g) /\ g.task = request[k].task

\* The gateway refuses a registered agent's call for the command's options only:
\* the registry, the gateway's types and the routing table agree on what is valid.
RegisteredAgentsAreServed ==
  \A k \in Calls :
     /\ phase[k] = "rejected" => Unrecognised \in {options.budget, options.privacy}
     /\ phase[k] = "failed" => tried[k] # {}

\* Every call the gateway has accepted ends, with its client or without.
EveryCallEnds ==
  \A k \in Calls : phase[k] \in {"choose", "await"} ~> phase[k] \in Ended
=============================================================================
