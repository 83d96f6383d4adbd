---------------------- MODULE MCDiscoveryOrchestrator ----------------------
(* Two runs of the same host, evidence of two agents and of no agent; one    *)
(* item has no asset.                                                        *)
EXTENDS DiscoveryOrchestrator, TLC

CONSTANTS c1, c2, r1, r2, cpu, pci, port, route, host, hardware, security

OneCli        == {c1}
TwoClis       == {c1, c2}
OneRun        == {r1}
TwoRuns       == {r1, r2}
MCItems       == {cpu, pci, port, route}
TwoItems      == {cpu, port}
MCAssets      == {host}
MCAgents      == {hardware, security}
MCCategories  == {"inventory", "hardware", "security", "network"}
MCCategoryOf  == [i \in Items |-> CASE i = cpu -> "inventory"
                                    [] i = pci -> "hardware"
                                    [] i = port -> "security"
                                    [] OTHER -> "network"]
MCAgentFor    == [k \in Categories |->
                    CASE k \in {"inventory", "hardware"} -> hardware
                      [] k = "security" -> security
                      [] OTHER -> NoAgent]
MCAssetFor    == [i \in Items |-> IF i = pci THEN NoAsset ELSE host]
============================================================================
