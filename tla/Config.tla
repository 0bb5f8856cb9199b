-------------------------------- MODULE Config --------------------------------
(***************************************************************************)
(* config.go: which host the client talks to. A URL is the name of the     *)
(* environment it belongs to: Unset is the empty string and Own stands for *)
(* any URL that is none of Bybit's.                                        *)
(***************************************************************************)

CONSTANTS Unset, Own

Place == {"rest", "publicLinear", "publicSpot", "private"}

\* Where DefaultConfig points, all of it at production.
DefaultURL == [place \in Place |-> "production"]

TestnetURL == [place \in Place |-> "testnet"]

\* There is no public stream of Demo Trading: its market data is that of production.
DemoURL == [place \in Place |-> IF place \in {"rest", "private"} THEN "demo" ELSE "production"]

\* Testnet takes precedence if both are asked for.
EndpointsFor(testnet, demo) ==
    IF testnet THEN TestnetURL ELSE IF demo THEN DemoURL ELSE DefaultURL

\* Mutant of ResolveEndpoint: only an empty URL counts as unset.
ResolveEndpointEmpty(current, productionDefault, envDefault) ==
    IF current = Unset THEN envDefault ELSE current

\* An empty URL and the default of production count as unset.
ResolveEndpoint(current, productionDefault, envDefault) ==
    IF current \in {Unset, productionDefault} THEN envDefault ELSE current

\* A configuration as the program gives it: flags, URLs, and whether it has keys.
GivenConfig == [testnet : BOOLEAN, demo : BOOLEAN,
                url : [Place -> {Unset, "production", Own}], keys : BOOLEAN]

\* NewClient works with a configuration whose URLs are all set, which makes validate pass.
WithDefaults(config) ==
    [config EXCEPT !.url =
        [place \in Place |->
            ResolveEndpoint(config.url[place], DefaultURL[place],
                            EndpointsFor(config.testnet, config.demo)[place])]]

===============================================================================
