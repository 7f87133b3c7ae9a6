--------------------------- MODULE MCAntennaPorts ---------------------------
\* The instance of AntennaPorts that TLC checks: two built-in ranges, and three kinds of ports.
EXTENDS AntennaPorts

MCPorts   == {<<0, 0>>, <<1, 0>>, <<0, 1>>}
MCBuiltIn == <<[freq |-> 1, ports |-> <<0, 0>>], [freq |-> 2, ports |-> <<0, 0>>]>>
=============================================================================
