--------------------------- MODULE MCEnvCollector ---------------------------
(* EnvCollector on environments of two variables.                          *)
EXTENDS EnvCollectorProps

Starts == {<<<<"a", "1">>, <<"b", "1">>>>, <<<<"a", "x=y">>, <<"b", "1">>>>}
Ends == {<<<<"a", "1">>, <<"b", "2">>>>, <<<<"b", "1">>, <<"c", "x=y">>>>, <<<<"a", "x=y">>>>}
=============================================================================
