------------------------------- MODULE MCWire -------------------------------
(***************************************************************************)
(* Wire with the unions and structs of protocol/generated_types.go.        *)
(***************************************************************************)
EXTENDS Wire

T == INSTANCE Unions

MCUnions == T!UnionTable

MCStructs == T!StructTable

MCFreeKeys == {"id", "_meta", "arguments", "inputSchema", "output", "phase",
               "requestedSchema"}

\* The only unions whose variants the generated code cannot tell apart: their
\* schema names the variants by "kind" and by "mode".
ASSUME {n \in DOMAIN Unions : ~Distinguishable(Unions[n])} =
           {"FileSystemSpecialPath", "McpServerElicitationRequestParams"}
=============================================================================
