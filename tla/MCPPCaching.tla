----------------------------- MODULE MCPPCaching -----------------------------
EXTENDS PPCachingRefinement

CONSTANTS a, b, c, d, M, N, P, H, ann

MCPlain == {a, b, c, d}
MCSynthesized == {ann}
MCMacros == {M, N, P}
MCHeaders == {H}

(* A header that is a macro whose expansion ends in an empty one, and  *)
(* a macro that is one token.                                               *)
MCBody == (M :> <<b, N>>) @@ (N :> <<>>) @@ (P :> <<d>>) @@ (H :> <<M>>)

MCMainFiles == {<<a, H>>, <<P>>}
MCMainFile  == {<<a, b>>}

MCStreams == {<<c>>}
=============================================================================
