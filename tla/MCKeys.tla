------------------------------- MODULE MCKeys -------------------------------
(* The key task over a matrix with the Fn key and F5. *)
EXTENDS Keys

MCLocations == {"fn", "f5"}
MCKeyAt == [l \in MCLocations |-> IF l = "fn" THEN "Function" ELSE "F5"]
MCFKeys == <<"F4", "F5">>
MCFnMapping == <<"FunctionUnpairAll", "F4">>
=============================================================================
