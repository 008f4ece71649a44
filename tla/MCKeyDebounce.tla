--------------------------- MODULE MCKeyDebounce ---------------------------
(* Keys::poll over two keys, Fn and one function key, polled at irregular  *)
(* intervals, so that the debouncing of one meets every phase of the       *)
(* other; and over the part of F_FN_MAPPING that can chain.                *)
EXTENDS KeyDebounce

MCLocations == {"fn", "f5"}
MCKeyAt == [l \in MCLocations |-> IF l = "fn" THEN "Function" ELSE "F5"]
MCFKeys == <<"F3", "F4", "F5", "F6">>
MCFnMapping == <<"FunctionUnifying", "FunctionUnpairAll", "F4", "F5">>
MCIntervals == {1, 2, 3, 6}
=============================================================================
