------------------------- MODULE MCArrayContainers -------------------------
(* Containers of up to seven elements, of which at most six may be shown:  *)
(* nodes of four bytes, local buffers of four, bytes of sixteen values,    *)
(* and text of which one character, of at most two bytes, is printed.      *)
EXTENDS ArrayContainers, TLC

MCKinds == {"vector", "array", "libcxx_valarray", "sub_match", "valarray", "slice_array",
            "match_results", "stdcpp_deque", "libcxx_deque", "bitset", "string_view",
            "zstring", "cow_string", "cxx11_string", "libcxx_string"}
MCBases == {40}
MCBlockSizes == <<2, 4, 2>>
MCElementSizes == {1, 2, 3, 4, 5}
=============================================================================
