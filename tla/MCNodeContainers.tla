-------------------------- MODULE MCNodeContainers --------------------------
(* Containers of up to four nodes, one more than can be shown.  The        *)
(* debuggee runs once: before or after the container is formatted.         *)
EXTENDS NodeContainers, TLC

MCNodes == 1 .. 4
MCBeyond == {1, Header, Bad}
MCKinds == {"list", "forward_list", "hash", "stdcpp_tree", "libcxx_tree"}
=============================================================================
