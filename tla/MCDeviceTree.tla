---------------------------- MODULE MCDeviceTree ----------------------------
(* A small tree: \a holds the directory \a\a, with a file, and the file    *)
(* \a\b; \b is an empty directory.                                         *)
EXTENDS DeviceTree
CONSTANTS a, b, d1, d2, c1, c2

MCSymmetry == Permutations(Clients)

MCTree == [i \in 1 .. 5 |->
  CASE i = 1 -> [parent |-> 0, name |-> a, dir |-> TRUE,  content |-> Dir]
    [] i = 2 -> [parent |-> 1, name |-> a, dir |-> TRUE,  content |-> Dir]
    [] i = 3 -> [parent |-> 1, name |-> b, dir |-> FALSE, content |-> d1]
    [] i = 4 -> [parent |-> 2, name |-> a, dir |-> FALSE, content |-> d2]
    [] i = 5 -> [parent |-> 0, name |-> b, dir |-> TRUE,  content |-> Dir]]
MCPaths == {<<a>>, <<b>>, <<a, a>>, <<a, b>>, <<b, a>>, <<a, a, a>>, <<b, a, b>>}
=============================================================================
