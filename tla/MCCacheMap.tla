------------------------------ MODULE MCCacheMap ------------------------------
(* Three threads, two paths.  Every two operations that can hurt each      *)
(* other are in the menus of two threads.                                  *)
EXTENDS CacheMap
CONSTANTS u1, u2, u3, a, b
MCMenu == [u \in Users |-> CASE u = u1 -> {"write"}
                             [] u = u2 -> {"move", "movedir", "delete"}
                             [] u = u3 -> {"read", "write", "list", "create", "move"}]
=============================================================================
