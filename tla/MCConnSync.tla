----------------------------- MODULE MCConnSync -----------------------------
(* TLC instances of ConnSync: clients are interchangeable, and a run says which *)
(* requests they make.                                                          *)
EXTENDS ConnSync, TLC

AllKinds == Kinds \X BOOLEAN
Mixed    == {<<"tree", FALSE>>, <<"pull", TRUE>>, <<"push", TRUE>>}
TreePush == {<<"tree", TRUE>>, <<"push", TRUE>>, <<"tree", FALSE>>}

ClientSymmetry == Permutations(Clients)
=============================================================================
