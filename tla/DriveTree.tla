------------------------------ MODULE DriveTree ------------------------------
(***************************************************************************)
(* What the drive promises about the tree of files on a device, one        *)
(* request at a time.  A tree is a set of entries, a path with what is     *)
(* there: the content of a file, or Dir.  As long as nothing has gone      *)
(* wrong, a request is done completely or not at all, and the answer says  *)
(* which.  After trouble, a failed call of the device or a request given   *)
(* up half way, a request still touches nothing but what lies at or under  *)
(* its own paths.                                                          *)
(***************************************************************************)
EXTENDS Sequences, SequencesExt

CONSTANTS Contents,  \* what a file may hold
          Dir        \* marks a directory

VARIABLES view,      \* the entries on the device: [path, content]
          answered,  \* the request answered last: [kind, path, to, ok]
          trouble    \* what has gone wrong so far

vars == <<view, answered, trouble>>

At(p) == {e \in view : e.path = p}
Under(p) == {e \in view : IsPrefix(p, e.path)}
IsDir(p) == p = <<>> \/ \E e \in At(p) : e.content = Dir
IsFile(p) == At(p) # {} /\ ~IsDir(p)
Free(p) == p # <<>> /\ At(p) = {} /\ IsDir(Front(p))

\* A new file or directory where there was nothing; one that is there is left alone.
Create(p, content) ==
  IF IF content = Dir THEN IsDir(p) ELSE IsFile(p) THEN view' = view
  ELSE Free(p) /\ view' = view \cup {[path |-> p, content |-> content]}

Write(p, content) ==
  IsFile(p) /\ view' = (view \ At(p)) \cup {[path |-> p, content |-> content]}

\* A file goes, or a directory with everything in it.
Delete(p) == view' = view \ Under(p)

\* A file or directory gets another path, with everything in it.
Move(p, q) ==
  /\ At(p) # {} /\ Free(q) /\ ~IsPrefix(p, q)
  /\ view' = (view \ Under(p)) \cup
       {[path |-> q \o SubSeq(e.path, Len(p) + 1, Len(e.path)), content |-> e.content] : e \in Under(p)}

Done(r) ==
  CASE r.kind = "mkfile" -> \E content \in Contents : Create(r.path, content)
    [] r.kind = "mkdir"  -> Create(r.path, Dir)
    [] r.kind = "push"   -> \E content \in Contents : Write(r.path, content)
    [] r.kind = "delete" -> Delete(r.path)
    [] r.kind = "move"   -> Move(r.path, r.to)
    [] r.kind = "isdir"  -> IsDir(r.path) /\ view' = view
    [] r.kind = "isfile" -> IsFile(r.path) /\ view' = view
    [] r.kind = "list"   -> (\E e \in Under(r.path) : e.path # r.path) /\ view' = view
    [] r.kind = "pull"   -> IsFile(r.path) /\ view' = view
    [] r.kind = "inode"  -> At(r.path) # {} /\ view' = view

\* Nothing has gone wrong: done and so answered, or refused and so answered.
Regular == trouble' = {} /\ IF answered'.ok THEN Done(answered') ELSE view' = view

\* Something has: the entries away from the paths of the request stay.
Irregular ==
  /\ trouble' # {} /\ trouble \subseteq trouble'
  /\ \A e \in (view \ view') \cup (view' \ view) :
       IsPrefix(answered'.path, e.path) \/ IsPrefix(answered'.to, e.path)

Init == trouble = {}
Next == Regular \/ Irregular
Spec == Init /\ [][Next]_vars
=============================================================================
