------------------------------ MODULE MCInodes ------------------------------
(***************************************************************************)
(* System calls for model checking Inodes: p1 works on y, in the root      *)
(* directory or in x once it has changed to it; p2 makes and removes the   *)
(* directories and a link.                                                 *)
(***************************************************************************)
EXTENDS Inodes, TLC

CONSTANTS x, y, p1, p2

Abs(s) == [from |-> "/", elems |-> s]
Rel(s) == [from |-> "cwd", elems |-> s]
Call(c, t) == [call |-> c, path |-> t, new |-> NOPATH]
Link(t, u) == [call |-> "link", path |-> t, new |-> u]

MCDoes ==
  (p1 :> {Call("creat", Rel(<<y>>)), Call("unlink", Rel(<<y>>)),
          Call("creat", Abs(<<x>>)), Call("mknod", Abs(<<x>>)),
          Call("open", Rel(<<"..">>)),
          Call("chdir", Abs(<<x>>)), Call("chdir", Rel(<<y>>))})
  @@ (p2 :> {Call("mkdir", Abs(<<x>>)), Call("mkdir", Abs(<<x, y>>)),
             Call("unlink", Abs(<<x>>)), Call("unlink", Abs(<<x, y>>)),
             Link(Abs(<<x, y>>), Abs(<<y>>)), Link(Abs(<<y>>), Abs(<<x, y>>))})
=============================================================================
