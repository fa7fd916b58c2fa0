--------------------------- MODULE MCFsOperations ---------------------------
(* A directory d with something in it and a name l, which is a link to it  *)
(* or a file; operations on both.                                          *)
EXTENDS FsOperations

CONSTANTS ls, link, get, mk, ln, mv, rmD, rmL, drop, home

MCPaths == {<<n>> : n \in {"d", "l", "n"}} \union ({"d", "l", "n"} \X {"c", "l"})

MCRequestOf == [o \in Ops |->
  LET ask(op, p) == [op |-> op, path |-> p, to |-> <<>>]
  IN CASE o = ls   -> ask("list", <<"l">>)
       [] o = link -> ask("resolve", <<"l">>)
       [] o = home -> ask("canonical", <<"l">>)
       [] o = get  -> ask("transfer", <<"l">>)
       [] o = drop -> ask("discard", <<"l">>)
       [] o = mk   -> ask("mkdir", <<"l", "l">>)
       [] o = rmD  -> ask("remove", <<"d">>)
       [] o = rmL  -> ask("remove", <<"l">>)
       [] o = ln   -> [op |-> "symlink", path |-> <<"n">>, to |-> <<"d">>]
       [] OTHER    -> [op |-> "rename", path |-> <<"l">>, to |-> <<"d">>]]

Tree(l, c) == [p \in MCPaths |->
  CASE p = <<"d">> -> Dir [] p = <<"l">> -> l [] p = <<"d", "c">> -> c [] OTHER -> Absent]

MCFiles == {Tree(Link(<<"d">>), Link(<<"d">>)), Tree(Link(<<"n">>), File), Tree(File, Dir)}

MCCalls == {{ls, mv, rmD}, {ls, mk, rmL}, {ls, ln, rmD}, {ls, get, drop}, {ls, link, drop},
            {link, mk, rmD}, {link, ln, mv}, {home, get, mv}, {home, rmL, ls}, {mk, mv, rmL},
            {ln, rmD, rmL}}
=============================================================================
