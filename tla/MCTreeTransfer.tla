--------------------------- MODULE MCTreeTransfer ---------------------------
(* A folder with a file, a link to a file, a link to a folder and a folder   *)
(* that holds a partial file, and the selections of the user.                *)
EXTENDS TreeTransfer

CONSTANTS dir, f, link, dirLink, sub, part

MCNodes == {dir, f, link, dirLink, sub, part}
MCChildren == [n \in MCNodes |->
                 IF n = dir THEN <<f, link, dirLink, sub>> ELSE IF n = sub THEN <<part>> ELSE <<>>]
MCKind == [n \in MCNodes |->
             CASE n \in {dir, sub} -> "dir" [] n = f -> "file" [] n = link -> "link"
               [] n = dirLink -> "dirLink" [] n = part -> "part"]
MCSelections == {<<dir>>, <<link>>, <<link, f, sub>>}
=============================================================================
