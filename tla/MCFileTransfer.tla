--------------------------- MODULE MCFileTransfer ---------------------------
(* Files of up to two blocks: a part of one block is neither empty nor     *)
(* complete.  Two kinds of block tell a version of the source from another *)
(* and from a mixture of both.                                             *)
EXTENDS FileTransfer

CONSTANTS a, b

TwoBlocks == {a, b}
Both == {"upload", "download"}

(* A local source changes at any time, but not between the two readings of *)
(* its prefix at the start of a resume; a remote source does not change.   *)
LocalEdits == {"upload"} \X (Stages \ {"verified"})

(* A remote source changes while no transfer runs: in no run, for what is  *)
(* known to go wrong then.                                                 *)
RemoteEdits == {<<"download", "idle">>}
=============================================================================
