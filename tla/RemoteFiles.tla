----------------------------- MODULE RemoteFiles -----------------------------
(***************************************************************************)
(* The files of a server and what the two engines do to them: SFTP         *)
(* requests, and shell commands.  A file system maps every path to a node; *)
(* links hold the path they lead to.  Each operation has a set of          *)
(* outcomes, because the server may also refuse what it could have done.   *)
(***************************************************************************)
EXTENDS Integers, Sequences, FiniteSets, SequencesExt, FiniteSetsExt

CONSTANTS Paths,      \* the paths that may hold a node, prefix-closed
          MaxHops     \* links the server follows before it gives up

Absent == [kind |-> "none", to |-> <<>>]
File == [kind |-> "file", to |-> <<>>]
Dir == [kind |-> "dir", to |-> <<>>]
Link(p) == [kind |-> "link", to |-> p]

Nodes == [kind : {"none", "file", "dir", "link"}, to : Seq(STRING)]
FileSystems == [Paths -> Nodes]

\* Where no path leads.
Nowhere == <<"nowhere", "nowhere">>

Node(fs, p) == IF p = <<>> THEN Dir ELSE IF p \in Paths THEN fs[p] ELSE Absent
IsLink(fs, p) == Node(fs, p).kind = "link"

-----------------------------------------------------------------------------
(* The server.  Where(fs, p) is the place a path names, the links of its   *)
(* directories followed; Target follows the last one too.                  *)

Target(fs, path) ==
  LET target[p \in Seq(STRING), hops \in 0 .. MaxHops] ==
        LET deref[w \in Seq(STRING)] ==
              IF ~IsLink(fs, w) THEN w
              ELSE IF hops = 0 THEN Nowhere ELSE target[fs[w].to, hops - 1]
            in[d \in Seq(STRING)] ==
              IF Node(fs, d).kind = "dir" THEN Append(d, Last(p)) ELSE Nowhere
        IN deref[IF p = <<>> THEN p ELSE in[target[Front(p), hops]]]
  IN target[path, MaxHops]

Where(fs, p) ==
  LET in[d \in Seq(STRING)] == IF Node(fs, d).kind = "dir" THEN Append(d, Last(p)) ELSE Nowhere
  IN in[Target(fs, Front(p))]
Kind(fs, p) == Node(fs, Where(fs, p)).kind          \* lstat
KindOfTarget(fs, p) == Node(fs, Target(fs, p)).kind \* stat
IsDir(fs, p) == KindOfTarget(fs, p) = "dir"

Below(p) == {q \in Paths : IsPrefix(p, q)}
Names(fs, d) ==
  LET names[e \in Seq(STRING)] ==
        {Last(q) : q \in {r \in Below(e) : Len(r) = Len(e) + 1 /\ fs[r].kind # "none"}}
  IN names[d]

Vacant(fs, p) == Where(fs, p) \in Paths /\ Kind(fs, p) = "none"
With(fs, p, node) == [fs EXCEPT ![Where(fs, p)] = node]
Without(fs, w) ==
  LET gone == Below(w) IN [q \in Paths |-> IF q \in gone THEN Absent ELSE fs[q]]
Moved(fs, from, to) ==
  [q \in Paths |->
    IF IsPrefix(to, q) THEN Node(fs, from \o SubSeq(q, Len(to) + 1, Len(q)))
    ELSE IF IsPrefix(from, q) THEN Absent ELSE fs[q]]

\* What a request or a command comes to.
Failed(fs) == [ok |-> FALSE, fs |-> fs]
Done(fs) == [ok |-> TRUE, fs |-> fs]
Try(fs, possible, after) == {Failed(fs)} \union {Done(f) : f \in IF possible THEN {after} ELSE {}}

-----------------------------------------------------------------------------
(* SftpEngine: one request each, which the server grants or refuses.       *)

CreateDirectory(fs, p) == Try(fs, Vacant(fs, p), With(fs, p, Dir))
CreateSymlink(fs, target, p) == Try(fs, Vacant(fs, p), With(fs, p, Link(target)))

RenamePath(fs, from, to) ==
  LET a == Where(fs, from)  b == Where(fs, to)
  IN Try(fs, Kind(fs, from) # "none" /\ Vacant(fs, to) /\ ~IsPrefix(a, b), Moved(fs, a, b))

RemoveFile(fs, p) == Try(fs, Kind(fs, p) \in {"file", "link"}, Without(fs, Where(fs, p)))

RemoveDirectory(fs, p) ==
  Try(fs, Kind(fs, p) = "dir" /\ Names(fs, Where(fs, p)) = {}, Without(fs, Where(fs, p)))

\* statEntry and isRemoteDirectory: the kind of a path, or of what it leads to.
StatEntry(fs, p, follow) == IF follow THEN KindOfTarget(fs, p) ELSE Kind(fs, p)

\* canonicalizePath falls back on the path it was given.
CanonicalizePath(fs, p) == IF KindOfTarget(fs, p) = "none" THEN p ELSE Target(fs, p)

\* directoryOpenPath: some servers do not follow a link that is to be listed, so
\* that it is looked up first.
DirectoryOpenPath(fs, p) ==
  IF StatEntry(fs, p, FALSE) = "link" /\ StatEntry(fs, p, TRUE) = "dir"
  THEN CanonicalizePath(fs, p) ELSE p
CanOpenDirectory(fs, p) == Kind(fs, DirectoryOpenPath(fs, p)) = "dir"

\* An entry of a listing, with the name it has under the path that was asked
\* for: what it is, and what a link leads to.
EntryAt(fs, dir, name) ==
  LET p == Append(dir, name)
  IN [symlink |-> StatEntry(fs, p, FALSE) = "link", isDir |-> StatEntry(fs, p, FALSE) = "dir",
      linkIsDir |-> StatEntry(fs, p, FALSE) = "link" /\ StatEntry(fs, p, TRUE) = "dir"]
IsDirectoryLike(e) == e.isDir \/ (e.symlink /\ e.linkIsDir)

\* FsRemote::removePath with recursion: a link is removed itself, a directory
\* after all it holds; the first refusal ends it, and leaves what is gone gone.
\* Each is for the outcomes of removing what a directory holds, one after the
\* other: a link at once, anything else by remove.
Each(remove, fs, dir, names) ==
  LET child(f, p) == IF StatEntry(f, p, FALSE) = "link" THEN RemoveFile(f, p) ELSE remove[f, p]
  IN FoldLeft(LAMBDA acc, name :
                UNION {IF o.ok THEN child(o.fs, Append(dir, name)) ELSE {o} : o \in acc},
              {Done(fs)}, SetToSeq(names))

\* Mutant: looks at what the path leads to, so that it empties what a link names.
RemoveFollowing(fs, path) ==
  LET remove[f \in FileSystems, p \in Seq(STRING)] ==
        IF StatEntry(f, p, TRUE) = "dir"
        THEN {Failed(f)} \union
             UNION {IF o.ok THEN RemoveDirectory(o.fs, p) \union RemoveFile(o.fs, p) ELSE {o} :
                      o \in Each(remove, f, p, Names(f, Target(f, p)))}
        ELSE RemoveFile(f, p)
  IN remove[fs, path]

RemovePath(fs, path) ==
  LET remove[f \in FileSystems, p \in Seq(STRING)] ==
        IF StatEntry(f, p, FALSE) = "dir"
        THEN {Failed(f)} \union
             UNION {IF o.ok THEN RemoveDirectory(o.fs, p) ELSE {o} :
                      o \in Each(remove, f, p, Names(f, Where(f, p)))}
        ELSE RemoveFile(f, p)
  IN remove[fs, path]

-----------------------------------------------------------------------------
(* ScpEngine and ShellCommandSet: the commands of a shell.                 *)

\* mv and ln put a thing into the directory that their last argument names.
Into(fs, p, name) == IF IsDir(fs, p) THEN Append(Target(fs, p), name) ELSE Where(fs, p)

FormatMkdir(fs, p) == Try(fs, Vacant(fs, p), With(fs, p, Dir))

FormatSymlink(fs, target, p) ==
  LET w == Into(fs, p, Last(target))
  IN Try(fs, w \in Paths /\ fs[w].kind = "none", [fs EXCEPT ![w] = Link(target)])

\* mv -f, which replaces a file.
FormatRename(fs, from, to) ==
  LET a == Where(fs, from)  b == Into(fs, to, Last(from))
      fits == IF fs[a].kind = "dir" THEN fs[b].kind = "none" ELSE fs[b].kind # "dir"
  IN Try(fs, a \in Paths /\ b \in Paths /\ fs[a].kind # "none" /\ ~IsPrefix(a, b) /\ fits,
         Moved(fs, a, b))

\* rm -f -r, which may give up halfway and has nothing against a missing file.
FormatRemove(fs, p) ==
  LET w == Where(fs, p)
  IN {Done(IF w \in Paths THEN Without(fs, w) ELSE fs)} \union
     {Failed([q \in Paths |-> IF q \in gone THEN Absent ELSE fs[q]]) :
        gone \in {g \in SUBSET Below(w) : \A q \in g : Below(q) \subseteq g}}

\* test -d, ls -d, ls of a path with a slash at its end, realpath -e, cd.
FormatTestDirectory(fs, p) == IsDir(fs, p)
FormatListFile(fs, p) == Kind(fs, p) # "none"
FormatListDirectory(fs, p) == IsDir(fs, p)
FormatRealpath(fs, p) == KindOfTarget(fs, p) # "none"

\* A line of a listing: what a link leads to is not known yet.
ParseLsLine(fs, dir, name) == [EntryAt(fs, dir, name) EXCEPT !.linkIsDir = FALSE]
=============================================================================
