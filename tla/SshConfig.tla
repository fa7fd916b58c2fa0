------------------------------ MODULE SshConfig ------------------------------
(***************************************************************************)
(* The hosts of ~/.ssh/config.  libssh resolves their options; which hosts *)
(* there are, and the two options libssh does not give, ProxyJump and      *)
(* ForwardAgent, are read by scans of the file and of those it includes.   *)
(* A file is a sequence of lines, and a line has a keyword and arguments.  *)
(***************************************************************************)
EXTENDS Naturals, Sequences, SequencesExt, FiniteSets

CONSTANTS
  Files,     \* the configuration file and those it may include
  Main,      \* the configuration file
  Contents,  \* the sets of files to look at, each a sequence of lines
  MaxDepth   \* kMaxIncludeDepth

ASSUME FilesAssumption == Main \in Files /\ \A c \in Contents : DOMAIN c = Files
ASSUME DepthAssumption == MaxDepth \in Nat

VARIABLES
  config,   \* the contents of the files
  started,  \* ConnectionModel has been filled
  rows      \* the hosts of the configuration that it lists

Line(key, args) == [key |-> key, args |-> args]
NoValue == "no value"
IsPattern(token) == token = "*"

\* A Host line with one token, and no pattern.
Concrete(line) == line.key = "host" /\ Len(line.args) = 1 /\ ~IsPattern(line.args[1])

-----------------------------------------------------------------------------
(* The scans, with the files already visited.                              *)

\* collectAliasesFromFile
RECURSIVE CollectAliases(_, _, _, _)
CollectAliases(content, file, found, depth) ==
  IF depth > MaxDepth \/ file \in found.visited THEN found
  ELSE LET Scan(acc, line) ==
             IF line.key = "include"
             THEN FoldLeft(LAMBDA a, f : CollectAliases(content, f, a, depth + 1), acc, line.args)
             ELSE IF Concrete(line) /\ ~Contains(acc.aliases, line.args[1])
             THEN [acc EXCEPT !.aliases = Append(@, line.args[1])]
             ELSE acc
       IN  FoldLeft(Scan, [found EXCEPT !.visited = @ \union {file}], content[file])

\* Mutant: what an included file says replaces what was read before.
TakeLast(acc, nested) ==
  [acc EXCEPT !.visited = nested.visited,
              !.value = IF nested.value # NoValue THEN nested.value ELSE acc.value]

\* What an included file says counts if nothing was said before it.
Take(acc, nested) ==
  [acc EXCEPT !.visited = nested.visited,
              !.value = IF acc.value = NoValue THEN nested.value ELSE acc.value]

\* readLibsshOpaqueKeyword: a file is scanned as one that is active at first.
RECURSIVE ReadKeyword(_, _, _, _, _)
ReadKeyword(content, file, alias, visited, depth) ==
  LET start == [active |-> TRUE, value |-> NoValue, visited |-> visited \union {file}]
      Scan(acc, line) ==
        CASE line.key = "host" -> [acc EXCEPT !.active = line.args = <<alias>>]
          [] line.key = "match" -> [acc EXCEPT !.active = FALSE]
          [] line.key = "include" /\ acc.active ->
               FoldLeft(LAMBDA a, f : Take(a, ReadKeyword(content, f, alias, a.visited, depth + 1)),
                        acc, line.args)
          [] line.key = "option" /\ acc.active /\ acc.value = NoValue ->
               [acc EXCEPT !.value = line.args[1]]
          [] OTHER -> acc
  IN  IF depth > MaxDepth \/ file \in visited
      THEN [active |-> TRUE, value |-> NoValue, visited |-> visited]
      ELSE FoldLeft(Scan, start, content[file])

\* SshConfigParser::load, and an entry of toConnections for each.
LoadConfig(content) ==
  LET aliases == CollectAliases(content, Main, [aliases |-> <<>>, visited |-> {}], 0).aliases
  IN  [i \in DOMAIN aliases |->
         [alias |-> aliases[i], value |-> ReadKeyword(content, Main, aliases[i], {}, 0).value]]

-----------------------------------------------------------------------------
(* What the file says, by the manual of ssh_config: the first value that   *)
(* is given for a host counts, and an Include stands for the lines of the  *)
(* file it names.                                                          *)

\* The lines with the Host and Match lines they are under, outermost first; a
\* file that includes itself is cut off.
RECURSIVE Expand(_, _, _)
Expand(content, under, stack) ==
  LET lines == content[Last(stack)]
      Section(i) == SelectSeq(SubSeq(lines, 1, i - 1), LAMBDA l : l.key \in {"host", "match"})
      Above(i) == IF Section(i) = <<>> THEN under ELSE Append(under, Last(Section(i)))
      Lines(i) ==
        IF lines[i].key # "include" THEN <<[line |-> lines[i], under |-> Above(i)]>>
        ELSE FlattenSeq([k \in DOMAIN lines[i].args |->
               IF Contains(stack, lines[i].args[k]) THEN <<>>
               ELSE Expand(content, Above(i), Append(stack, lines[i].args[k]))])
  IN  FlattenSeq([i \in DOMAIN lines |-> Lines(i)])

Applies(entry, alias) ==
  \A i \in DOMAIN entry.under : entry.under[i] = Line("host", <<alias>>)

FirstValue(entries, alias) ==
  LET given == SelectSeq(entries, LAMBDA e : e.line.key = "option" /\ Applies(e, alias))
  IN  IF given = <<>> THEN NoValue ELSE given[1].line.args[1]

\* Each host the files name by itself is listed, once, and its option is the
\* first value that applies to it.
Agree(list, entries) ==
  /\ {list[i].alias : i \in DOMAIN list}
       = {entries[i].line.args[1] : i \in {j \in DOMAIN entries : Concrete(entries[j].line)}}
  /\ \A i, j \in DOMAIN list : list[i].alias = list[j].alias => i = j
  /\ \A i \in DOMAIN list : list[i].value = FirstValue(entries, list[i].alias)

-----------------------------------------------------------------------------
(* The program starts, and lists the hosts.                                *)

Init == config \in Contents /\ started = FALSE /\ rows = <<>>

RebuildMergedList ==
  /\ ~started /\ started' = TRUE /\ rows' = LoadConfig(config)
  /\ UNCHANGED config

Spec == Init /\ [][RebuildMergedList]_<<config, started, rows>>

\* The hosts listed are those the configuration names, each once, with the option
\* that applies to it, through all its Includes: those of files that were read
\* before, and of files that include each other.
ListIsTheConfig == started => Agree(rows, Expand(config, <<>>, <<Main>>))

=============================================================================
