--------------------------- MODULE MCConnections ---------------------------
(* The program starts with any configuration of a file with up to three    *)
(* lines and an included one with up to two, and lists its hosts.  With    *)
(* one of them the user then works on two connections of his own, one of   *)
(* which is there at first: what the configuration says is nothing to what *)
(* happens to these.                                                       *)
EXTENDS Connections, SshConfig

Form(auth, save, gateway) == [auth |-> auth, save |-> save, gateway |-> gateway]
Saved == Form("password", TRUE, "key")
SomeForms == {Saved, Form("password", FALSE, "password"), Imported}
OneAtFirst == [c \in Ids |-> IF c = "a" THEN Saved ELSE None]

Lines == {Line("host", <<"a">>), Line("host", <<"b">>), Line("host", <<"a", "b">>),
          Line("match", <<>>), Line("include", <<"other">>), Line("include", <<"config", "other">>),
          Line("option", <<"1">>), Line("option", <<"2">>)}
UpTo(n) == UNION {[1 .. k -> Lines] : k \in 0 .. n}
SmallFiles == {[config |-> main, other |-> other] : main \in UpTo(3), other \in UpTo(2)}
OneConfig == [config |-> <<Line("host", <<"a">>)>>, other |-> <<>>]

ProgramInit == ConnectionsInit /\ Init
ProgramNext ==
  \/ RebuildMergedList /\ UNCHANGED connectionsVars
  \/ /\ started /\ config = OneConfig /\ UNCHANGED <<config, started, rows>>
     /\ ConnectionsNext
ProgramSpec == ProgramInit /\ [][ProgramNext]_<<connectionsVars, config, started, rows>>
=============================================================================
