---------------------------- MODULE MCTerminals ----------------------------
EXTENDS Terminals

\* A new session, and workspaces with two terminals, with and without a tool.
MCEntries == {[count |-> 0, tools |-> FALSE], [count |-> 2, tools |-> TRUE]}

\* A workspace that was left with explorers and no terminal: in no run, for what
\* is known to go wrong then.
MCToolEntries == {[count |-> 0, tools |-> TRUE]}
=============================================================================
