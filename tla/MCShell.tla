------------------------------- MODULE MCShell -------------------------------
(* Lines for every kind of command: pipelines whose last program reads to the *)
(* end or not at all, redirections, a background command, names that are not  *)
(* found, an empty command, a missing file name, the builtins, a semicolon.   *)
EXTENDS Shell

MCCommand == {<<"src">>, <<"cat">>, <<"true">>}
MCJob ==
  [c \in MCCommand |->
     [left |-> IF c = <<"src">> THEN 2 ELSE 0, reading |-> c = <<"cat">>]]
MCOldFile == {<<"in">>}
MCPipe == 1 .. 4
MCPid == 1 .. 4

MCLine ==
  {<<"src", "|", "cat", "|", "cat", "\n">>,
   <<"src", " ", "|", " ", "true", "\n">>,
   <<"src", "&", "cat", "<", "in", ">", "out", "\n">>,
   <<"cat", "<", "none", "|", "cat", "\n">>,
   <<"nosuch", "|", "cat", "\n">>,
   <<"src", "|", "nosuch", "\n">>,
   <<"|", "cat", "\n">>,
   <<"cat", ">", "|", "cat", "\n">>,
   <<"src", ";", "cat", "\n">>,
   <<"cd", " ", "dir", "&", "cd", " ", "-", "\n">>,
   <<"cd", " ", "none", "\n">>,
   <<"cd", "\n">>,
   <<"exit", "\n">>}
===============================================================================
