---------------------------- MODULE MCAgentCatalog ----------------------------
(***************************************************************************)
(* Two agents with two versions each.  The first embeds the second, whose    *)
(* newer version embeds the first: a cycle that comes and goes.  The second   *)
(* has sessions in a first life, texts in a directory, and a version whose   *)
(* directory does not exist.                                                *)
(***************************************************************************)
EXTENDS AgentCatalog

MCChild == <<<<2, 2>>, <<Unset, 1>>>>
MCMaxDepth == <<<<3, 1>>, <<3, 3>>>>
MCSessioned == <<<<FALSE, TRUE>>, <<FALSE, FALSE>>>>
MCPrompts == <<<<{<<"chat", "system">>}, {<<"chat", "system">>, <<"chat", "human">>}>>,
               <<{<<"chat", "human">>}, {}>>>>
TextDir == 10    \* no version
MCContentDir == <<<<Unset, Bad>>, <<TextDir, Unset>>>>
MCFiles == [d \in {TextDir} |-> {<<"chat", "system">>}]
=============================================================================
