---------------------------- MODULE MCToolInvoke ----------------------------
(***************************************************************************)
(* Instances of ToolInvoke for TLC: the catalog of tools by their axes, the *)
(* options of a call, and a directory whose file system ignores case.       *)
(***************************************************************************)
EXTENDS ToolInvoke, TLC

Tool(files, database, data, destructive) ==
  [cliOnly |-> FALSE, files |-> files, database |-> database, data |-> data,
   destructive |-> destructive, records |-> FALSE]

Compile == Tool("read", "none", "none", FALSE)
Rename  == Tool("write", "none", "none", FALSE)
Promote == [Rename EXCEPT !.records = TRUE]

\* The catalog: compile and explain; fix, create, add and rename; promote;
\* delete; introspect; diff; plan; apply; roles; rights-maintenance; data-read;
\* data-command.
Catalog ==
  {Compile, Rename, Promote, Tool("write", "none", "none", TRUE),
   Tool("write", "read", "none", FALSE), Tool("read", "read", "none", FALSE),
   Tool("artifact", "read", "none", FALSE), Tool("artifact", "write", "none", TRUE),
   Tool("read", "write", "none", FALSE),
   [Tool("read", "write", "none", TRUE) EXCEPT !.cliOnly = TRUE],
   Tool("read", "none", "read", FALSE), Tool("read", "none", "write", FALSE)}
QueueTools == {Compile, Promote}
CaseTools  == Catalog \ {Promote}

Plain == [channel |-> "mcp", readOnly |-> FALSE, allowDatabaseWrite |-> FALSE,
          allowDataWrite |-> FALSE, dryRun |-> FALSE, confirmed |-> FALSE,
          database |-> FALSE, data |-> FALSE]
PlainOptions == {Plain}
\* Nothing is allowed, everything is, and all but one thing.
Guest   == [Plain EXCEPT !.database = TRUE, !.data = TRUE]
Allowed == [Guest EXCEPT !.channel = "cli", !.allowDatabaseWrite = TRUE,
                         !.allowDataWrite = TRUE, !.confirmed = TRUE]
PermitOptions == {Guest, Allowed, [Allowed EXCEPT !.dryRun = TRUE], [Allowed EXCEPT !.readOnly = TRUE]}

\* Two names of one file.
TwoCases == {"item", "Item"}
IgnoreCase == [p \in TwoCases |-> "item"]
TwoPaths == {"item", "unit"}
TwoFiles == [p \in TwoPaths |-> p]

Symmetry == Permutations(Calls)
=============================================================================
