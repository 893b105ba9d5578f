----------------------------- MODULE ToolInvoke -----------------------------
(***************************************************************************)
(* Calls of the designer's tools.  `invoke` decides on permission, puts the *)
(* call in the queue of the metadata directory (a chain of promises), runs  *)
(* the tool, which reads the directory file by file, and writes what it     *)
(* returns: first the artifacts under plans/, then the changes of the       *)
(* directory, deletions first.  The process may crash between any two       *)
(* steps and a write may fail.                                             *)
(*                                                                         *)
(* One metadata directory: directories share nothing.  A file holds the     *)
(* call that wrote it.  Two paths may be one file for the file system, as   *)
(* names that differ in case only are where it ignores case.                *)
(***************************************************************************)
EXTENDS Integers, FiniteSets

CONSTANTS
  Calls,    \* calls of invoke
  Tools,    \* the catalog: [cliOnly, files, database, data, destructive, records]
  Options,  \* [channel, readOnly, allowDatabaseWrite, allowDataWrite, dryRun,
            \*  confirmed, database, data] of a call
  Paths,    \* paths in the metadata directory
  FileOf,   \* the file a path names for the file system
  Initial,  \* the writer of the files that are there at the start
  None      \* no call, no file

ASSUME InvokeAssumption ==
  /\ None \notin Calls /\ Initial \notin Calls /\ None # Initial
  /\ Tools \subseteq [cliOnly : BOOLEAN, files : {"read", "artifact", "write"},
                      database : {"none", "read", "write"},
                      data : {"none", "read", "write"},
                      destructive : BOOLEAN, records : BOOLEAN]
  /\ Options \subseteq [channel : {"cli", "mcp"}, readOnly : BOOLEAN,
                        allowDatabaseWrite : BOOLEAN, allowDataWrite : BOOLEAN,
                        dryRun : BOOLEAN, confirmed : BOOLEAN,
                        database : BOOLEAN, data : BOOLEAN]
  /\ DOMAIN FileOf = Paths
  /\ None \notin [tool : Tools, options : Options]
  /\ None \notin [path : Paths, by : Calls \cup {Initial}]

\* The catalog has no tool that writes the directory and a database too: a dry
\* run of it would still run against the database.
ASSUME OneWriteAxis ==
  \A t \in Tools : t.files = "write" => t.database # "write" /\ t.data # "write"

VARIABLES
  status,    \* where a call is
  request,   \* its tool and options
  waits,     \* the call whose promise it is chained to
  tail,      \* tails.get(key): the last call of the queue
  unread,    \* files listed by readMetadataDir and not yet read
  seen,      \* what it has read
  todo,      \* changes not yet written
  intended,  \* the tree the changes make of what was read
  effects,   \* what it has touched: "plans", "metadata", "database", "data"
  disk,      \* the metadata directory
  accepted,  \* the tree of the last mutation that began to write
  damaged,   \* has a write of the directory been cut short?
  answer     \* what invoke has answered

queue == <<waits, tail>>
work  == <<unread, seen, todo, intended>>
tree  == <<disk, accepted, damaged>>
vars  == <<status, request, queue, work, effects, tree, answer>>

Files == {FileOf[p] : p \in Paths}
Tree(d) == {d[f] : f \in Files} \ {None}

ToolOf(c) == request[c].tool
OptionsOf(c) == request[c].options

-----------------------------------------------------------------------------
(* Permission *)

FilesOk(t, o)    == t.files = "read" \/ ~o.readOnly
DatabaseOk(t, o) == t.database # "write" \/ (~o.readOnly /\ o.allowDatabaseWrite)
DataOk(t, o)     == t.data # "write" \/ (~o.readOnly /\ o.allowDataWrite)
permits(t, o)    == FilesOk(t, o) /\ DatabaseOk(t, o) /\ DataOk(t, o)

\* Mutant: a dry run of a tool that has none is taken for a dry run.
Refusal_dryRunAnyTool(t, o, valid) ==
  IF t.cliOnly /\ o.channel # "cli" THEN "cli-only"
  ELSE IF ~valid THEN "invalid-input"
  ELSE IF ~permits(t, o) THEN "not-permitted"
  ELSE IF t.database # "none" /\ ~o.database THEN "no-database"
  ELSE IF t.data # "none" /\ ~o.data THEN "no-data"
  ELSE IF t.destructive /\ ~o.dryRun /\ ~o.confirmed THEN "unconfirmed"
  ELSE "none"

\* The refusals of invoke before the queue, in their order.
Refusal(t, o, valid) ==
  IF t.cliOnly /\ o.channel # "cli" THEN "cli-only"
  ELSE IF ~valid THEN "invalid-input"
  ELSE IF o.dryRun /\ t.files # "write" THEN "dry-run-unsupported"
  ELSE IF ~permits(t, o) THEN "not-permitted"
  ELSE IF t.database # "none" /\ ~o.database THEN "no-database"
  ELSE IF t.data # "none" /\ ~o.data THEN "no-data"
  ELSE IF t.destructive /\ ~o.dryRun /\ ~o.confirmed THEN "unconfirmed"
  ELSE "none"

-----------------------------------------------------------------------------
(* The queue *)

Settle(c, result) ==
  /\ status' = [status EXCEPT ![c] = "done"]
  /\ answer' = [answer EXCEPT ![c] = result]

\* invoke, up to the queue: a refused call never enters it.
Invoke(c, t, o, valid) ==
  LET refusal == Refusal(t, o, valid)
  IN  /\ status[c] = "idle"
      /\ request' = [request EXCEPT ![c] = [tool |-> t, options |-> o]]
      /\ IF refusal # "none"
         THEN Settle(c, refusal) /\ UNCHANGED queue
         ELSE /\ status' = [status EXCEPT ![c] = "queued"]
              /\ waits' = [waits EXCEPT ![c] = tail]
              /\ tail' = c
              /\ UNCHANGED answer
      /\ UNCHANGED <<work, effects, tree>>

Settled == {"done", "gone"}

\* Mutant: the next call waits for the success of the one before.
Start_afterSuccess(c) ==
  /\ status[c] = "queued"
  /\ waits[c] # None => status[waits[c]] = "done" /\ answer[waits[c]] # "threw"
  /\ status' = [status EXCEPT ![c] = "reading"]
  /\ unread' = [unread EXCEPT ![c] = {f \in Files : disk[f] # None}]
  /\ UNCHANGED <<request, queue, seen, todo, intended, effects, tree, answer>>

\* The task starts once the one before has ended, well or not; readMetadataDir
\* lists the directory.
Start(c) ==
  /\ status[c] = "queued"
  /\ waits[c] # None => status[waits[c]] \in Settled
  /\ status' = [status EXCEPT ![c] = "reading"]
  /\ unread' = [unread EXCEPT ![c] = {f \in Files : disk[f] # None}]
  /\ UNCHANGED <<request, queue, seen, todo, intended, effects, tree, answer>>

\* Mutant: whoever ends removes the tail of the queue.
Cleanup_always(c) ==
  /\ status[c] = "done" /\ tail # None
  /\ tail' = None
  /\ UNCHANGED <<status, request, waits, work, effects, tree, answer>>

\* An empty queue is removed from the map, unless somebody has joined it.
Cleanup(c) ==
  /\ status[c] = "done" /\ tail = c
  /\ tail' = None
  /\ UNCHANGED <<status, request, waits, work, effects, tree, answer>>

-----------------------------------------------------------------------------
(* The tool *)

\* readMetadataDir reads one file at a time; a file that is gone is an error.
ReadFile(c, f) ==
  /\ status[c] = "reading" /\ f \in unread[c]
  /\ unread' = [unread EXCEPT ![c] = @ \ {f}]
  /\ IF disk[f] = None
     THEN Settle(c, "threw") /\ UNCHANGED seen
     ELSE /\ seen' = [seen EXCEPT ![c] = @ \cup {disk[f]}]
          /\ UNCHANGED <<status, answer>>
  /\ UNCHANGED <<request, queue, todo, intended, effects, tree>>

HasRead(c) == status[c] = "reading" /\ unread[c] = {}

\* What the tool itself may do to the database, through the resources it gets.
RunEffects(t) == {axis \in {"database", "data"} : t[axis] = "write"}

\* The sets of changes an operation may make of the tree it has read: delete
\* paths that are there, write others, never two paths of one file.
ChangesOf(c) ==
  LET there == {e.path : e \in seen[c]}
  IN  {ch \in [del : SUBSET there, new : SUBSET Paths] :
         /\ ch.del \cap ch.new = {} /\ ch.del \cup ch.new # {}
         /\ \A p, q \in (there \ ch.del) \cup ch.new : FileOf[p] = FileOf[q] => p = q}

NoChange == [del |-> {}, new |-> {}]
Change(p, content) == [path |-> p, content |-> content]

FileChanges(c, ch) == {Change(p, None) : p \in ch.del} \cup {Change(p, c) : p \in ch.new}
Result(c, ch) == {e \in seen[c] : e.path \notin ch.del \cup ch.new}
                   \cup {[path |-> p, by |-> c] : p \in ch.new}

\* The tool fails: not ok, a UsageError (data-guard, an artifact outside of
\* plans/), a refusal of rights, or an exception.
ToolFails(c, result) ==
  /\ HasRead(c)
  /\ effects' = [effects EXCEPT ![c] = @ \cup RunEffects(ToolOf(c))]
  /\ Settle(c, result)
  /\ UNCHANGED <<request, queue, work, tree>>

\* The tool is done and nothing is to be written: it only reads, this is a dry
\* run, or the operation changes nothing.
ToolReads(c) ==
  /\ HasRead(c)
  /\ effects' = [effects EXCEPT ![c] = @ \cup RunEffects(ToolOf(c))]
  /\ Settle(c, "ok")
  /\ UNCHANGED <<request, queue, work, tree>>

\* Mutant: the changes of the directory are written before the artifacts.
ToolWrites_changesFirst(c) ==
  LET t == ToolOf(c)
  IN  /\ HasRead(c) /\ t.files # "read" /\ ~OptionsOf(c).dryRun
      /\ effects' = [effects EXCEPT ![c] = @ \cup RunEffects(t)]
      /\ status' = [status EXCEPT ![c] = IF t.files = "artifact" THEN "artifacts"
                                                                 ELSE "changes"]
      /\ \E ch \in (IF t.files = "write" THEN ChangesOf(c) ELSE {NoChange}) :
           /\ todo' = [todo EXCEPT ![c] = FileChanges(c, ch)]
           /\ intended' = [intended EXCEPT ![c] = Result(c, ch)]
      /\ UNCHANGED <<request, queue, unread, seen, tree, answer>>

\* The tool is done and has artifacts; a tool of the directory has changes too.
ToolWrites(c) ==
  LET t == ToolOf(c)
  IN  /\ HasRead(c) /\ t.files # "read" /\ ~OptionsOf(c).dryRun
      /\ effects' = [effects EXCEPT ![c] = @ \cup RunEffects(t)]
      /\ status' = [status EXCEPT ![c] = IF t.records \/ t.files = "artifact"
                                         THEN "artifacts" ELSE "changes"]
      /\ \E ch \in (IF t.files = "write" THEN ChangesOf(c) ELSE {NoChange}) :
           /\ todo' = [todo EXCEPT ![c] = FileChanges(c, ch)]
           /\ intended' = [intended EXCEPT ![c] = Result(c, ch)]
      /\ UNCHANGED <<request, queue, unread, seen, tree, answer>>

-----------------------------------------------------------------------------
(* Writing *)

WriteArtifacts(c) ==
  /\ status[c] = "artifacts"
  /\ effects' = [effects EXCEPT ![c] = @ \cup {"plans"}]
  /\ IF todo[c] = {} THEN Settle(c, "ok")
                     ELSE /\ status' = [status EXCEPT ![c] = "changes"]
                          /\ UNCHANGED answer
  /\ UNCHANGED <<request, queue, work, tree>>

\* writeChanges checks every path before it touches the disk.
CheckPaths(c) ==
  /\ status[c] = "changes"
  /\ status' = [status EXCEPT ![c] = "writing"]
  /\ accepted' = intended[c]
  /\ UNCHANGED <<request, queue, work, effects, disk, damaged, answer>>
PathEscapes(c) ==
  /\ status[c] = "changes"
  /\ Settle(c, "refused")
  /\ UNCHANGED <<request, queue, work, effects, tree>>

\* Mutant: the changes are made in the order given.
Ordered_asGiven(changes) == changes

\* The changes whose turn it is: all deletions, then the rest.
Ordered(changes) ==
  LET deletions == {ch \in changes : ch.content = None}
  IN  IF deletions # {} THEN deletions ELSE changes

\* A file keeps the name it was created with.
WriteFile(c, ch) ==
  /\ status[c] = "writing" /\ ch \in Ordered(todo[c])
  /\ disk' = [disk EXCEPT ![FileOf[ch.path]] =
                IF ch.content = None THEN None
                ELSE [path |-> IF @ = None THEN ch.path ELSE @.path, by |-> c]]
  /\ todo' = [todo EXCEPT ![c] = @ \ {ch}]
  /\ effects' = [effects EXCEPT ![c] = @ \cup {"metadata"}]
  /\ UNCHANGED <<status, request, queue, unread, seen, intended, accepted, damaged, answer>>

Written(c) ==
  /\ status[c] = "writing" /\ todo[c] = {}
  /\ Settle(c, "ok")
  /\ UNCHANGED <<request, queue, work, effects, tree>>

\* The file system refuses: what is written stays, the call throws.
WriteFails(c) ==
  /\ \/ status[c] = "artifacts"
     \/ status[c] = "writing" /\ todo[c] # {}
  /\ damaged' = (damaged \/ status[c] = "writing")
  /\ Settle(c, "threw")
  /\ UNCHANGED <<request, queue, work, effects, disk, accepted>>

\* The process ends, and the queue with it; the disk stays.
Crash ==
  LET running == {c \in Calls : status[c] \notin Settled \cup {"idle"}}
  IN  /\ running # {}
      /\ status' = [c \in Calls |-> IF c \in running THEN "gone" ELSE status[c]]
      /\ tail' = None
      /\ damaged' = (damaged \/ \E c \in running : status[c] = "writing" /\ todo[c] # {})
      /\ UNCHANGED <<request, waits, work, effects, disk, accepted, answer>>

-----------------------------------------------------------------------------
Init ==
  /\ status = [c \in Calls |-> "idle"]
  /\ request = [c \in Calls |-> None]
  /\ waits = [c \in Calls |-> None] /\ tail = None
  /\ unread = [c \in Calls |-> {}] /\ seen = [c \in Calls |-> {}]
  /\ todo = [c \in Calls |-> {}] /\ intended = [c \in Calls |-> {}]
  /\ effects = [c \in Calls |-> {}]
  /\ disk \in {d \in [Files -> {None} \cup [path : Paths, by : {Initial}]] :
                \A f \in Files : d[f] # None => FileOf[d[f].path] = f}
  /\ accepted = Tree(disk)
  /\ damaged = FALSE
  /\ answer = [c \in Calls |-> "none"]

Proceed(c) ==
  \/ Start(c) \/ Cleanup(c) \/ ToolReads(c) \/ ToolWrites(c)
  \/ \E f \in Files : ReadFile(c, f)
  \/ WriteArtifacts(c) \/ CheckPaths(c) \/ Written(c)
  \/ \E ch \in todo[c] : WriteFile(c, ch)

Next ==
  \/ \E c \in Calls :
       \/ \E t \in Tools, o \in Options, valid \in BOOLEAN : Invoke(c, t, o, valid)
       \/ Proceed(c)
       \/ \E result \in {"failed", "refused", "threw"} : ToolFails(c, result)
       \/ PathEscapes(c) \/ WriteFails(c)
  \/ Crash

Spec == Init /\ [][Next]_vars

\* The event loop runs what is ready, tools return, and the file system answers.
FairSpec == Spec /\ \A c \in Calls : WF_vars(Proceed(c))

-----------------------------------------------------------------------------
(* Properties *)

Running == {"queued", "reading", "artifacts", "changes", "writing"}

\* Nothing is lost and nothing is half done: whenever no call is writing, the
\* directory is the tree that the last mutation made of what it had read, unless
\* a write was cut short.  On a file system that ignores case too.
DirectoryIsLastResult ==
  damaged \/ (\E c \in Calls : status[c] = "writing") \/ Tree(disk) = accepted

\* A tool compiles a tree that some call has accepted, never a mixture of files
\* from before and after a mutation.
ReadsWholeTree == \A c \in Calls : HasRead(c) /\ ~damaged => seen[c] = accepted

\* A promotion that has changed the directory has its record in plans/, wherever
\* the writing stopped: without it the promotion cannot be planned or repeated.
RecordBeforeChanges ==
  \A c \in Calls : "metadata" \in effects[c] /\ ToolOf(c).records => "plans" \in effects[c]

\* Whatever a call touches, its launch and its options allow: nothing under
\* --read-only or in a dry run, the database and the data only with their flag,
\* nothing destructive without confirmation, no CLI tool from another channel.
EffectsArePermitted ==
  \A c \in Calls : effects[c] # {} =>
    LET t == ToolOf(c)
        o == OptionsOf(c)
    IN  /\ ~o.readOnly /\ ~o.dryRun
        /\ t.destructive => o.confirmed
        /\ t.cliOnly => o.channel = "cli"
        /\ "database" \in effects[c] => o.allowDatabaseWrite
        /\ "data" \in effects[c] => o.allowDataWrite
        /\ "metadata" \in effects[c] => t.files = "write"

\* What the proofs know of a call: beyond the refusals it is one that Refusal lets
\* pass, files are written only from the states in which its tool may write them,
\* and the changes of a promotion come after its record.
CallInv(c) ==
  LET t == ToolOf(c)
      o == OptionsOf(c)
  IN  /\ status[c] # "idle" => request[c] # None
      /\ status[c] \in {"idle", "queued", "reading"} => effects[c] = {}
      /\ status[c] \in Running => Refusal(t, o, TRUE) = "none"
      /\ status[c] \in {"artifacts", "changes", "writing"} =>
           t.files # "read" /\ ~o.dryRun
      /\ status[c] \in {"changes", "writing"} =>
           t.files = "write" /\ (t.records => "plans" \in effects[c])
      /\ status[c] = "artifacts" =>
           "metadata" \notin effects[c] /\ (t.files # "write" => todo[c] = {})

\* The inductive invariant behind EffectsArePermitted and RecordBeforeChanges.
InvokeInv ==
  /\ status \in [Calls -> Running \cup Settled \cup {"idle"}]
  /\ request \in [Calls -> [tool : Tools, options : Options] \cup {None}]
  /\ effects \in [Calls -> SUBSET {"plans", "metadata", "database", "data"}]
  /\ DOMAIN todo = Calls
  /\ \A c \in Calls : CallInv(c)
  /\ EffectsArePermitted
  /\ RecordBeforeChanges

\* Every call is answered, also behind calls that fail, unless the process ends.
EveryCallIsAnswered == \A c \in Calls : status[c] = "queued" ~> status[c] \in Settled
=============================================================================
