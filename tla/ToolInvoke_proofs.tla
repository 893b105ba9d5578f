-------------------------- MODULE ToolInvoke_proofs --------------------------
(***************************************************************************)
(* Proofs about ToolInvoke: for any catalog in which no tool writes both    *)
(* the directory and a database, any options and any number of calls,       *)
(* whatever a call touches is permitted, and a promotion's record is        *)
(* written before its changes; about the directory, see below.             *)
(***************************************************************************)
EXTENDS ToolInvoke, TLAPS

Shape ==
  /\ status \in [Calls -> Running \cup Settled \cup {"idle"}]
  /\ request \in [Calls -> [tool : Tools, options : Options] \cup {None}]
  /\ effects \in [Calls -> SUBSET {"plans", "metadata", "database", "data"}]
  /\ DOMAIN todo = Calls

\* What EffectsArePermitted and RecordBeforeChanges say of one call.
CallSafe(c) ==
  LET t == ToolOf(c)
      o == OptionsOf(c)
  IN  /\ effects[c] # {} =>
           /\ ~o.readOnly /\ ~o.dryRun
           /\ t.destructive => o.confirmed
           /\ t.cliOnly => o.channel = "cli"
           /\ "database" \in effects[c] => o.allowDatabaseWrite
           /\ "data" \in effects[c] => o.allowDataWrite
           /\ "metadata" \in effects[c] => t.files = "write"
      /\ "metadata" \in effects[c] /\ t.records => "plans" \in effects[c]

\* The invariant, call by call.
LEMMA InvokeInvByCall ==
  InvokeInv <=> Shape /\ \A c \in Calls : CallInv(c) /\ CallSafe(c)
BY DEF InvokeInv, Shape, CallSafe, EffectsArePermitted, RecordBeforeChanges

\* A step that leaves a call alone leaves what is known of it.
LEMMA OtherCalls ==
  ASSUME NEW d \in Calls, CallInv(d), CallSafe(d),
         status'[d] = status[d], request'[d] = request[d],
         effects'[d] = effects[d], todo'[d] = todo[d]
  PROVE  CallInv(d)' /\ CallSafe(d)'
BY DEF CallInv, CallSafe, ToolOf, OptionsOf

\* A call that ends or is cut off without touching anything more keeps both.
LEMMA EndedCall ==
  ASSUME NEW d \in Calls, CallInv(d), CallSafe(d), status[d] # "idle",
         status'[d] \in Settled, request'[d] = request[d],
         effects'[d] = effects[d]
  PROVE  CallInv(d)' /\ CallSafe(d)'
BY DEF CallInv, CallSafe, ToolOf, OptionsOf, Running, Settled

\* What Refusal lets pass: the effects of the tool itself are permitted, and so
\* are files once the tool writes any outside of a dry run.
LEMMA PassedCall ==
  ASSUME NEW t \in Tools, NEW o \in Options, Refusal(t, o, TRUE) = "none"
  PROVE  /\ o.dryRun => t.files = "write"
         /\ t.cliOnly => o.channel = "cli"
         /\ FilesOk(t, o) /\ DatabaseOk(t, o) /\ DataOk(t, o)
         /\ ~o.dryRun /\ t.destructive => o.confirmed
BY DEF Refusal, permits

\* The tool has run: its own effects are permitted, in a dry run there are none.
LEMMA RanTool ==
  ASSUME Shape, NEW c \in Calls, CallInv(c), HasRead(c)
  PROVE  LET t == ToolOf(c)
             o == OptionsOf(c)
             e == RunEffects(t)
         IN  /\ effects[c] \cup e = e
             /\ e \subseteq {"database", "data"}
             /\ o.dryRun => e = {}
             /\ e # {} => /\ ~o.readOnly /\ (t.destructive => o.confirmed)
                          /\ t.cliOnly => o.channel = "cli"
             /\ "database" \in e => o.allowDatabaseWrite
             /\ "data" \in e => o.allowDataWrite
<1> DEFINE t == ToolOf(c)
           o == OptionsOf(c)
<1>1. /\ t \in Tools /\ o \in Options /\ Refusal(t, o, TRUE) = "none"
      /\ effects[c] = {}
    BY DEF Shape, CallInv, HasRead, Running, ToolOf, OptionsOf
<1>2. /\ o.dryRun => t.files = "write"
      /\ t.cliOnly => o.channel = "cli"
      /\ FilesOk(t, o) /\ DatabaseOk(t, o) /\ DataOk(t, o)
      /\ ~o.dryRun /\ t.destructive => o.confirmed
    BY <1>1, PassedCall
<1>3. t.files = "write" => t.database # "write" /\ t.data # "write"
    BY <1>1, OneWriteAxis
<1>4. \A axis \in {"database", "data"} : axis \in RunEffects(t) <=> t[axis] = "write"
    BY DEF RunEffects
<1>5. RunEffects(t) \subseteq {"database", "data"}
    BY DEF RunEffects
<1>6. "database" \in RunEffects(t) => t.database = "write"
    BY <1>4
<1>7. "data" \in RunEffects(t) => t.data = "write"
    BY <1>4
<1> HIDE DEF t, o
<1>8. RunEffects(t) # {} => t.database = "write" \/ t.data = "write"
    BY <1>5, <1>6, <1>7
<1>9. /\ o.dryRun => RunEffects(t) = {}
      /\ RunEffects(t) # {} => ~o.readOnly /\ ~o.dryRun
      /\ "database" \in RunEffects(t) => o.allowDatabaseWrite
      /\ "data" \in RunEffects(t) => o.allowDataWrite
    BY <1>2, <1>3, <1>6, <1>7, <1>8 DEF DatabaseOk, DataOk
<1> QED
    BY <1>1, <1>2, <1>5, <1>9 DEF t, o

\* The initial states.
LEMMA InvokeInvInit == Init => InvokeInv
<1> SUFFICES ASSUME Init PROVE Shape /\ \A c \in Calls : CallInv(c) /\ CallSafe(c)
    BY InvokeInvByCall
<1> QED
    BY DEF Init, Shape, CallInv, CallSafe, Running, Settled

\* Every step keeps the invariant.
LEMMA InvokeInvNext == InvokeInv /\ [Next]_vars => InvokeInv'
<1> SUFFICES ASSUME Shape, \A c \in Calls : CallInv(c) /\ CallSafe(c), [Next]_vars
             PROVE  Shape' /\ \A d \in Calls : CallInv(d)' /\ CallSafe(d)'
    BY InvokeInvByCall DEF InvokeInv, Shape, CallSafe, EffectsArePermitted, RecordBeforeChanges
<1>1. ASSUME NEW c \in Calls, NEW t \in Tools, NEW o \in Options,
             NEW valid \in BOOLEAN, Invoke(c, t, o, valid)
      PROVE  Shape' /\ \A d \in Calls : CallInv(d)' /\ CallSafe(d)'
  <2>1. Shape'
      BY <1>1 DEF Invoke, Settle, Shape, Running, Settled, work, tree
  <2>2. ASSUME NEW d \in Calls, d # c PROVE CallInv(d)' /\ CallSafe(d)'
      BY <1>1, <2>2, OtherCalls DEF Invoke, Settle, Shape, work, tree
  <2>3. CallInv(c)' /\ CallSafe(c)'
    <3>1. request'[c] = [tool |-> t, options |-> o] /\ effects'[c] = {}
        BY <1>1 DEF Invoke, Shape, CallInv, work, tree
    <3>2. status'[c] = "done" \/ (status'[c] = "queued" /\ Refusal(t, o, valid) = "none")
        BY <1>1 DEF Invoke, Settle, Shape
    <3>3. Refusal(t, o, valid) = "none" => Refusal(t, o, TRUE) = "none"
        BY DEF Refusal
    <3>4. request'[c] # None
        BY <3>1, InvokeAssumption
    <3>5. ToolOf(c)' = t /\ OptionsOf(c)' = o
        BY <3>1 DEF ToolOf, OptionsOf
    <3>6. CallSafe(c)'
        BY <3>1 DEF CallSafe
    <3>7. CallInv(c)'
        BY <3>1, <3>2, <3>3, <3>4, <3>5 DEF CallInv, Running
    <3> QED
        BY <3>6, <3>7
  <2> QED
      BY <2>1, <2>2, <2>3
<1>2. ASSUME NEW c \in Calls,
             Start(c) \/ Cleanup(c) \/ CheckPaths(c) \/ (\E f \in Files : ReadFile(c, f))
      PROVE  Shape' /\ \A d \in Calls : CallInv(d)' /\ CallSafe(d)'
  <2>1. CASE Cleanup(c)
      BY <2>1, OtherCalls DEF Cleanup, Shape, work, tree
  <2>2. CASE Start(c)
    <3>1. Shape'
        BY <2>2 DEF Start, Shape, Running
    <3>2. \A d \in Calls \ {c} : CallInv(d)' /\ CallSafe(d)'
        BY <2>2, OtherCalls DEF Start, Shape
    <3>3. CallInv(c)' /\ CallSafe(c)'
        BY <2>2 DEF Start, Shape, CallInv, CallSafe, ToolOf, OptionsOf, Running
    <3> QED
        BY <3>1, <3>2, <3>3
  <2>3. CASE CheckPaths(c)
    <3>1. Shape'
        BY <2>3 DEF CheckPaths, Shape, Running, work
    <3>2. \A d \in Calls \ {c} : CallInv(d)' /\ CallSafe(d)'
        BY <2>3, OtherCalls DEF CheckPaths, Shape, work
    <3>3. CallInv(c)' /\ CallSafe(c)'
        BY <2>3 DEF CheckPaths, Shape, CallInv, CallSafe, ToolOf, OptionsOf, Running, work
    <3> QED
        BY <3>1, <3>2, <3>3
  <2>4. ASSUME NEW f \in Files, ReadFile(c, f)
        PROVE  Shape' /\ \A d \in Calls : CallInv(d)' /\ CallSafe(d)'
    <3>1. Shape'
        BY <2>4 DEF ReadFile, Settle, Shape, Settled
    <3>2. \A d \in Calls \ {c} : CallInv(d)' /\ CallSafe(d)'
        BY <2>4, OtherCalls DEF ReadFile, Settle, Shape
    <3>3. /\ request'[c] = request[c] /\ effects'[c] = effects[c] /\ todo'[c] = todo[c]
          /\ status[c] = "reading" /\ status'[c] \in {"reading", "done"}
        BY <2>4 DEF ReadFile, Settle, Shape
    <3>4. CallInv(c)' /\ CallSafe(c)'
        BY <3>3, OtherCalls, EndedCall DEF Settled
    <3> QED
        BY <3>1, <3>2, <3>4
  <2> QED
      BY <1>2, <2>1, <2>2, <2>3, <2>4
<1>3. ASSUME NEW c \in Calls, PathEscapes(c) \/ Written(c) \/ WriteFails(c)
      PROVE  Shape' /\ \A d \in Calls : CallInv(d)' /\ CallSafe(d)'
  <2>1. /\ status' = [status EXCEPT ![c] = "done"] /\ status[c] # "idle"
        /\ UNCHANGED <<request, effects, todo>>
      BY <1>3 DEF PathEscapes, Written, WriteFails, Settle, work
  <2>2. Shape'
      BY <2>1 DEF Shape, Settled
  <2>3. \A d \in Calls \ {c} : CallInv(d)' /\ CallSafe(d)'
      BY <2>1, OtherCalls DEF Shape
  <2>4. CallInv(c)' /\ CallSafe(c)'
      BY <2>1, EndedCall DEF Shape, Settled
  <2> QED
      BY <2>2, <2>3, <2>4
<1>4. ASSUME NEW c \in Calls, NEW result,
             ToolFails(c, result) \/ ToolReads(c)
      PROVE  Shape' /\ \A d \in Calls : CallInv(d)' /\ CallSafe(d)'
  <2>1. /\ status' = [status EXCEPT ![c] = "done"] /\ HasRead(c)
        /\ effects' = [effects EXCEPT ![c] = @ \cup RunEffects(ToolOf(c))]
        /\ UNCHANGED <<request, todo>>
      BY <1>4 DEF ToolFails, ToolReads, Settle, work
  <2>2. Shape'
      BY <2>1 DEF Shape, Settled, RunEffects
  <2>3. \A d \in Calls \ {c} : CallInv(d)' /\ CallSafe(d)'
      BY <2>1, OtherCalls DEF Shape
  <2>4. CallInv(c)' /\ CallSafe(c)'
    <3>1. effects'[c] = RunEffects(ToolOf(c)) /\ request'[c] = request[c]
          /\ status'[c] = "done" /\ request[c] # None
        BY <2>1, RanTool DEF Shape, CallInv, HasRead
    <3>2. ToolOf(c)' = ToolOf(c) /\ OptionsOf(c)' = OptionsOf(c)
        BY <3>1 DEF ToolOf, OptionsOf
    <3>3. CallSafe(c)'
        BY <2>1, <3>1, <3>2, RanTool DEF CallSafe
    <3>4. CallInv(c)'
        BY <3>1 DEF CallInv, Running
    <3> QED
        BY <3>3, <3>4
  <2> QED
      BY <2>2, <2>3, <2>4
<1>5. ASSUME NEW c \in Calls, ToolWrites(c)
      PROVE  Shape' /\ \A d \in Calls : CallInv(d)' /\ CallSafe(d)'
  <2>1. PICK ch \in (IF ToolOf(c).files = "write" THEN ChangesOf(c) ELSE {NoChange}) :
          todo' = [todo EXCEPT ![c] = FileChanges(c, ch)]
      BY <1>5 DEF ToolWrites
  <2>2. ToolOf(c).files # "write" => FileChanges(c, ch) = {}
      BY <2>1 DEF FileChanges, NoChange
  <2>3. /\ status' = [status EXCEPT ![c] = IF ToolOf(c).records \/ ToolOf(c).files = "artifact"
                                           THEN "artifacts" ELSE "changes"]
        /\ effects' = [effects EXCEPT ![c] = @ \cup RunEffects(ToolOf(c))]
        /\ HasRead(c) /\ ToolOf(c).files # "read" /\ ~OptionsOf(c).dryRun
        /\ UNCHANGED request
      BY <1>5 DEF ToolWrites
  <2>4. Shape'
      BY <2>1, <2>3 DEF Shape, RunEffects, Running
  <2>5. \A d \in Calls \ {c} : CallInv(d)' /\ CallSafe(d)'
      BY <2>1, <2>3, OtherCalls DEF Shape
  <2>6. /\ effects'[c] = RunEffects(ToolOf(c)) /\ request'[c] = request[c]
        /\ todo'[c] = FileChanges(c, ch)
        /\ status'[c] = IF ToolOf(c).records \/ ToolOf(c).files = "artifact"
                        THEN "artifacts" ELSE "changes"
        /\ request[c] # None /\ Refusal(ToolOf(c), OptionsOf(c), TRUE) = "none"
        /\ ToolOf(c) \in Tools
    <3>1. CallInv(c) /\ effects[c] \cup RunEffects(ToolOf(c)) = RunEffects(ToolOf(c))
        BY <2>3, RanTool
    <3>2. effects'[c] = RunEffects(ToolOf(c)) /\ request'[c] = request[c]
        BY <2>3, <3>1 DEF Shape
    <3>3. todo'[c] = FileChanges(c, ch)
        BY <2>1 DEF Shape
    <3>4. status'[c] = IF ToolOf(c).records \/ ToolOf(c).files = "artifact"
                       THEN "artifacts" ELSE "changes"
        BY <2>3 DEF Shape
    <3>5. request[c] # None /\ Refusal(ToolOf(c), OptionsOf(c), TRUE) = "none"
        BY <2>3, <3>1 DEF CallInv, HasRead, Running
    <3>6. ToolOf(c) \in Tools
        BY <3>5 DEF Shape, ToolOf
    <3> QED
        BY <3>2, <3>3, <3>4, <3>5, <3>6
  <2>7. ToolOf(c).files \in {"read", "artifact", "write"} /\ ToolOf(c).records \in BOOLEAN
      BY <2>6, InvokeAssumption
  <2>8. /\ ToolOf(c)' = ToolOf(c) /\ OptionsOf(c)' = OptionsOf(c)
      BY <2>6 DEF ToolOf, OptionsOf
  <2>9. CallSafe(c)'
      BY <2>3, <2>6, <2>8, RanTool DEF CallSafe
  <2>10. "metadata" \notin effects'[c]
      BY <2>3, <2>6, RanTool
  <2>11. CallInv(c)'
    <3>1. CASE status'[c] = "artifacts"
        BY <2>2, <2>3, <2>6, <2>8, <2>10, <3>1 DEF CallInv, Running
    <3>2. CASE status'[c] = "changes" /\ ~ToolOf(c).records /\ ToolOf(c).files = "write"
        BY <2>3, <2>6, <2>8, <3>2 DEF CallInv, Running
    <3> QED
        BY <2>3, <2>6, <2>7, <3>1, <3>2
  <2> QED
      BY <2>4, <2>5, <2>9, <2>11
<1>6. ASSUME NEW c \in Calls, WriteArtifacts(c)
      PROVE  Shape' /\ \A d \in Calls : CallInv(d)' /\ CallSafe(d)'
  <2>1. /\ status[c] = "artifacts" /\ UNCHANGED <<request, todo>>
        /\ effects' = [effects EXCEPT ![c] = @ \cup {"plans"}]
        /\ status' = [status EXCEPT ![c] = IF todo[c] = {} THEN "done" ELSE "changes"]
      BY <1>6 DEF WriteArtifacts, Settle, work
  <2>2. Shape'
      BY <2>1 DEF Shape, Running, Settled
  <2>3. \A d \in Calls \ {c} : CallInv(d)' /\ CallSafe(d)'
      BY <2>1, OtherCalls DEF Shape
  <2>4. /\ ToolOf(c) \in Tools /\ OptionsOf(c) \in Options
        /\ Refusal(ToolOf(c), OptionsOf(c), TRUE) = "none"
        /\ ToolOf(c).files # "read" /\ ~OptionsOf(c).dryRun /\ request[c] # None
        /\ ToolOf(c).files # "write" => todo[c] = {}
      BY <2>1 DEF Shape, CallInv, Running, ToolOf, OptionsOf
  <2>5. /\ ~OptionsOf(c).readOnly
        /\ ToolOf(c).destructive => OptionsOf(c).confirmed
        /\ ToolOf(c).cliOnly => OptionsOf(c).channel = "cli"
      BY <2>4, PassedCall DEF FilesOk
  <2>6. /\ ToolOf(c)' = ToolOf(c) /\ OptionsOf(c)' = OptionsOf(c)
        /\ effects'[c] = effects[c] \cup {"plans"}
        /\ status'[c] = IF todo[c] = {} THEN "done" ELSE "changes"
      BY <2>1 DEF Shape, ToolOf, OptionsOf
  <2>7. CallSafe(c)'
      BY <2>4, <2>5, <2>6 DEF CallSafe
  <2>8. request'[c] = request[c] /\ "plans" \in effects'[c]
      BY <2>1, <2>6
  <2>9. CallInv(c)'
      BY <2>4, <2>6, <2>8 DEF CallInv, Running
  <2> QED
      BY <2>2, <2>3, <2>7, <2>9
<1>7. ASSUME NEW c \in Calls, NEW ch \in todo[c], WriteFile(c, ch)
      PROVE  Shape' /\ \A d \in Calls : CallInv(d)' /\ CallSafe(d)'
  <2>1. /\ status[c] = "writing" /\ UNCHANGED <<request, status>>
        /\ effects' = [effects EXCEPT ![c] = @ \cup {"metadata"}]
        /\ todo' = [todo EXCEPT ![c] = @ \ {ch}]
      BY <1>7 DEF WriteFile
  <2>2. Shape'
      BY <2>1 DEF Shape
  <2>3. \A d \in Calls \ {c} : CallInv(d)' /\ CallSafe(d)'
      BY <2>1, OtherCalls DEF Shape
  <2>4. /\ ToolOf(c) \in Tools /\ OptionsOf(c) \in Options
        /\ Refusal(ToolOf(c), OptionsOf(c), TRUE) = "none"
        /\ ToolOf(c).files = "write" /\ ~OptionsOf(c).dryRun /\ request[c] # None
        /\ ToolOf(c).records => "plans" \in effects[c]
      BY <2>1 DEF Shape, CallInv, Running, ToolOf, OptionsOf
  <2>5. /\ ~OptionsOf(c).readOnly
        /\ ToolOf(c).destructive => OptionsOf(c).confirmed
        /\ ToolOf(c).cliOnly => OptionsOf(c).channel = "cli"
      BY <2>4, PassedCall DEF FilesOk
  <2>6. /\ ToolOf(c)' = ToolOf(c) /\ OptionsOf(c)' = OptionsOf(c)
        /\ effects'[c] = effects[c] \cup {"metadata"} /\ status'[c] = "writing"
      BY <2>1 DEF Shape, ToolOf, OptionsOf
  <2>7. CallSafe(c)'
      BY <2>4, <2>5, <2>6 DEF CallSafe
  <2>8. CallInv(c)'
      BY <2>1, <2>4, <2>6 DEF CallInv, Running
  <2> QED
      BY <2>2, <2>3, <2>7, <2>8
<1>8. ASSUME Crash
      PROVE  Shape' /\ \A d \in Calls : CallInv(d)' /\ CallSafe(d)'
  <2>1. /\ UNCHANGED <<request, effects, todo>>
        /\ \A d \in Calls : \/ status'[d] = status[d]
                            \/ status'[d] = "gone" /\ status[d] # "idle"
        /\ status' \in [Calls -> Running \cup Settled \cup {"idle"}]
      BY <1>8 DEF Crash, Shape, Settled, Running, work
  <2>2. Shape'
      BY <2>1 DEF Shape
  <2>3. ASSUME NEW d \in Calls PROVE CallInv(d)' /\ CallSafe(d)'
      BY <2>1, OtherCalls, EndedCall DEF Settled
  <2> QED
      BY <2>2, <2>3
<1>9. CASE UNCHANGED vars
    BY <1>9, OtherCalls DEF vars, work, Shape
<1> QED
    BY <1>1, <1>2, <1>3, <1>4, <1>5, <1>6, <1>7, <1>8, <1>9 DEF Next, Proceed

\* The invariant holds in every state of every behaviour.
THEOREM InvokeInvariant == Spec => []InvokeInv
BY InvokeInvInit, InvokeInvNext, PTL DEF Spec

\* Whatever a call of invoke touches, its launch and its options allow.
THEOREM EffectsPermitted == Spec => []EffectsArePermitted
<1>1. InvokeInv => EffectsArePermitted
    BY DEF InvokeInv
<1> QED
    BY <1>1, InvokeInvariant, PTL

\* A promotion that has changed the directory has its record in plans/.
THEOREM RecordIsFirst == Spec => []RecordBeforeChanges
<1>1. InvokeInv => RecordBeforeChanges
    BY DEF InvokeInv
<1> QED
    BY <1>1, InvokeInvariant, PTL

-----------------------------------------------------------------------------
(* The directory: the queue lets one call at a time at it, in the order of the *)
(* calls, so every tool reads a whole tree and the directory is always what    *)
(* the last mutation made of it.  For any set of calls and paths, and any file *)
(* system that takes several paths for one file.                               *)

\* Calls that have the directory: past Start and not yet settled.
Active == {"reading", "artifacts", "changes", "writing"}

WorkType ==
  /\ waits \in [Calls -> Calls \cup {None}] /\ tail \in Calls \cup {None}
  /\ unread \in [Calls -> SUBSET Files]
  /\ DOMAIN seen = Calls /\ DOMAIN intended = Calls
  /\ disk \in [Files -> [path : Paths, by : Calls \cup {Initial}] \cup {None}]
  /\ \A f \in Files : disk[f] # None => FileOf[disk[f].path] = f
  /\ damaged \in BOOLEAN

\* The places of the calls in the chain of promises.  A queued call waits for the
\* one right before it, an active call is first, and the tail is last.
InOrder(place) ==
  /\ \A c, d \in Calls : status[c] \in Running /\ status[d] \in Running
       => \/ c = d
          \/ place[c] # place[d]
  /\ \A c, d \in Calls :
       /\ status[c] = "queued" /\ status[d] \in Running /\ place[d] < place[c]
       => /\ waits[c] # None /\ status[waits[c]] \in Running
          /\ place[d] <= place[waits[c]] /\ place[waits[c]] < place[c]
  /\ \A c, d \in Calls : status[c] \in Active /\ status[d] \in Running
       => place[c] <= place[d]
  /\ \A d \in Calls : status[d] \in Running
       => tail # None /\ status[tail] \in Running /\ place[d] <= place[tail]

Queue == \E place \in [Calls -> Nat] : InOrder(place)

\* What is left to delete and to write.
Deletes(c) == {ch.path : ch \in {x \in todo[c] : x.content = None}}
Writes(c) == {ch.path : ch \in {x \in todo[c] : x.content # None}}
Held == {e.path : e \in Tree(disk)}

\* The call c would get what it intends by making the rest of its changes.
Pending(c) ==
  /\ todo[c] \subseteq [path : Paths, content : {None, c}]
  /\ \A p \in Deletes(c) : disk[FileOf[p]] # None /\ disk[FileOf[p]].path = p
  /\ \A p, q \in (Held \ Deletes(c)) \cup Writes(c) : FileOf[p] = FileOf[q] => p = q
  /\ intended[c] = {e \in Tree(disk) : e.path \notin Deletes(c) \cup Writes(c)}
                     \cup {[path |-> p, by |-> c] : p \in Writes(c)}

DirInv(c) ==
  /\ status[c] \in {"idle", "queued"} => seen[c] = {}
  /\ status[c] = "reading" =>
       /\ \A f \in unread[c] : disk[f] # None
       /\ seen[c] \cup {disk[f] : f \in unread[c]} = Tree(disk)
  /\ status[c] \in {"artifacts", "changes", "writing"} => Pending(c)
  /\ status[c] = "writing" => accepted = intended[c]

DirectoryInv ==
  /\ WorkType /\ Queue
  /\ \A c \in Calls : DirInv(c)
  /\ DirectoryIsLastResult

-----------------------------------------------------------------------------
(* The queue *)

\* Only one call at a time has the directory.
LEMMA OneActive ==
  ASSUME Queue, NEW c \in Calls, NEW d \in Calls, status[c] \in Active, status[d] \in Active
  PROVE  c = d
<1>1. PICK place \in [Calls -> Nat] : InOrder(place)
    BY DEF Queue
<1>2. place[c] <= place[d] /\ place[d] <= place[c]
    BY <1>1 DEF InOrder, Active, Running
<1>3. place[c] = place[d]
    BY <1>2
<1> QED
    BY <1>1, <1>3 DEF InOrder, Active, Running

\* A step after which the same calls run, are active and are queued keeps the queue.
LEMMA QueueSame ==
  ASSUME WorkType, Queue, UNCHANGED queue,
         \A d \in Calls : /\ status'[d] \in Running <=> status[d] \in Running
                          /\ status'[d] \in Active <=> status[d] \in Active
                          /\ status'[d] = "queued" <=> status[d] = "queued"
  PROVE  Queue'
<1>1. PICK place \in [Calls -> Nat] : InOrder(place)
    BY DEF Queue
<1>2. /\ waits' = waits /\ tail' = tail /\ tail \in Calls \cup {None}
      /\ \A d \in Calls : waits[d] \in Calls \cup {None}
    BY DEF WorkType, queue
<1>3. InOrder(place)'
    BY <1>1, <1>2 DEF InOrder
<1> QED
    BY <1>3 DEF Queue

\* The active call settles: nobody is before the next one.
LEMMA QueueSettles ==
  ASSUME Shape, WorkType, Queue, NEW c \in Calls, status[c] \in Active,
         status' = [status EXCEPT ![c] = "done"], UNCHANGED queue
  PROVE  Queue'
<1>1. PICK place \in [Calls -> Nat] : InOrder(place)
    BY DEF Queue
<1>2. /\ waits' = waits /\ tail' = tail /\ tail \in Calls \cup {None}
      /\ \A d \in Calls : waits[d] \in Calls \cup {None}
      /\ \A d \in Calls : place[d] \in Nat
    BY DEF WorkType, queue
<1>3. /\ \A d \in Calls : status'[d] \in Running <=> status[d] \in Running /\ d # c
      /\ \A d \in Calls : status'[d] \in Active <=> status[d] \in Active /\ d # c
      /\ \A d \in Calls : status'[d] = "queued" <=> status[d] = "queued"
      /\ status[c] \in Running
    BY DEF Shape, Active, Running
<1>4. \A d \in Calls : status[d] \in Running /\ d # c => place[c] < place[d]
    BY <1>1, <1>2, <1>3 DEF InOrder
<1>5. InOrder(place)'
  <2>1. \A e, d \in Calls : status'[e] \in Running /\ status'[d] \in Running
          => e = d \/ place[e] # place[d]
      BY <1>1, <1>3 DEF InOrder
  <2>2. ASSUME NEW e \in Calls, NEW d \in Calls,
               status'[e] = "queued", status'[d] \in Running, place[d] < place[e]
        PROVE  /\ waits[e] # None /\ status'[waits[e]] \in Running
               /\ place[d] <= place[waits[e]] /\ place[waits[e]] < place[e]
    <3>1. /\ waits[e] # None /\ status[waits[e]] \in Running /\ waits[e] \in Calls
          /\ place[d] <= place[waits[e]] /\ place[waits[e]] < place[e]
        BY <1>1, <1>2, <1>3, <2>2 DEF InOrder
    <3>2. place[c] < place[d]
        BY <1>3, <1>4, <2>2
    <3>3. waits[e] # c
        BY <1>2, <3>1, <3>2
    <3> QED
        BY <1>3, <3>1, <3>3
  <2>3. \A e, d \in Calls : status'[e] \in Active /\ status'[d] \in Running
          => place[e] <= place[d]
      BY <1>1, <1>3 DEF InOrder
  <2>4. ASSUME NEW d \in Calls, status'[d] \in Running
        PROVE  tail # None /\ status'[tail] \in Running /\ place[d] <= place[tail]
    <3>1. tail # None /\ tail \in Calls /\ status[tail] \in Running /\ place[d] <= place[tail]
        BY <1>1, <1>2, <1>3, <2>4 DEF InOrder
    <3>2. tail # c
        BY <1>2, <1>3, <1>4, <2>4, <3>1
    <3> QED
        BY <1>3, <3>1, <3>2
  <2> QED
      BY <1>2, <2>1, <2>2, <2>3, <2>4 DEF InOrder
<1> QED
    BY <1>5 DEF Queue

\* A new call takes the place after the tail.
LEMMA QueueJoins ==
  ASSUME Shape, WorkType, Queue, NEW c \in Calls, status[c] = "idle",
         status' = [status EXCEPT ![c] = "queued"],
         waits' = [waits EXCEPT ![c] = tail], tail' = c
  PROVE  Queue'
<1>1. PICK place \in [Calls -> Nat] : InOrder(place)
    BY DEF Queue
<1>2. /\ tail \in Calls \cup {None} /\ c # None
      /\ \A d \in Calls : waits[d] \in Calls \cup {None}
      /\ \A d \in Calls : waits'[d] = IF d = c THEN tail ELSE waits[d]
      /\ \A d \in Calls : place[d] \in Nat
    BY InvokeAssumption DEF WorkType
<1>3. /\ \A d \in Calls : status'[d] \in Running <=> status[d] \in Running \/ d = c
      /\ \A d \in Calls : status'[d] \in Active <=> status[d] \in Active /\ d # c
      /\ \A d \in Calls : status'[d] = "queued" <=> status[d] = "queued" \/ d = c
      /\ status[c] \notin Running /\ status[c] \notin Active
    BY DEF Shape, Active, Running
<1>0. PICK last \in Nat : last = IF tail # None THEN place[tail] + 1 ELSE 0
    BY <1>2
<1>4. PICK new \in [Calls -> Nat] :
        \A d \in Calls : new[d] = IF d = c THEN last ELSE place[d]
  <2> WITNESS [place EXCEPT ![c] = last] \in [Calls -> Nat]
  <2> QED
      BY <1>2
<1>5. \A d \in Calls : status[d] \in Running =>
        /\ tail \in Calls /\ tail # None /\ status[tail] \in Running
        /\ place[d] <= place[tail] /\ place[d] < last /\ last = place[tail] + 1
    BY <1>0, <1>1, <1>2 DEF InOrder
<1>6. InOrder(new)'
  <2>1. \A e, d \in Calls : status'[e] \in Running /\ status'[d] \in Running
          => e = d \/ new[e] # new[d]
    <3> SUFFICES ASSUME NEW e \in Calls, NEW d \in Calls, e # d,
                        status'[e] \in Running, status'[d] \in Running
                 PROVE  new[e] # new[d]
        OBVIOUS
    <3>1. CASE e = c
        BY <1>2, <1>3, <1>4, <1>5, <3>1
    <3>2. CASE d = c
        BY <1>2, <1>3, <1>4, <1>5, <3>2
    <3>3. CASE e # c /\ d # c
        BY <1>1, <1>3, <1>4, <3>3 DEF InOrder
    <3> QED
        BY <3>1, <3>2, <3>3
  <2>2. ASSUME NEW e \in Calls, NEW d \in Calls,
               status'[e] = "queued", status'[d] \in Running, new[d] < new[e]
        PROVE  /\ waits'[e] # None /\ status'[waits'[e]] \in Running
               /\ new[d] <= new[waits'[e]] /\ new[waits'[e]] < new[e]
    <3>1. CASE e = c
      <4>1. d # c
          BY <1>4, <2>2, <3>1
      <4>2. status[d] \in Running /\ waits'[e] = tail /\ tail # c
          BY <1>2, <1>3, <1>5, <2>2, <3>1, <4>1
      <4>3. /\ tail \in Calls /\ tail # None /\ status[tail] \in Running
            /\ place[d] <= place[tail] /\ last = place[tail] + 1
          BY <1>5, <4>2
      <4>4. /\ new[d] = place[d] /\ new[tail] = place[tail] /\ new[e] = last
            /\ status'[tail] \in Running /\ place[tail] \in Nat
          BY <1>2, <1>3, <1>4, <3>1, <4>1, <4>2, <4>3
      <4> QED
          BY <4>2, <4>3, <4>4
    <3>2. CASE e # c
      <4>1. status[e] = "queued" /\ waits'[e] = waits[e] /\ new[e] = place[e]
            /\ status[e] \in Running
          BY <1>2, <1>3, <1>4, <2>2, <3>2 DEF Running
      <4>2. d # c
          BY <1>2, <1>4, <1>5, <2>2, <4>1
      <4>3. status[d] \in Running /\ new[d] = place[d]
          BY <1>3, <1>4, <2>2, <4>2
      <4>4. /\ waits[e] # None /\ status[waits[e]] \in Running /\ waits[e] \in Calls
            /\ place[d] <= place[waits[e]] /\ place[waits[e]] < place[e]
          BY <1>1, <1>2, <2>2, <4>1, <4>3 DEF InOrder
      <4>5. waits[e] # c
          BY <1>3, <4>4
      <4> QED
          BY <1>3, <1>4, <4>1, <4>3, <4>4, <4>5
    <3> QED
        BY <3>1, <3>2
  <2>3. \A e, d \in Calls : status'[e] \in Active /\ status'[d] \in Running
          => new[e] <= new[d]
    <3> SUFFICES ASSUME NEW e \in Calls, NEW d \in Calls,
                        status'[e] \in Active, status'[d] \in Running
                 PROVE  new[e] <= new[d]
        OBVIOUS
    <3>1. status[e] \in Active /\ e # c /\ status[e] \in Running
        BY <1>3 DEF Active, Running
    <3>2. CASE d = c
        BY <1>2, <1>4, <1>5, <3>1, <3>2
    <3>3. CASE d # c
        BY <1>1, <1>3, <1>4, <3>1, <3>3 DEF InOrder
    <3> QED
        BY <3>2, <3>3
  <2>4. \A d \in Calls : status'[d] \in Running => new[d] <= new[c]
    <3> SUFFICES ASSUME NEW d \in Calls, status'[d] \in Running PROVE new[d] <= new[c]
        OBVIOUS
    <3>1. CASE d = c
        BY <1>4, <3>1
    <3>2. CASE d # c
        BY <1>2, <1>3, <1>4, <1>5, <3>2
    <3> QED
        BY <3>1, <3>2
  <2>5. tail' = c /\ tail' # None /\ status'[c] \in Running
      BY <1>2, <1>3
  <2> QED
      BY <2>1, <2>2, <2>3, <2>4, <2>5 DEF InOrder
<1> QED
    BY <1>4, <1>6 DEF Queue

\* A queued call starts when the one before it has settled: then it is the first.
LEMMA QueueStarts ==
  ASSUME Shape, WorkType, Queue, NEW c \in Calls, status[c] = "queued",
         waits[c] # None => status[waits[c]] \in Settled,
         status' = [status EXCEPT ![c] = "reading"], UNCHANGED queue
  PROVE  Queue'
<1>1. PICK place \in [Calls -> Nat] : InOrder(place)
    BY DEF Queue
<1>2. /\ waits' = waits /\ tail' = tail /\ tail \in Calls \cup {None}
      /\ \A d \in Calls : waits[d] \in Calls \cup {None}
      /\ \A d \in Calls : place[d] \in Nat
    BY DEF WorkType, queue
<1>3. /\ \A d \in Calls : status'[d] \in Running <=> status[d] \in Running
      /\ \A d \in Calls : status'[d] \in Active <=> status[d] \in Active \/ d = c
      /\ \A d \in Calls : status'[d] = "queued" => status[d] = "queued"
    BY DEF Shape, Active, Running
<1>4. waits[c] # None => status[waits[c]] \notin Running
    BY DEF Settled, Running
<1>5. ASSUME NEW d \in Calls, status[d] \in Running PROVE place[c] <= place[d]
  <2>1. ~(place[d] < place[c])
      BY <1>1, <1>4, <1>5 DEF InOrder
  <2> QED
      BY <1>2, <2>1
<1>6. InOrder(place)'
    BY <1>1, <1>2, <1>3, <1>5 DEF InOrder
<1> QED
    BY <1>6 DEF Queue

\* Nobody runs, so nobody waits.
LEMMA QueueEmpty ==
  ASSUME \A d \in Calls : status'[d] \notin Running PROVE Queue'
<1> DEFINE place == [d \in Calls |-> 0]
<1>1. InOrder(place)'
    BY DEF InOrder, Running, Active
<1>2. place \in [Calls -> Nat]
    OBVIOUS
<1> QED
    BY <1>1, <1>2 DEF Queue


-----------------------------------------------------------------------------
(* The tree *)

\* The entries of the tree, each in the file its path names.
LEMMA TreeEntries ==
  ASSUME WorkType
  PROVE  /\ \A e \in Tree(disk) : /\ e \in [path : Paths, by : Calls \cup {Initial}]
                                  /\ e # None /\ FileOf[e.path] \in Files
                                  /\ disk[FileOf[e.path]] = e
         /\ \A f \in Files : disk[f] # None => disk[f] \in Tree(disk)
         /\ \A p \in Paths : FileOf[p] \in Files
BY DEF WorkType, Tree, Files

\* Two entries of one file are one entry.
LEMMA HeldDiffer ==
  ASSUME WorkType, NEW p \in Held, NEW q \in Held, FileOf[p] = FileOf[q]
  PROVE  p = q
<1>1. PICK d \in Tree(disk), e \in Tree(disk) : d.path = p /\ e.path = q
    BY DEF Held
<1> QED
    BY <1>1, TreeEntries

\* What a step leaves alone of a call and of the directory.
LEMMA DirSame ==
  ASSUME NEW d \in Calls, DirInv(d), disk' = disk,
         status'[d] = status[d], seen'[d] = seen[d], unread'[d] = unread[d],
         todo'[d] = todo[d], intended'[d] = intended[d],
         status[d] = "writing" => accepted' = accepted
  PROVE  DirInv(d)'
<1>1. /\ Deletes(d)' = Deletes(d) /\ Writes(d)' = Writes(d)
      /\ Tree(disk)' = Tree(disk) /\ Held' = Held
    BY DEF Deletes, Writes, Held
<1>2. Pending(d)' <=> Pending(d)
    BY <1>1 DEF Pending
<1> QED
    BY <1>1, <1>2 DEF DirInv

\* A settled call has nothing more to say.
LEMMA DirSettled ==
  ASSUME NEW d \in Calls, status'[d] \in Settled PROVE DirInv(d)'
BY DEF DirInv, Settled

\* The changes of the tool turn what it has read, the tree, into its result.
LEMMA PendingMade ==
  ASSUME WorkType, NEW c \in Calls, seen[c] = Tree(disk), disk' = disk,
         NEW ch, ch \in ChangesOf(c) \/ ch = NoChange,
         todo'[c] = FileChanges(c, ch), intended'[c] = Result(c, ch)
  PROVE  Pending(c)'
<1>1. c # None
    BY InvokeAssumption
<1>2. /\ ch.del \subseteq Held /\ ch.new \subseteq Paths /\ Held \subseteq Paths
      /\ ch \in ChangesOf(c) => \A p, q \in (Held \ ch.del) \cup ch.new :
           FileOf[p] = FileOf[q] => p = q
      /\ ch = NoChange => ch.del = {} /\ ch.new = {}
    BY TreeEntries DEF ChangesOf, NoChange, Held
<1>3. \A p, q \in (Held \ ch.del) \cup ch.new : FileOf[p] = FileOf[q] => p = q
    BY <1>2, HeldDiffer
<1>4. Deletes(c)' = ch.del /\ Writes(c)' = ch.new
  <2>1. /\ \A x \in todo'[c] : \/ \E p \in ch.del : x = Change(p, None)
                               \/ \E p \in ch.new : x = Change(p, c)
        /\ \A p \in ch.del : Change(p, None) \in todo'[c]
        /\ \A p \in ch.new : Change(p, c) \in todo'[c]
      BY DEF FileChanges
  <2>2. \A p, v : Change(p, v).path = p /\ Change(p, v).content = v
      BY DEF Change
  <2>3. \A p : p \in Deletes(c)' <=> \E x \in todo'[c] : x.content = None /\ x.path = p
      BY DEF Deletes
  <2>4. \A p : p \in Writes(c)' <=> \E x \in todo'[c] : x.content # None /\ x.path = p
      BY DEF Writes
  <2>5. \A p : p \in Deletes(c)' <=> p \in ch.del
      BY <1>1, <2>1, <2>2, <2>3
  <2>6. \A p : p \in Writes(c)' <=> p \in ch.new
      BY <1>1, <2>1, <2>2, <2>4
  <2> QED
      BY <2>5, <2>6
<1>5. todo'[c] \subseteq [path : Paths, content : {None, c}]
    BY <1>2 DEF FileChanges, Change
<1>6. \A p \in ch.del : disk[FileOf[p]] # None /\ disk[FileOf[p]].path = p
    BY <1>2, TreeEntries DEF Held
<1>7. Tree(disk)' = Tree(disk) /\ Held' = Held
    BY DEF Held
<1> QED
    BY <1>3, <1>4, <1>5, <1>6, <1>7 DEF Pending, Result

\* One change is made, and the rest still leads to the same result.
LEMMA PendingWritten ==
  ASSUME WorkType, NEW c \in Calls, Pending(c), NEW ch \in todo[c], WriteFile(c, ch),
         todo'[c] = todo[c] \ {ch}
  PROVE  /\ Pending(c)'
         /\ disk' \in [Files -> [path : Paths, by : Calls \cup {Initial}] \cup {None}]
         /\ \A f \in Files : disk'[f] # None => FileOf[disk'[f].path] = f
<1> DEFINE p == ch.path
           f == FileOf[p]
           e == [path |-> p, by |-> c]
<1>1. /\ c # None /\ ch = [path |-> p, content |-> ch.content] /\ p \in Paths
      /\ ch.content \in {None, c} /\ f \in Files
      /\ e \in [path : Paths, by : Calls \cup {Initial}] /\ e # None
    BY InvokeAssumption, TreeEntries DEF Pending
<1>2. \A x, y \in todo[c] : x.path = y.path /\ x.content = y.content => x = y
    BY DEF Pending
<1>3. /\ intended'[c] = intended[c] /\ DOMAIN disk = Files
      /\ \A g \in Files : g # f => disk'[g] = disk[g]
      /\ disk' = [disk EXCEPT ![f] = disk'[f]]
    BY <1>1 DEF WriteFile, WorkType
<1>4. \A x \in Tree(disk) : x.path = p => x = disk[f]
    BY TreeEntries
<1>5. CASE ch.content = None
  <2>1. disk'[f] = None
      BY <1>1, <1>5 DEF WriteFile, WorkType
  <2>2. p \in Deletes(c) /\ disk[f] # None /\ disk[f].path = p
      BY <1>5 DEF Deletes, Pending
  <2>3. Deletes(c)' = Deletes(c) \ {p} /\ Writes(c)' = Writes(c)
    <3>1. Deletes(c)' = Deletes(c) \ {p}
        BY <1>2, <1>5 DEF Deletes
    <3>2. Writes(c)' = Writes(c)
        BY <1>5 DEF Writes
    <3> QED
        BY <3>1, <3>2
  <2>4. Tree(disk)' = {x \in Tree(disk) : x.path # p}
    <3>1. ASSUME NEW x \in Tree(disk)' PROVE x \in Tree(disk) /\ x.path # p
      <4>1. PICK g \in Files : x = disk'[g] /\ x # None
          BY DEF Tree
      <4>2. g # f /\ x = disk[g]
          BY <1>3, <2>1, <4>1
      <4>3. x \in Tree(disk) /\ FileOf[x.path] = g
          BY <4>1, <4>2, TreeEntries DEF WorkType
      <4> QED
          BY <4>2, <4>3
    <3>2. ASSUME NEW x \in Tree(disk), x.path # p PROVE x \in Tree(disk)'
      <4>1. FileOf[x.path] \in Files /\ disk[FileOf[x.path]] = x /\ x # None
          BY TreeEntries
      <4>2. FileOf[x.path] # f
          BY <2>2, <3>2, <4>1
      <4> QED
          BY <1>3, <4>1, <4>2 DEF Tree
    <3> QED
        BY <3>1, <3>2
  <2>5. Held' = Held \ {p}
      BY <2>4 DEF Held
  <2>6. \A q \in Deletes(c)' : disk'[FileOf[q]] # None /\ disk'[FileOf[q]].path = q
    <3> SUFFICES ASSUME NEW q \in Deletes(c), q # p
                 PROVE  disk'[FileOf[q]] # None /\ disk'[FileOf[q]].path = q
        BY <2>3
    <3>1. disk[FileOf[q]] # None /\ disk[FileOf[q]].path = q /\ FileOf[q] \in Files
        BY TreeEntries DEF Pending, Deletes
    <3>2. FileOf[q] # f
        BY <2>2, <3>1
    <3> QED
        BY <1>3, <3>1, <3>2
  <2>7. \A q, r \in (Held' \ Deletes(c)') \cup Writes(c)' : FileOf[q] = FileOf[r] => q = r
      BY <2>3, <2>5 DEF Pending
  <2>8. intended[c] = {x \in Tree(disk)' : x.path \notin Deletes(c)' \cup Writes(c)'}
                        \cup {[path |-> q, by |-> c] : q \in Writes(c)'}
      BY <2>2, <2>3, <2>4 DEF Pending
  <2>9. Pending(c)'
      BY <1>3, <2>6, <2>7, <2>8 DEF Pending
  <2> QED
      BY <1>3, <2>1, <2>9 DEF WorkType
<1>6. CASE ch.content = c
  <2>1. Deletes(c) = {}
      BY <1>1, <1>6 DEF WriteFile, Ordered, Deletes
  <2>2. p \in Writes(c)
      BY <1>1, <1>6 DEF Writes
  <2>3. disk[f] # None => disk[f].path = p
    <3> SUFFICES ASSUME disk[f] # None PROVE disk[f].path = p
        OBVIOUS
    <3>1. disk[f].path \in Held /\ FileOf[disk[f].path] = f
        BY <1>1, TreeEntries DEF Held, WorkType
    <3> QED
        BY <2>1, <2>2, <3>1 DEF Pending
  <2>4. disk'[f] = e
      BY <1>1, <1>6, <2>3 DEF WriteFile, WorkType
  <2>5. Deletes(c)' = {} /\ Writes(c)' = Writes(c) \ {p}
    <3>1. Deletes(c)' = {}
        BY <2>1 DEF Deletes
    <3>2. \A x \in todo[c] : x.content # None => x.content = c
        BY DEF Pending
    <3>3. Writes(c)' = Writes(c) \ {p}
        BY <1>1, <1>2, <1>6, <3>2 DEF Writes
    <3> QED
        BY <3>1, <3>3
  <2>6. Tree(disk)' = {x \in Tree(disk) : x.path # p} \cup {e}
    <3>1. ASSUME NEW x \in Tree(disk)', x # e PROVE x \in Tree(disk) /\ x.path # p
      <4>1. PICK g \in Files : x = disk'[g] /\ x # None
          BY DEF Tree
      <4>2. g # f /\ x = disk[g]
          BY <1>3, <2>4, <3>1, <4>1
      <4>3. x \in Tree(disk) /\ FileOf[x.path] = g
          BY <4>1, <4>2, TreeEntries DEF WorkType
      <4> QED
          BY <4>2, <4>3
    <3>2. ASSUME NEW x \in Tree(disk), x.path # p PROVE x \in Tree(disk)'
      <4>1. FileOf[x.path] \in Files /\ disk[FileOf[x.path]] = x /\ x # None
          BY TreeEntries
      <4>2. FileOf[x.path] # f
          BY <2>3, <3>2, <4>1
      <4> QED
          BY <1>3, <4>1, <4>2 DEF Tree
    <3>3. e \in Tree(disk)'
        BY <1>1, <2>4 DEF Tree
    <3> QED
        BY <3>1, <3>2, <3>3
  <2>7. Held' = Held \cup {p} /\ e.path = p
    <3>1. e.path = p
        OBVIOUS
    <3>0. \A q : q \in Held' <=> \E x \in Tree(disk)' : x.path = q
        BY DEF Held
    <3>2. ASSUME NEW q \in Held PROVE q \in Held'
        BY <2>6, <3>0, <3>1 DEF Held
    <3>3. ASSUME NEW q \in Held' PROVE q \in Held \cup {p}
        BY <2>6, <3>0, <3>1 DEF Held
    <3>4. p \in Held'
        BY <2>6, <3>0, <3>1
    <3> QED
        BY <3>1, <3>2, <3>3, <3>4
  <2>8. \A q, r \in (Held' \ Deletes(c)') \cup Writes(c)' : FileOf[q] = FileOf[r] => q = r
      BY <2>1, <2>2, <2>5, <2>7 DEF Pending
  <2>9. intended[c] = {x \in Tree(disk)' : x.path \notin Deletes(c)' \cup Writes(c)'}
                        \cup {[path |-> q, by |-> c] : q \in Writes(c)'}
    <3>1. intended[c] = {x \in Tree(disk) : x.path \notin Writes(c)}
                          \cup {[path |-> q, by |-> c] : q \in Writes(c)}
        BY <2>1 DEF Pending
    <3>2. {x \in Tree(disk)' : x.path \notin Writes(c)'}
            = {x \in Tree(disk) : x.path \notin Writes(c)} \cup {e}
        BY <2>2, <2>5, <2>6
    <3>3. {[path |-> q, by |-> c] : q \in Writes(c)}
            = {[path |-> q, by |-> c] : q \in Writes(c)'} \cup {e}
        BY <2>2, <2>5
    <3> QED
        BY <2>5, <3>1, <3>2, <3>3
  <2>10. Pending(c)'
      BY <1>3, <2>5, <2>8, <2>9 DEF Pending
  <2> QED
      BY <1>1, <1>3, <2>4, <2>10 DEF WorkType
<1> QED
    BY <1>1, <1>5, <1>6


-----------------------------------------------------------------------------
(* The invariant *)

\* Nobody stops writing and the directory stays as it is.
LEMMA LastResultKept ==
  ASSUME DirectoryIsLastResult, UNCHANGED tree,
         \A d \in Calls : status[d] = "writing" => status'[d] = "writing"
  PROVE  DirectoryIsLastResult'
BY DEF DirectoryIsLastResult, tree

\* A step of the active call c that settles it, with the directory as it is.
LEMMA SettlesKeeps ==
  ASSUME Shape, DirectoryInv, NEW c \in Calls, status[c] \in Active,
         status' = [status EXCEPT ![c] = "done"],
         UNCHANGED <<queue, tree, todo, intended>>,
         unread' \in [Calls -> SUBSET Files], DOMAIN seen' = Calls,
         \A d \in Calls \ {c} : unread'[d] = unread[d] /\ seen'[d] = seen[d],
         status[c] = "writing" => todo[c] = {}
  PROVE  DirectoryInv'
<1>1. WorkType'
    BY DEF DirectoryInv, WorkType, queue, tree
<1>2. Queue'
    BY QueueSettles DEF DirectoryInv
<1>3. \A d \in Calls : DirInv(d)'
  <2>1. \A d \in Calls \ {c} : DirInv(d)'
      BY DirSame DEF DirectoryInv, Shape, tree
  <2>2. DirInv(c)'
      BY DirSettled DEF Shape, Settled
  <2> QED
      BY <2>1, <2>2
<1>4. DirectoryIsLastResult'
  <2>1. CASE status[c] = "writing"
    <3>1. accepted = intended[c] /\ Pending(c) /\ Deletes(c) = {} /\ Writes(c) = {}
        BY <2>1 DEF DirectoryInv, DirInv, Deletes, Writes
    <3>2. Tree(disk) = accepted
        BY <3>1 DEF Pending
    <3> QED
        BY <3>2 DEF DirectoryIsLastResult, tree
  <2>2. CASE status[c] # "writing"
      BY <2>2, LastResultKept DEF DirectoryInv, Shape
  <2> QED
      BY <2>1, <2>2
<1> QED
    BY <1>1, <1>2, <1>3, <1>4 DEF DirectoryInv

\* A call joins the queue or is refused.
LEMMA InvokeKeeps ==
  ASSUME Shape, DirectoryInv, NEW c \in Calls, NEW t \in Tools, NEW o \in Options,
         NEW valid \in BOOLEAN, Invoke(c, t, o, valid)
  PROVE  DirectoryInv'
<1>1. /\ status[c] = "idle" /\ UNCHANGED <<work, tree>>
      /\ \/ /\ status' = [status EXCEPT ![c] = "done"] /\ UNCHANGED queue
         \/ /\ status' = [status EXCEPT ![c] = "queued"]
            /\ waits' = [waits EXCEPT ![c] = tail] /\ tail' = c
    BY DEF Invoke, Settle
<1>2. WorkType'
    BY <1>1 DEF DirectoryInv, WorkType, queue, tree, work
<1>3. Queue'
  <2>1. CASE status' = [status EXCEPT ![c] = "done"] /\ UNCHANGED queue
    <3>1. \A d \in Calls : /\ status'[d] \in Running <=> status[d] \in Running
                           /\ status'[d] \in Active <=> status[d] \in Active
                           /\ status'[d] = "queued" <=> status[d] = "queued"
        BY <1>1, <2>1 DEF Shape, Running, Active
    <3> QED
        BY <2>1, <3>1, QueueSame DEF DirectoryInv
  <2>2. CASE status' = [status EXCEPT ![c] = "queued"] /\ tail' = c
             /\ waits' = [waits EXCEPT ![c] = tail]
      BY <1>1, <2>2, QueueJoins DEF DirectoryInv
  <2> QED
      BY <1>1, <2>1, <2>2
<1>4. \A d \in Calls : DirInv(d)'
  <2>1. \A d \in Calls \ {c} : DirInv(d)'
      BY <1>1, DirSame DEF DirectoryInv, Shape, tree, work
  <2>2. DirInv(c)'
    <3>1. status'[c] \in {"done", "queued"} /\ seen'[c] = {}
        BY <1>1 DEF DirectoryInv, DirInv, Shape, work
    <3> QED
        BY <3>1 DEF DirInv
  <2> QED
      BY <2>1, <2>2
<1>5. DirectoryIsLastResult'
    BY <1>1, LastResultKept DEF DirectoryInv, Shape
<1> QED
    BY <1>2, <1>3, <1>4, <1>5 DEF DirectoryInv

\* The next task starts: it lists the tree and has read nothing.
LEMMA StartKeeps ==
  ASSUME Shape, DirectoryInv, NEW c \in Calls, Start(c) PROVE DirectoryInv'
<1>1. /\ status[c] = "queued" /\ status' = [status EXCEPT ![c] = "reading"]
      /\ unread' = [unread EXCEPT ![c] = {f \in Files : disk[f] # None}]
      /\ UNCHANGED <<queue, seen, todo, intended, tree>>
    BY DEF Start
<1>2. WorkType'
    BY <1>1 DEF DirectoryInv, WorkType, queue, tree
<1>3. Queue'
    BY <1>1, QueueStarts DEF DirectoryInv, Start
<1>4. \A d \in Calls : DirInv(d)'
  <2>1. \A d \in Calls \ {c} : DirInv(d)'
      BY <1>1, DirSame DEF DirectoryInv, WorkType, Shape, tree
  <2>2. DirInv(c)'
    <3>1. /\ status'[c] = "reading" /\ seen'[c] = {} /\ disk' = disk
          /\ unread'[c] = {f \in Files : disk[f] # None}
        BY <1>1 DEF DirectoryInv, DirInv, WorkType, Shape, tree
    <3>2. {disk[f] : f \in unread'[c]} = Tree(disk)
        BY <3>1 DEF Tree
    <3> QED
        BY <3>1, <3>2 DEF DirInv
  <2> QED
      BY <2>1, <2>2
<1>5. DirectoryIsLastResult'
    BY <1>1, LastResultKept DEF DirectoryInv, Shape
<1> QED
    BY <1>2, <1>3, <1>4, <1>5 DEF DirectoryInv

\* One more file is read; the error of a file that is gone settles the call.
LEMMA ReadKeeps ==
  ASSUME Shape, DirectoryInv, NEW c \in Calls, NEW f \in Files, ReadFile(c, f)
  PROVE  DirectoryInv'
<1>1. CASE disk[f] = None
    BY <1>1, SettlesKeeps DEF ReadFile, Settle, Active, DirectoryInv, WorkType
<1>2. CASE disk[f] # None
  <2>1. /\ status[c] = "reading" /\ f \in unread[c] /\ status' = status
        /\ unread' = [unread EXCEPT ![c] = @ \ {f}]
        /\ seen' = [seen EXCEPT ![c] = @ \cup {disk[f]}]
        /\ UNCHANGED <<queue, todo, intended, tree>>
      BY <1>2 DEF ReadFile
  <2>2. WorkType'
      BY <2>1 DEF DirectoryInv, WorkType, queue, tree
  <2>3. Queue'
      BY <2>1, QueueSame DEF DirectoryInv
  <2>4. \A d \in Calls : DirInv(d)'
    <3>1. \A d \in Calls \ {c} : DirInv(d)'
        BY <2>1, DirSame DEF DirectoryInv, WorkType, tree
    <3>2. DirInv(c)'
      <4>1. /\ unread'[c] = unread[c] \ {f} /\ seen'[c] = seen[c] \cup {disk[f]}
            /\ disk' = disk /\ status'[c] = "reading"
          BY <2>1 DEF DirectoryInv, WorkType, tree
      <4>2. /\ \A g \in unread[c] : disk[g] # None
            /\ seen[c] \cup {disk[g] : g \in unread[c]} = Tree(disk)
          BY <2>1 DEF DirectoryInv, DirInv
      <4>3. seen'[c] \cup {disk[g] : g \in unread'[c]} = Tree(disk)
          BY <2>1, <4>1, <4>2
      <4> QED
          BY <4>1, <4>2, <4>3 DEF DirInv
    <3> QED
        BY <3>1, <3>2
  <2>5. DirectoryIsLastResult'
      BY <2>1, LastResultKept DEF DirectoryInv
  <2> QED
      BY <2>2, <2>3, <2>4, <2>5 DEF DirectoryInv
<1> QED
    BY <1>1, <1>2

\* A call goes on within the directory, and the directory stays as it is.
LEMMA GoesOnKeeps ==
  ASSUME Shape, DirectoryInv, NEW c \in Calls, NEW s \in {"artifacts", "changes"},
         status[c] \in {"reading", "artifacts"},
         status' = [status EXCEPT ![c] = s], Pending(c)',
         UNCHANGED <<queue, tree, unread, seen>>,
         DOMAIN intended' = Calls,
         \A d \in Calls \ {c} : todo'[d] = todo[d] /\ intended'[d] = intended[d]
  PROVE  DirectoryInv'
<1>1. WorkType'
    BY DEF DirectoryInv, WorkType, queue, tree
<1>2. Queue'
  <2>1. \A d \in Calls : /\ status'[d] \in Running <=> status[d] \in Running
                         /\ status'[d] \in Active <=> status[d] \in Active
                         /\ status'[d] = "queued" <=> status[d] = "queued"
      BY DEF Shape, Running, Active
  <2> QED
      BY <2>1, QueueSame DEF DirectoryInv
<1>3. \A d \in Calls : DirInv(d)'
  <2>1. \A d \in Calls \ {c} : DirInv(d)'
      BY DirSame DEF DirectoryInv, Shape, tree
  <2>2. DirInv(c)'
      BY DEF DirInv, Shape
  <2> QED
      BY <2>1, <2>2
<1>4. DirectoryIsLastResult'
    BY LastResultKept DEF DirectoryInv, Shape
<1> QED
    BY <1>1, <1>2, <1>3, <1>4 DEF DirectoryInv

\* The tool returns its changes.
LEMMA ToolKeeps ==
  ASSUME Shape, DirectoryInv, NEW c \in Calls, ToolWrites(c) PROVE DirectoryInv'
<1>1. PICK ch \in (IF ToolOf(c).files = "write" THEN ChangesOf(c) ELSE {NoChange}) :
        /\ todo' = [todo EXCEPT ![c] = FileChanges(c, ch)]
        /\ intended' = [intended EXCEPT ![c] = Result(c, ch)]
    BY DEF ToolWrites
<1>2. PICK s \in {"artifacts", "changes"} : status' = [status EXCEPT ![c] = s]
    BY DEF ToolWrites
<1>3. /\ status[c] = "reading" /\ unread[c] = {}
      /\ UNCHANGED <<queue, tree, unread, seen>>
    BY DEF ToolWrites, HasRead
<1>4. seen[c] = Tree(disk)
    BY <1>3, ZenonT(60) DEF DirectoryInv, DirInv
<1>5. /\ todo'[c] = FileChanges(c, ch) /\ intended'[c] = Result(c, ch)
      /\ disk' = disk /\ DOMAIN intended' = Calls
      /\ \A d \in Calls \ {c} : todo'[d] = todo[d] /\ intended'[d] = intended[d]
    BY <1>1, <1>3 DEF Shape, DirectoryInv, WorkType, tree
<1>6. Pending(c)'
    BY <1>1, <1>4, <1>5, PendingMade DEF DirectoryInv
<1> QED
    BY <1>2, <1>3, <1>5, <1>6, GoesOnKeeps

\* The artifacts are written; the changes, if any, are next.
LEMMA ArtifactsKeep ==
  ASSUME Shape, DirectoryInv, NEW c \in Calls, WriteArtifacts(c) PROVE DirectoryInv'
<1>1. status[c] = "artifacts" /\ UNCHANGED <<queue, work, tree>> /\ Pending(c)
    BY DEF WriteArtifacts, DirectoryInv, DirInv
<1>2. CASE todo[c] = {}
    BY <1>1, <1>2, SettlesKeeps
    DEF WriteArtifacts, Settle, work, Active, DirectoryInv, WorkType
<1>3. CASE todo[c] # {}
  <2>1. Pending(c)'
      BY <1>1 DEF Pending, Deletes, Writes, Held, work, tree
  <2> QED
      BY <1>1, <1>3, <2>1, GoesOnKeeps DEF WriteArtifacts, work, DirectoryInv, WorkType
<1> QED
    BY <1>2, <1>3

\* writeChanges accepts its paths: from here on the result is the accepted tree.
LEMMA CheckKeeps ==
  ASSUME Shape, DirectoryInv, NEW c \in Calls, CheckPaths(c) PROVE DirectoryInv'
<1>1. /\ status[c] = "changes" /\ status' = [status EXCEPT ![c] = "writing"]
      /\ accepted' = intended[c] /\ UNCHANGED <<queue, work, disk, damaged>>
    BY DEF CheckPaths
<1>2. WorkType'
    BY <1>1 DEF DirectoryInv, WorkType, queue, work
<1>3. Queue'
  <2>1. \A d \in Calls : /\ status'[d] \in Running <=> status[d] \in Running
                         /\ status'[d] \in Active <=> status[d] \in Active
                         /\ status'[d] = "queued" <=> status[d] = "queued"
      BY <1>1 DEF Shape, Running, Active
  <2> QED
      BY <1>1, <2>1, QueueSame DEF DirectoryInv
<1>4. \A d \in Calls : DirInv(d)'
  <2>1. ASSUME NEW d \in Calls, d # c PROVE DirInv(d)'
    <3>1. status[d] # "writing"
        BY <1>1, <2>1, OneActive DEF Active, DirectoryInv
    <3> QED
        BY <1>1, <2>1, <3>1, DirSame DEF DirectoryInv, Shape, work
  <2>2. DirInv(c)'
    <3>1. Pending(c)
        BY <1>1 DEF DirectoryInv, DirInv
    <3>2. Pending(c)'
        BY <1>1, <3>1 DEF Pending, Deletes, Writes, Held, work
    <3> QED
        BY <1>1, <3>2 DEF DirInv, Shape, work
  <2> QED
      BY <2>1, <2>2
<1>5. DirectoryIsLastResult'
    BY <1>1 DEF DirectoryIsLastResult, Shape
<1> QED
    BY <1>2, <1>3, <1>4, <1>5 DEF DirectoryInv

\* One change is made; nobody else is at the directory.
LEMMA WriteKeeps ==
  ASSUME Shape, DirectoryInv, NEW c \in Calls, NEW ch \in todo[c], WriteFile(c, ch)
  PROVE  DirectoryInv'
<1>1. /\ status[c] = "writing" /\ todo' = [todo EXCEPT ![c] = @ \ {ch}]
      /\ UNCHANGED <<status, queue, unread, seen, intended, accepted, damaged>>
    BY DEF WriteFile
<1>2. todo'[c] = todo[c] \ {ch} /\ Pending(c) /\ accepted = intended[c]
    BY <1>1 DEF Shape, DirectoryInv, DirInv
<1>3. /\ Pending(c)'
      /\ disk' \in [Files -> [path : Paths, by : Calls \cup {Initial}] \cup {None}]
      /\ \A f \in Files : disk'[f] # None => FileOf[disk'[f].path] = f
    BY <1>2, PendingWritten DEF DirectoryInv
<1>4. WorkType'
    BY <1>1, <1>3 DEF DirectoryInv, WorkType, queue
<1>5. Queue'
    BY <1>1, QueueSame DEF DirectoryInv
<1>6. \A d \in Calls : DirInv(d)'
  <2>1. ASSUME NEW d \in Calls, d # c PROVE DirInv(d)'
    <3>1. status[d] \notin Active
        BY <1>1, <2>1, OneActive DEF Active, DirectoryInv
    <3>2. status[d] \in {"idle", "queued"} => seen'[d] = {}
        BY <1>1 DEF DirectoryInv, DirInv
    <3> QED
        BY <1>1, <3>1, <3>2 DEF DirInv, Active
  <2>2. DirInv(c)'
      BY <1>1, <1>2, <1>3 DEF DirInv
  <2> QED
      BY <2>1, <2>2
<1>7. DirectoryIsLastResult'
    BY <1>1 DEF DirectoryIsLastResult
<1> QED
    BY <1>4, <1>5, <1>6, <1>7 DEF DirectoryInv

\* A write fails: the call is settled, and a directory cut short is damaged.
LEMMA FailKeeps ==
  ASSUME Shape, DirectoryInv, NEW c \in Calls, WriteFails(c) PROVE DirectoryInv'
<1>1. /\ status[c] \in {"artifacts", "writing"} /\ UNCHANGED <<queue, work, disk, accepted>>
      /\ status' = [status EXCEPT ![c] = "done"]
      /\ damaged' = (damaged \/ status[c] = "writing")
    BY DEF WriteFails, Settle
<1>2. WorkType'
    BY <1>1 DEF DirectoryInv, WorkType, queue, work
<1>3. Queue'
    BY <1>1, QueueSettles DEF DirectoryInv, Active
<1>4. \A d \in Calls : DirInv(d)'
  <2>1. \A d \in Calls \ {c} : DirInv(d)'
      BY <1>1, DirSame DEF DirectoryInv, Shape, work
  <2>2. DirInv(c)'
      BY <1>1, DirSettled DEF Shape, Settled
  <2> QED
      BY <2>1, <2>2
<1>5. DirectoryIsLastResult'
    BY <1>1 DEF DirectoryInv, DirectoryIsLastResult, Shape
<1> QED
    BY <1>2, <1>3, <1>4, <1>5 DEF DirectoryInv

\* The process ends; a directory whose last change was made is whole.
LEMMA CrashKeeps ==
  ASSUME Shape, DirectoryInv, Crash PROVE DirectoryInv'
<1>1. /\ \A d \in Calls : IF status[d] \in Running THEN status'[d] = "gone"
                                                   ELSE status'[d] = status[d]
      /\ tail' = None /\ UNCHANGED <<waits, work, disk, accepted>>
      /\ damaged' = (damaged \/ \E c \in Calls : status[c] = "writing" /\ todo[c] # {})
    BY DEF Crash, Shape, Running, Settled
<1>2. WorkType'
    BY <1>1 DEF DirectoryInv, WorkType, work
<1>3. Queue'
    BY <1>1, QueueEmpty DEF Running
<1>4. ASSUME NEW d \in Calls PROVE DirInv(d)'
  <2>1. CASE status[d] \in Running
      BY <1>1, <2>1, DirSettled DEF Settled
  <2>2. CASE status[d] \notin Running
      BY <1>1, <2>2, DirSame DEF DirectoryInv, work
  <2> QED
      BY <2>1, <2>2
<1>5. DirectoryIsLastResult'
  <2>1. CASE \E c \in Calls : status[c] = "writing" /\ todo[c] = {}
    <3>1. PICK c \in Calls : status[c] = "writing" /\ todo[c] = {}
        BY <2>1
    <3>2. accepted = intended[c] /\ Pending(c) /\ Deletes(c) = {} /\ Writes(c) = {}
        BY <3>1 DEF DirectoryInv, DirInv, Deletes, Writes
    <3>3. Tree(disk) = accepted
        BY <3>2 DEF Pending
    <3> QED
        BY <1>1, <3>3 DEF DirectoryIsLastResult
  <2>2. CASE ~\E c \in Calls : status[c] = "writing" /\ todo[c] = {}
      BY <1>1, <2>2 DEF DirectoryInv, DirectoryIsLastResult
  <2> QED
      BY <2>1, <2>2
<1> QED
    BY <1>2, <1>3, <1>4, <1>5 DEF DirectoryInv

\* Initially the directory holds the accepted tree and nobody has called.
LEMMA DirectoryInit == Init => DirectoryInv
<1> SUFFICES ASSUME Init PROVE DirectoryInv
    OBVIOUS
<1>1. WorkType
    BY DEF Init, WorkType
<1>2. Queue
  <2> DEFINE place == [d \in Calls |-> 0]
  <2>1. InOrder(place)
      BY DEF Init, InOrder, Running, Active
  <2>2. place \in [Calls -> Nat]
      OBVIOUS
  <2> QED
      BY <2>1, <2>2 DEF Queue
<1>3. \A c \in Calls : DirInv(c)
    BY DEF Init, DirInv
<1>4. DirectoryIsLastResult
    BY DEF Init, DirectoryIsLastResult
<1> QED
    BY <1>1, <1>2, <1>3, <1>4 DEF DirectoryInv

\* Every step keeps it.
LEMMA DirectoryNext == Shape /\ DirectoryInv /\ [Next]_vars => DirectoryInv'
<1> SUFFICES ASSUME Shape, DirectoryInv, [Next]_vars PROVE DirectoryInv'
    OBVIOUS
<1>1. ASSUME NEW c \in Calls, Cleanup(c) PROVE DirectoryInv'
  <2>1. /\ status[c] = "done" /\ tail = c /\ tail' = None
        /\ UNCHANGED <<status, waits, work, tree>>
      BY <1>1 DEF Cleanup
  <2>2. \A d \in Calls : status[d] \notin Running
    <3>1. PICK place \in [Calls -> Nat] : InOrder(place)
        BY DEF DirectoryInv, Queue
    <3> QED
        BY <2>1, <3>1 DEF InOrder, Running
  <2>3. Queue'
      BY <2>1, <2>2, QueueEmpty
  <2>4. \A d \in Calls : DirInv(d)'
      BY <2>1, DirSame DEF DirectoryInv, work, tree
  <2>5. WorkType' /\ DirectoryIsLastResult'
      BY <2>1, LastResultKept DEF DirectoryInv, WorkType, work, tree
  <2> QED
      BY <2>3, <2>4, <2>5 DEF DirectoryInv
<1>2. ASSUME NEW c \in Calls, NEW result,
             ToolFails(c, result) \/ ToolReads(c) \/ PathEscapes(c) \/ Written(c)
      PROVE  DirectoryInv'
  <2>1. /\ status[c] \in Active /\ status' = [status EXCEPT ![c] = "done"]
        /\ UNCHANGED <<queue, tree, work>>
        /\ status[c] = "writing" => todo[c] = {}
      BY <1>2 DEF ToolFails, ToolReads, PathEscapes, Written, Settle, HasRead, Active
  <2> QED
      BY <2>1, SettlesKeeps DEF work, DirectoryInv, WorkType
<1>3. CASE UNCHANGED vars
  <2>1. Queue'
      BY <1>3, QueueSame DEF DirectoryInv, vars
  <2>2. \A d \in Calls : DirInv(d)'
      BY <1>3, DirSame DEF DirectoryInv, vars, work, tree
  <2>3. WorkType' /\ DirectoryIsLastResult'
      BY <1>3, LastResultKept DEF DirectoryInv, WorkType, vars, work, tree, queue
  <2> QED
      BY <2>1, <2>2, <2>3 DEF DirectoryInv
<1> QED
    BY <1>1, <1>2, <1>3, InvokeKeeps, StartKeeps, ReadKeeps, ToolKeeps, ArtifactsKeep,
       CheckKeeps, WriteKeeps, FailKeeps, CrashKeeps
    DEF Next, Proceed

\* The queue and the directory: one call at a time, in order, and the changes of
\* the one that writes still lead to the tree that was accepted.
THEOREM DirectoryInvariant == Spec => []DirectoryInv
<1>1. InvokeInv => Shape
    BY DEF InvokeInv, Shape
<1> QED
    BY <1>1, DirectoryInit, DirectoryNext, InvokeInvariant, PTL DEF Spec

\* Whenever no call is writing, the directory is the tree the last mutation made
\* of what it had read, unless a write was cut short (invoke, enqueue, writeChanges).
THEOREM DirectoryIsWhole == Spec => []DirectoryIsLastResult
<1>1. DirectoryInv => DirectoryIsLastResult
    BY DEF DirectoryInv
<1> QED
    BY <1>1, DirectoryInvariant, PTL

\* A tool that has read the directory has read the accepted tree as a whole.
THEOREM WholeTreeIsRead == Spec => []ReadsWholeTree
<1>1. DirectoryInv => ReadsWholeTree
  <2> SUFFICES ASSUME DirectoryInv, NEW c \in Calls, HasRead(c), ~damaged
               PROVE  seen[c] = accepted
      BY DEF ReadsWholeTree
  <2>1. status[c] = "reading" /\ unread[c] = {}
      BY DEF HasRead
  <2>2. seen[c] = Tree(disk)
      BY <2>1 DEF DirectoryInv, DirInv
  <2>3. \A d \in Calls : status[d] # "writing"
      BY <2>1, OneActive DEF DirectoryInv, Active
  <2> QED
      BY <2>2, <2>3 DEF DirectoryInv, DirectoryIsLastResult
<1> QED
    BY <1>1, DirectoryInvariant, PTL
=============================================================================
