-------------------------------- MODULE Walker --------------------------------
(***************************************************************************)
(* fsWalker: one goroutine that descends the tree depth first, puts the    *)
(* files that pass its filters on a bounded channel and the errors, as far *)
(* as they fit, on another, and closes both when it is done.               *)
(*                                                                         *)
(* The tree and what the name, size and ignore filters say of each path    *)
(* are constants; which paths cannot be read is open.                      *)
(***************************************************************************)
EXTENDS Naturals, SequencesExt, Lists

CONSTANTS
  Root, Dirs, Regulars,  \* the scan root, every directory, every file
  Children,      \* Children[d]: the entries of directory d, in ReadDir's order
  SkippedDirs,   \* isSkippedDir holds of the name
  AssetDirs,     \* isAssetDataDir holds of it as well: static/, public/, ...
  DataFiles,     \* isAssetDataFile: the only files wanted of an asset directory
  SkippedFiles,  \* isSkippedExt of the name, or no regular file
  Oversized,     \* larger than MaxFileSizeBytes
  Ignores,       \* Ignores[d]: the files d's own ignore files match
  Breakable,     \* the paths that may turn out not to be readable
  EntryCap,      \* 64, the capacity of the entry channel
  ErrCap         \* 16, the capacity of the error channel

ASSUME WalkerConstants ==
  /\ Root \in Dirs /\ Dirs \cap Regulars = {}
  /\ AssetDirs \subseteq SkippedDirs /\ SkippedDirs \subseteq Dirs \ {Root}
  /\ EntryCap \in Nat \ {0} /\ ErrCap \in Nat \ {0}

\* A directory tree, as ReadDir lists it (symbolic links are not followed): every
\* path but the root is in one place, and climbing ends at the root.
ASSUME TreeAssumption ==
  /\ Children \in [Dirs -> Seq(Dirs \cup Regulars)]
  /\ \A d \in Dirs : Root \notin ToSet(Children[d])
  /\ \A p \in (Dirs \cup Regulars) \ {Root} : \E d \in Dirs : p \in ToSet(Children[d])
  /\ \A c, d \in Dirs : \A i \in DOMAIN Children[c], j \in DOMAIN Children[d] :
       Children[c][i] = Children[d][j] => c = d /\ i = j
  /\ \A S \in SUBSET (Dirs \ {Root}) :
       S # {} => \E d \in Dirs \ S, c \in S : c \in ToSet(Children[d])

VARIABLES
  broken,   \* the paths that are not readable, or gone, when the walk gets there
  todo,     \* the paths still to visit, each with what its directory hands down
  entries,  \* the entry channel
  errs,     \* the error channel
  walking,  \* "yes", then "errsClosed", then "no": the deferred closes
  failed    \* the paths an error was met at (history)

walkerVars == <<broken, todo, entries, errs, walking, failed>>

\* asset: the directory is, or is below, an asset directory.
\* above: the directories whose ignore patterns are in force.
Visit(p, asset, above) == [path |-> p, asset |-> asset, above |-> above]

WalkerInit ==
  /\ broken \in SUBSET Breakable
  /\ todo = <<Visit(Root, FALSE, {})>>
  /\ entries = <<>> /\ errs = <<>>
  /\ walking = "yes"
  /\ failed = {}

Here == Head(todo)

\* Mutant of SendErr: the send waits for room.
SendErrBlocks(p) ==
  /\ Len(errs) < ErrCap
  /\ errs' = Append(errs, p)
  /\ failed' = failed \cup {p}
\* sendErr: a full channel drops the error.
SendErr(p) ==
  /\ errs' = IF Len(errs) < ErrCap THEN Append(errs, p) ELSE errs
  /\ failed' = failed \cup {p}

\* A directory to enter: not skipped by name, or an asset directory.
Enters(p) == p \in SkippedDirs => p \in AssetDirs
Entered(d) == {i \in DOMAIN Children[d] : Children[d][i] \in Dirs => Enters(Children[d][i])}

\* Mutant of Within: an asset directory's own subdirectories are ordinary.
WithinForgets(v) ==
  LET wanted == Picked(Children[v.path], Entered(v.path)) IN
    [i \in DOMAIN wanted |->
       Visit(wanted[i], wanted[i] \in AssetDirs \/ (v.asset /\ wanted[i] \in Regulars),
             v.above \cup {v.path})]
\* What walk does with the entries of directory v, in their order.
Within(v) ==
  LET wanted == Picked(Children[v.path], Entered(v.path)) IN
    [i \in DOMAIN wanted |->
       Visit(wanted[i], wanted[i] \in AssetDirs \/ v.asset, v.above \cup {v.path})]

ReadDir ==
  /\ todo # <<>> /\ Here.path \in Dirs \ broken
  /\ todo' = Within(Here) \o Tail(todo)
  /\ UNCHANGED <<broken, entries, errs, walking, failed>>

\* os.ReadDir fails: the whole subtree is left out.
ReadDirFails ==
  /\ todo # <<>> /\ Here.path \in Dirs \cap broken
  /\ SendErr(Here.path)
  /\ todo' = Tail(todo)
  /\ UNCHANGED <<broken, entries, walking>>

\* The filters that look at the name alone come before the file is looked at.
PassesByName(v) == v.path \notin SkippedFiles /\ (v.asset => v.path \in DataFiles)
Passes(v) ==
  PassesByName(v) /\ v.path \notin Oversized /\ \A d \in v.above : v.path \notin Ignores[d]

SkipFile ==
  /\ todo # <<>> /\ Here.path \in Regulars
  /\ ~Passes(Here) /\ (PassesByName(Here) => Here.path \notin broken)
  /\ todo' = Tail(todo)
  /\ UNCHANGED <<broken, entries, errs, walking, failed>>

\* de.Info or filepath.Rel fails.
FileFails ==
  /\ todo # <<>> /\ Here.path \in Regulars \cap broken /\ PassesByName(Here)
  /\ SendErr(Here.path)
  /\ todo' = Tail(todo)
  /\ UNCHANGED <<broken, entries, walking>>

\* entries <- entry: waits while the channel is full.
Emit ==
  /\ todo # <<>> /\ Here.path \in Regulars \ broken /\ Passes(Here)
  /\ Len(entries) < EntryCap
  /\ entries' = Append(entries, [path |-> Here.path, asset |-> Here.asset])
  /\ todo' = Tail(todo)
  /\ UNCHANGED <<broken, errs, walking, failed>>

\* The deferred closes run last in, first out.
CloseErrs ==
  /\ todo = <<>> /\ walking = "yes"
  /\ walking' = "errsClosed"
  /\ UNCHANGED <<broken, todo, entries, errs, failed>>

CloseEntries ==
  /\ walking = "errsClosed"
  /\ walking' = "no"
  /\ UNCHANGED <<broken, todo, entries, errs, failed>>

WalkerStep ==
  \/ ReadDir \/ ReadDirFails
  \/ SkipFile \/ FileFails \/ Emit
  \/ CloseErrs \/ CloseEntries
==============================================================================
