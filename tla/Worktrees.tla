------------------------------- MODULE Worktrees -------------------------------
(***************************************************************************)
(* Git worktrees: the lead enters, leaves and prunes them with the tools of   *)
(* src/lilbot/tools/builtin.py, which move the root of the sandbox it shares   *)
(* with its subagents, and isolated subagents get theirs below whatever the    *)
(* root is at that moment (src/lilbot/subagents/manager.py).  Branches, links  *)
(* to dependencies and the merge back are left out.                           *)
(***************************************************************************)
EXTENDS Naturals, Sequences, SequencesExt

CONSTANTS
  Name,        \* names the lead gives to worktrees
  Subagent,    \* ids of isolated subagents, which name their worktrees
  MaxEnters,   \* bound of the model: worktrees entered
  MaxStarts    \* bound of the model: restarts of the program

\* A directory is the sequence of .lilbot/worktrees/<name> steps that lead to it from the
\* main checkout.  git registers all of them with the one repository.
Main == << >>
Below(dir) == {Append(dir, n) : n \in Name \cup Subagent}
Directory == LET first == Below(Main)
             IN  {Main} \cup first \cup UNION {Below(dir) : dir \in first}

VARIABLES
  dirs,      \* worktrees on disk
  root,      \* ctx.sandbox.root of the lead
  record,    \* worktree.json in the state directory of the main checkout
  stale,     \* what worktree_prune has listed and is asking permission for
  tree,      \* for each subagent its worktree_path and whether it is still running
  nested,    \* history: a worktree was entered from within another one
  enters, starts

vars == << dirs, root, record, stale, tree, nested, enters, starts >>

Exists(dir) == dir \in dirs \cup {Main}
NoRecord == [status |-> "none", path |-> Main, previous |-> Main, created |-> FALSE]
NoTree == [path |-> Main, state |-> "none"]
Asking == stale # {}

\* git worktree remove --force takes everything below with it.
Without(gone) == {dir \in dirs : ~\E g \in gone : IsPrefix(g, dir)}

\* sandbox.resolve: the root or something below it.  git makes missing parents, so a
\* target lies directly below a directory that exists.
Targets == {dir \in Directory : /\ IsPrefix(root, dir)
                                /\ dir = root \/ Exists(Front(dir))}

\* EnterWorktree: a target that is not there is added by git, if git and the user agree;
\* the root moves, and the record is written over.
Enter(dir) ==
  /\ ~Asking
  /\ enters < MaxEnters
  /\ enters' = enters + 1
  /\ dir \in Targets
  /\ dirs' = IF Exists(dir) THEN dirs ELSE dirs \cup {dir}
  /\ record' = [status |-> "active", path |-> dir, previous |-> root, created |-> ~Exists(dir)]
  /\ root' = dir
  /\ nested' = (nested \/ root # Main)
  /\ UNCHANGED << stale, tree, starts >>

\* Mutant: whatever was entered is removed.
ExitRemovesAnything(cleanup) ==
  /\ ~Asking
  /\ record.status = "active" /\ Exists(record.previous)
  /\ root' = record.previous
  /\ dirs' \in IF cleanup THEN {dirs, Without({record.path})} ELSE {dirs}
  /\ record' = [record EXCEPT !.status = IF dirs' = dirs THEN "exited" ELSE "cleaned"]
  /\ UNCHANGED << stale, tree, nested, enters, starts >>

\* ExitWorktree: back to the recorded root; then, if it is asked for, the worktree is
\* removed, provided that the tool had created it and git and the user agree.
Exit(cleanup) ==
  /\ ~Asking
  /\ record.status = "active" /\ Exists(record.previous)
  /\ root' = record.previous
  /\ dirs' \in IF cleanup /\ record.created THEN {dirs, Without({record.path})} ELSE {dirs}
  /\ record' = [record EXCEPT !.status =
                  IF cleanup /\ record.created /\ record.path \notin dirs'
                  THEN "cleaned" ELSE "exited"]
  /\ UNCHANGED << stale, tree, nested, enters, starts >>

\* The recorded root has been removed since: an error, which ends the record.
ExitNowhere ==
  /\ ~Asking
  /\ record.status = "active" /\ ~Exists(record.previous)
  /\ record' = [record EXCEPT !.status = "error"]
  /\ UNCHANGED << dirs, root, stale, tree, nested, enters, starts >>

\* worktree_prune lists old directories below the root, ...
ListStale ==
  /\ ~Asking
  /\ stale' \in SUBSET (dirs \cap Below(root)) \ {{}}
  /\ UNCHANGED << dirs, root, record, tree, nested, enters, starts >>

\* ... asks, and removes those that git lets go, whatever has become of them meanwhile.
Prune ==
  /\ Asking
  /\ \E gone \in SUBSET stale : dirs' = Without(gone)
  /\ stale' = {}
  /\ UNCHANGED << root, record, tree, nested, enters, starts >>

(***************************************************************************)
(* Isolated subagents, on threads of their own                              *)
(***************************************************************************)

\* _prepare_worktree: below the root of the moment; git refuses a path that exists.
Prepare(s) ==
  /\ tree[s].state = "none"
  /\ Append(root, s) \in Directory \ dirs
  /\ dirs' = dirs \cup {Append(root, s)}
  /\ tree' = [tree EXCEPT ![s] = [path |-> Append(root, s), state |-> "active"]]
  /\ UNCHANGED << root, record, stale, nested, enters, starts >>

\* Mutant: the worktree is removed wherever it is.
CleanupAnywhere(s) ==
  /\ tree[s].state = "active"
  /\ tree' = [tree EXCEPT ![s].state = "cleaned"]
  /\ dirs' = Without({tree[s].path})
  /\ UNCHANGED << root, record, stale, nested, enters, starts >>

\* _cleanup_worktree at the end of the turn: refused unless the worktree is below the
\* root of the moment.
Cleanup(s) ==
  /\ tree[s].state = "active"
  /\ IF IsStrictPrefix(root, tree[s].path)
     THEN \/ /\ dirs' = Without({tree[s].path})
             /\ tree' = [tree EXCEPT ![s].state = "cleaned"]
          \/ /\ tree' = [tree EXCEPT ![s].state = "cleanup_error"]
             /\ UNCHANGED dirs
     ELSE /\ tree' = [tree EXCEPT ![s].state = "cleanup_refused"]
          /\ UNCHANGED dirs
  /\ UNCHANGED << root, record, stale, nested, enters, starts >>

\* A new process begins in the main checkout; the record and the worktrees are still
\* there, and the tasks are taken up again or not.
Restart ==
  /\ starts < MaxStarts
  /\ starts' = starts + 1
  /\ root' = Main
  /\ stale' = {}
  /\ UNCHANGED << dirs, record, tree, nested, enters >>

Init ==
  /\ dirs = {} /\ root = Main
  /\ record = NoRecord
  /\ stale = {}
  /\ tree = [s \in Subagent |-> NoTree]
  /\ nested = FALSE
  /\ enters = 0 /\ starts = 0

Next ==
  \/ \E dir \in Directory : Enter(dir)
  \/ \E cleanup \in BOOLEAN : Exit(cleanup)
  \/ ExitNowhere
  \/ ListStale \/ Prune
  \/ \E s \in Subagent : Prepare(s) \/ Cleanup(s)
  \/ Restart

Spec == Init /\ [][Next]_vars

(***************************************************************************)
(* Properties                                                              *)
(***************************************************************************)

\* The lead never works in a directory that is gone: neither leaving with cleanup, nor
\* pruning, nor a subagent that ends removes the root, through nesting, worktrees of
\* others that are entered, and restarts; and unless worktrees were nested, a lead that
\* is not in the main checkout has a record that leads back there.
WayBackIsKept ==
  /\ Exists(root)
  /\ ~nested /\ root # Main =>
       record.status = "active" /\ record.path = root /\ record.previous = Main

\* Why it holds: what is removed - the worktree the record is about, what worktree_prune
\* lists, the worktree of a subagent - is always a directory further down than the root.
Trees == [path: Seq(Name \cup Subagent),
          state: {"none", "active", "cleaned", "cleanup_error", "cleanup_refused"}]

TypeOK ==
  /\ dirs \subseteq Seq(Name \cup Subagent) /\ root \in Seq(Name \cup Subagent)
  /\ record \in [status: {"none", "active", "exited", "cleaned", "error"},
                 path: Seq(Name \cup Subagent), previous: Seq(Name \cup Subagent),
                 created: BOOLEAN]
  /\ stale \subseteq Seq(Name \cup Subagent)
  /\ tree \in [Subagent -> Trees]
  /\ nested \in BOOLEAN

IInv ==
  /\ TypeOK /\ WayBackIsKept
  /\ record.created => Len(record.previous) < Len(record.path)
  /\ \A dir \in stale : Len(root) < Len(dir)
  /\ ~nested => record.previous = Main
=============================================================================
