----------------------------- MODULE Checkpoint -----------------------------
(***************************************************************************)
(* Checkpoints of the user's work (agent/checkpoint.rs, the call at the     *)
(* start of a task in agent_loop/core.rs, and `--rollback` in               *)
(* cli_admin.rs, a process of its own).  What is saved is a commit that git *)
(* makes of the working tree; it is restored by emptying the working tree   *)
(* into the index and merging the saved state into it.  The tracked files   *)
(* are one content.  What git does is modelled from how it is called.       *)
(***************************************************************************)
EXTENDS Integers, Sequences

CONSTANTS
    Contents,       \* what the tracked files may hold
    clash,          \* what a merge leaves that has conflicts
    MaxCheckpoints  \* bound: checkpoints made

ASSUME CheckpointAssumption == clash \notin Contents /\ MaxCheckpoints \in Nat

VARIABLES
    head,           \* the commit the user is on
    index,          \* the index
    unmerged,       \* the index has conflicts
    tree,           \* the working tree
    checkpoints,    \* the checkpoints table; `kept` is whether git still has the commit
    rollback,       \* the rollback process: "idle", "discard", "apply" or "mark"
    target,         \* its checkpoint
    restored        \* `success` of handle_rollback_mode

gitVars == <<head, index, unmerged, tree>>
rollbackVars == <<rollback, target, restored>>
checkpointVars == <<gitVars, checkpoints, rollbackVars>>

Ids == 1..Len(checkpoints)

CheckpointInit ==
    /\ head \in Contents
    /\ index = head
    /\ unmerged = FALSE
    /\ tree = head
    /\ checkpoints = <<>>
    /\ rollback = "idle"
    /\ target = 0
    /\ restored = FALSE

-----------------------------------------------------------------------------
\* snapshot_tracked_changes: `git stash create`, which has nothing to say without a change and
\* fails on conflicts.
Changed == tree # head \/ index # head

Row(ref) == [ref |-> ref, base |-> head, saved |-> tree, kept |-> ref, marked |-> FALSE]

\* CheckpointManager::create; git may fail, and a database that fails is ignored by its caller.
Create ==
    \/ /\ Len(checkpoints) < MaxCheckpoints
       /\ \E ref \in {FALSE, Changed /\ ~unmerged} : checkpoints' = Append(checkpoints, Row(ref))
    \/ UNCHANGED checkpoints

\* handle_rollback_mode, up to its first git; a checkpoint without a commit is left at that.
StartRollback ==
    /\ rollback = "idle"
    /\ \E id \in Ids :
        /\ checkpoints[id].ref
        /\ target' = id
    /\ rollback' = "discard"
    /\ restored' = FALSE
    /\ UNCHANGED <<gitVars, checkpoints>>

\* `git checkout .`, whose failure on conflicts goes unnoticed.
Discard ==
    /\ rollback = "discard"
    /\ tree' = IF unmerged THEN tree ELSE index
    /\ rollback' = "apply"
    /\ UNCHANGED <<head, index, unmerged, checkpoints, target, restored>>

(***************************************************************************)
(* `git stash apply`: a merge of what changed between the checkpoint's      *)
(* commit and its parent into the index, which must not have conflicts; a   *)
(* working tree that differs from the index may not be written over.  Two   *)
(* changes of the same lines conflict, two of different lines make a third  *)
(* content.                                                                 *)
(***************************************************************************)
Merges(base, ours, theirs) ==
    CASE ours = base   -> {theirs}
      [] theirs = base -> {ours}
      [] ours = theirs -> {ours}
      [] OTHER         -> Contents \union {clash}

Apply ==
    /\ rollback = "apply"
    /\ LET cp == checkpoints[target]
       IN  \E merged \in Merges(cp.base, index, cp.saved) :
            LET refused == ~cp.kept \/ unmerged \/ (tree # index /\ merged # index)
            IN  /\ tree' = IF refused \/ merged = index THEN tree ELSE merged
                /\ unmerged' = (unmerged \/ (~refused /\ merged = clash))
                /\ restored' = (~refused /\ merged # clash)
    /\ rollback' = "mark"
    /\ UNCHANGED <<head, index, checkpoints, target>>

\* rolled_back_at, whatever the outcome; a database that fails ends the process before it says so.
Mark ==
    /\ rollback = "mark"
    /\ checkpoints' = [checkpoints EXCEPT ![target].marked = TRUE]
    /\ rollback' = "idle"
    /\ UNCHANGED <<gitVars, target, restored>>

RollbackDies ==
    /\ rollback # "idle"
    /\ rollback' = "idle"
    /\ UNCHANGED <<gitVars, checkpoints, target, restored>>

RollbackStep == StartRollback \/ Discard \/ Apply \/ Mark \/ RollbackDies

-----------------------------------------------------------------------------
(***************************************************************************)
(* The user, and git itself.                                                *)
(***************************************************************************)

\* A tool or the user writes a file.
Write ==
    /\ tree' \in Contents \ {tree}
    /\ UNCHANGED <<head, index, unmerged, checkpoints, rollbackVars>>

\* `git add`, which settles conflicts too, and `git commit`.
Stage ==
    /\ tree # clash
    /\ index' = tree
    /\ unmerged' = FALSE
    /\ <<index, unmerged>>' # <<index, unmerged>>
    /\ UNCHANGED <<head, tree, checkpoints, rollbackVars>>

Commit ==
    /\ ~unmerged
    /\ head # index
    /\ head' = index
    /\ UNCHANGED <<index, unmerged, tree, checkpoints, rollbackVars>>

\* `git gc` removes commits that no reference leads to, as those of `git stash create`.
CollectGarbage ==
    /\ \E id \in Ids :
        /\ checkpoints[id].kept
        /\ checkpoints' = [checkpoints EXCEPT ![id].kept = FALSE]
    /\ UNCHANGED <<gitVars, rollbackVars>>

-----------------------------------------------------------------------------
CheckpointTypeOK ==
    /\ head \in Contents /\ index \in Contents
    /\ tree \in Contents \union {clash}
    /\ unmerged \in BOOLEAN /\ restored \in BOOLEAN
    /\ checkpoints \in Seq([ref : BOOLEAN, base : Contents, saved : Contents \union {clash},
                            kept : BOOLEAN, marked : BOOLEAN])
    /\ rollback \in {"idle", "discard", "apply", "mark"}
    /\ target \in 0..MaxCheckpoints
==============================================================================
