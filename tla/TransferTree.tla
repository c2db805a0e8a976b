---------------------------- MODULE TransferTree ----------------------------
(***************************************************************************)
(* Copies and moves of a directory tree (internal/files/transfer.go): the  *)
(* staged copy, the backup protocol that replaces a destination, and the   *)
(* two rollbacks.  One transfer runs while other requests fill a free      *)
(* destination, start an upload in it, or add to the source.  Every rename *)
(* is the no-replace rename of vfs.Root and is atomic; every step may fail *)
(* and the process may end between any two.  A tree is its visible files   *)
(* and whether it holds reserved control data; permissions are one refusal *)
(* before anything is written.                                             *)
(***************************************************************************)
EXTENDS Naturals, FiniteSets

CONSTANTS Files      \* names of files in a tree

VARIABLES
    tree,            \* what each name holds: a tree or Nothing
    tt,              \* the transfer: its options, step and files still to copy
    ttAnswer         \* what the caller was told

ttVars == <<tree, tt, ttAnswer>>

(* The two ends, a free sibling for ConflictRename, and the three control  *)
(* siblings of newControlSibling.                                          *)
Names == {"src", "dst", "sibling", "stage", "backup", "failed"}
Nothing == [of |-> "none", files |-> {}, control |-> FALSE]
(* A tree is told by whose it is: the source's, the old destination's, or *)
(* one another request made.                                               *)
Tree(who, fs) == [of |-> who, files |-> fs, control |-> FALSE]
Policies == {"fail", "skip", "rename", "overwrite"}

TtInit ==
    /\ \E old \in {Nothing, Tree("old", Files)}, fs \in (SUBSET Files) \ {{}} :
         /\ tree = [n \in Names |-> CASE n = "src" -> Tree("new", fs)
                                      [] n = "dst" -> old
                                      [] OTHER -> Nothing]
         /\ tt = [at |-> "idle", move |-> FALSE, over |-> FALSE, to |-> "dst",
                  from |-> "stage", todo |-> {}, had |-> fs, say |-> "error"]
    /\ ttAnswer = "none"

Step(s) == tt' = [tt EXCEPT !.at = s]
Answer(a) == ttAnswer' = a /\ Step("ended")
Exists(n) == tree[n] # Nothing

Rename(a, b) == tree' = [tree EXCEPT ![a] = Nothing, ![b] = tree[a]]
MayRename(a, b) == Exists(a) /\ ~Exists(b)

(* A rename that works, or one that fails and leaves both names alone.     *)
TryRename(a, b, done, failed) ==
    \/ MayRename(a, b) /\ Rename(a, b) /\ done
    \/ failed /\ UNCHANGED tree

------------------------------------------------------------------------------
(* The decision.  It reads only: a destination found free is never         *)
(* replaced later, whatever the policy was.                                *)

applyConflict(policy) ==
    IF ~Exists("dst") THEN [to |-> "dst", over |-> FALSE, at |-> "go"]
    ELSE CASE policy = "skip"      -> [to |-> "dst", over |-> FALSE, at |-> "done"]
           [] policy = "rename"    -> [to |-> "sibling", over |-> FALSE, at |-> "go"]
           [] policy = "overwrite" -> [to |-> "dst", over |-> TRUE, at |-> "go"]
           [] OTHER                -> [to |-> "dst", over |-> FALSE, at |-> "refused"]

(* A move within a device renames the source itself; a move across devices *)
(* and every copy go through a stage.                                      *)
Move(policy, move, crossesDevice) ==
    /\ tt.at = "idle"
    /\ LET c == applyConflict(policy)
           staged == ~move \/ crossesDevice
       IN  tt' = [tt EXCEPT !.move = move, !.over = c.over, !.to = c.to,
                            !.from = IF staged THEN "stage" ELSE "src",
                            !.at = IF c.at # "go" THEN "ended"
                                   ELSE IF staged THEN "stage" ELSE "replace"]
           /\ ttAnswer' = IF c.at = "go" THEN "none" ELSE c.at
    /\ UNCHANGED tree

------------------------------------------------------------------------------
(* copyTreeStaged                                                          *)

(* Validation or the reservation refuses before the stage exists.          *)
Refuse ==
    /\ tt.at = "stage"
    /\ Answer("error")
    /\ UNCHANGED tree

copyTreeStaged ==
    /\ tt.at = "stage"
    /\ ~Exists(tt.to) \/ tt.over
    /\ tree' = [tree EXCEPT !["stage"] = Tree("new", {})]
    /\ tt' = [tt EXCEPT !.at = "copy", !.todo = tree["src"].files]
    /\ UNCHANGED ttAnswer

copyIntoStage(f) ==
    /\ tt.at = "copy" /\ f \in tt.todo
    /\ tree' = [tree EXCEPT !["stage"].files = @ \cup {f}]
    /\ tt' = [tt EXCEPT !.todo = @ \ {f}]
    /\ UNCHANGED ttAnswer

(* Every file is in the stage, and the second authority walk agreed.       *)
Staged ==
    /\ tt.at = "copy" /\ tt.todo = {}
    /\ Step("replace")
    /\ UNCHANGED <<tree, ttAnswer>>

(* A file that cannot be copied, a cancellation, a changed permission.     *)
CopyFails ==
    /\ tt.at = "copy"
    /\ Step("cleanup")
    /\ UNCHANGED <<tree, ttAnswer>>

(* cleanupStage is best effort: a stage that cannot be removed is logged.  *)
Cleanup ==
    /\ tt.at = "cleanup"
    /\ \/ tree' = [tree EXCEPT !["stage"] = Nothing]
       \/ UNCHANGED tree
    /\ Answer(tt.say)

------------------------------------------------------------------------------
(* publishStage and replaceRename: the same protocol, from the stage or    *)
(* from the source itself.                                                 *)

(* A staged transfer removes its stage before any error reaches the        *)
(* caller.                                                                 *)
GiveUp(answer) ==
    IF tt.from = "stage"
    THEN tt' = [tt EXCEPT !.at = "cleanup", !.say = answer] /\ UNCHANGED ttAnswer
    ELSE Answer(answer)

(* The old destination goes under the backup name; a destination that was  *)
(* free when the policy was applied and is taken now refuses.              *)
IsolateOld ==
    IF ~Exists(tt.to) THEN Step("publish") /\ UNCHANGED <<tree, ttAnswer>>
    ELSE IF tt.over
         THEN TryRename("dst", "backup", Step("inspect") /\ UNCHANGED ttAnswer,
                        GiveUp("error"))
         ELSE GiveUp("error") /\ UNCHANGED tree

publishStage == tt.at = "replace" /\ tt.from = "stage" /\ IsolateOld
replaceRename == tt.at = "replace" /\ tt.from = "src" /\ IsolateOld

(* Control data makes the replacement a conflict; the walk, the size or    *)
(* the reservation may fail as well.                                       *)
treeContainsReserved ==
    /\ tt.at = "inspect"
    /\ \/ ~tree["backup"].control /\ Step("publish")
       \/ Step("restore")
    /\ UNCHANGED <<tree, ttAnswer>>

restoreTransferBackup ==
    /\ tt.at = "restore"
    /\ TryRename("backup", "dst", GiveUp("error"), GiveUp("partial"))

MutForgetsBackup ==
    /\ tt.at = "publish"
    /\ TryRename(tt.from, tt.to,
                 Step(IF Exists("backup") THEN "discard" ELSE "source") /\ UNCHANGED ttAnswer,
                 GiveUp("error"))

PublishRename ==
    /\ tt.at = "publish"
    /\ TryRename(tt.from, tt.to,
                 Step(IF Exists("backup") THEN "discard" ELSE "source") /\ UNCHANGED ttAnswer,
                 IF Exists("backup") THEN Step("restore") /\ UNCHANGED ttAnswer
                 ELSE GiveUp("error"))

(* removeTree: children one by one, then the directory.                    *)
removeTree(f) ==
    /\ tt.at = "discard" /\ f \in tree["backup"].files
    /\ tree' = [tree EXCEPT !["backup"].files = @ \ {f}]
    /\ UNCHANGED <<tt, ttAnswer>>

Discarded ==
    /\ tt.at = "discard" /\ tree["backup"].files = {}
    /\ tree' = [tree EXCEPT !["backup"] = Nothing]
    /\ Step("source")
    /\ UNCHANGED ttAnswer

DiscardFails ==
    /\ tt.at = "discard"
    /\ Step("quarantine")
    /\ UNCHANGED <<tree, ttAnswer>>

(* rollbackPublished and rollbackMoved differ in what becomes of the       *)
(* quarantined tree.                                                       *)
Quarantine ==
    /\ tt.at = "quarantine"
    /\ TryRename("dst", "failed", Step("return") /\ UNCHANGED ttAnswer, GiveUp("partial"))

rollbackReturn ==
    /\ tt.at = "return"
    /\ TryRename("backup", "dst", Step("unwind") /\ UNCHANGED ttAnswer,
                 Step("reinstate") /\ UNCHANGED ttAnswer)

rollbackReinstate ==
    /\ tt.at = "reinstate"
    /\ TryRename("failed", "dst", GiveUp("partial"), GiveUp("partial"))

rollbackPublished ==
    /\ tt.at = "unwind" /\ tt.from = "stage"
    /\ \/ tree' = [tree EXCEPT !["failed"] = Nothing] /\ GiveUp("error")
       \/ tree' = tree /\ GiveUp("partial")

MutDropsMoved ==
    /\ tt.at = "unwind" /\ tt.from = "src"
    /\ tree' = [tree EXCEPT !["failed"] = Nothing]
    /\ Answer("error")

rollbackMoved ==
    /\ tt.at = "unwind" /\ tt.from = "src"
    /\ TryRename("failed", "src", Answer("error"), Answer("partial"))

(* After a staged move the source is deleted, with whatever it holds by    *)
(* now; a deletion that fails is reported as a duplicate.                  *)
deleteResolved ==
    /\ tt.at = "source"
    /\ IF tt.move /\ tt.from = "stage"
       THEN \/ tree' = [tree EXCEPT !["src"] = Nothing] /\ Answer("done")
            \/ \E left \in SUBSET tree["src"].files :
                 tree' = [tree EXCEPT !["src"].files = left] /\ Answer("duplicate")
       ELSE tree' = tree /\ Answer("done")

------------------------------------------------------------------------------
(* Other requests and the end of the process                               *)

OtherCreates ==
    /\ ~Exists("dst") /\ tt.at # "ended"
    /\ tree' = [tree EXCEPT !["dst"] = Tree("other", Files)]
    /\ UNCHANGED <<tt, ttAnswer>>

OtherUploads ==
    /\ Exists("dst") /\ ~tree["dst"].control
    /\ tree' = [tree EXCEPT !["dst"].control = TRUE]
    /\ UNCHANGED <<tt, ttAnswer>>

OtherAdds(f) ==
    /\ Exists("src") /\ f \notin tree["src"].files
    /\ tt.at \notin {"idle", "stage", "ended"}
    /\ tree' = [tree EXCEPT !["src"].files = @ \cup {f}]
    /\ UNCHANGED <<tt, ttAnswer>>

Crash ==
    /\ tt.at \notin {"idle", "ended"}
    /\ Step("ended") /\ ttAnswer' = "lost"
    /\ UNCHANGED tree

TtNext ==
    \/ \E p \in Policies, move, across \in BOOLEAN : Move(p, move, across)
    \/ Refuse \/ copyTreeStaged \/ Staged \/ CopyFails \/ Cleanup
    \/ \E f \in Files : copyIntoStage(f) \/ removeTree(f) \/ OtherAdds(f)
    \/ publishStage \/ replaceRename \/ treeContainsReserved \/ restoreTransferBackup
    \/ PublishRename \/ Discarded \/ DiscardFails
    \/ Quarantine \/ rollbackReturn \/ rollbackReinstate \/ rollbackPublished \/ rollbackMoved
    \/ deleteResolved
    \/ OtherCreates \/ OtherUploads \/ Crash

TtSpec == TtInit /\ [][TtNext]_ttVars

------------------------------------------------------------------------------
TtTypeOK ==
    /\ \A n \in Names : tree[n].of \in {"none", "new", "old", "other"}
                        /\ tree[n].files \subseteq Files
    /\ tt.to \in {"dst", "sibling"} /\ tt.from \in {"stage", "src"}
    /\ ttAnswer \in {"none", "done", "refused", "error", "partial", "duplicate", "lost"}

(* The files the source had when the transfer began are together under one *)
(* name, the source, the destination or the quarantine, at every moment:   *)
(* no failed rename, rollback, racing creation or crash loses any of them. *)
SourceKept ==
    \E n \in Names \ {"stage"} : tree[n].of = "new" /\ tt.had \subseteq tree[n].files

(* An error that is not a PartialTransferError leaves nothing hidden: the  *)
(* old destination is not stranded under its backup name, a moved source   *)
(* is back where it was, and a finished transfer left no backup behind.    *)
PlainErrorRestores ==
    ttAnswer \in {"error", "done"} =>
        /\ ~Exists("backup") /\ ~Exists("failed")
        /\ ttAnswer = "error" => tree["src"].of = "new"
=============================================================================
