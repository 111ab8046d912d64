------------------------------ MODULE MCReplay ------------------------------
(***************************************************************************)
(* Small capability graphs for model checking Replay.  Node ids are        *)
(* strings, so a function on nodes is written as a record.                 *)
(***************************************************************************)
EXTENDS Replay

(***************************************************************************)
(* The commit graph: open the form (safe), fill a field (verify_before_    *)
(* retry, checkpointed), decide, commit (irreversible, no proof of its     *)
(* own), and a terminal of each kind.                                      *)
(***************************************************************************)
CommitNodes == {"open", "fill", "route", "commit", "ok", "refused", "broken"}
CommitKind == [open |-> "action", fill |-> "action", route |-> "decision",
               commit |-> "action", ok |-> "terminal", refused |-> "terminal",
               broken |-> "terminal"]
CommitAction == [open |-> "navigate", fill |-> "select", route |-> NoAction,
                 commit |-> "click", ok |-> NoAction, refused |-> NoAction,
                 broken |-> NoAction]
CommitEffect == [open |-> "none", fill |-> "reversible", route |-> "none",
                 commit |-> "irreversible", ok |-> "none", refused |-> "none",
                 broken |-> "none"]
CommitSafety == [open |-> "safe", fill |-> "verify_before_retry", route |-> "safe",
                 commit |-> "never_retry", ok |-> "safe", refused |-> "safe",
                 broken |-> "safe"]
CommitStatus == [n \in CommitNodes |->
                   CASE n = "refused" -> "business_outcome"
                     [] n = "broken"  -> "failure"
                     [] OTHER         -> "success"]
CommitGuarded == [open |-> {}, fill |-> {}, route |-> {"commit", "refused"},
                  commit |-> {"ok"}, ok |-> {}, refused |-> {}, broken |-> {}]
CommitFallback == [open |-> {"fill"}, fill |-> {"route"}, route |-> {"broken"},
                   commit |-> {}, ok |-> {}, refused |-> {}, broken |-> {}]
CommitRank == [open |-> 1, fill |-> 2, route |-> 3, commit |-> 4, ok |-> 5,
               refused |-> 5, broken |-> 5]

(***************************************************************************)
(* The collection graph: two appends to one required list with a page      *)
(* turn (back, no proof) between them, a required scalar, an optional      *)
(* scalar and an optional list, and a commit with a proof of its own.      *)
(***************************************************************************)
CollectNodes == {"first", "turn", "second", "total", "alias", "notes", "pay", "ok"}
CollectKind == [n \in CollectNodes |-> IF n = "ok" THEN "terminal" ELSE "action"]
CollectAction == [first |-> "extract_many", turn |-> "back", second |-> "extract",
                  total |-> "extract", alias |-> "extract", notes |-> "extract_many",
                  pay |-> "click", ok |-> NoAction]
CollectEffect == [n \in CollectNodes |-> CASE n = "turn" -> "reversible"
                                           [] n = "pay"  -> "irreversible"
                                           [] OTHER      -> "none"]
CollectSafety == [n \in CollectNodes |-> IF n \in {"turn", "pay"} THEN "never_retry" ELSE "safe"]
CollectStatus == [n \in CollectNodes |-> "success"]
CollectGuarded == [n \in CollectNodes |-> IF n = "turn" THEN {"second"} ELSE {}]
CollectFallback == [first |-> {"turn"}, turn |-> {}, second |-> {"total"}, total |-> {"alias"},
                    alias |-> {"notes"}, notes |-> {"pay"}, pay |-> {"ok"}, ok |-> {}]
CollectRank == [first |-> 1, turn |-> 2, second |-> 3, total |-> 4, alias |-> 5, notes |-> 6,
                pay |-> 7, ok |-> 8]
CollectOutputs == {"scores", "sum", "nickname", "remarks"}
CollectOutputOf == [first |-> "scores", second |-> "scores", total |-> "sum",
                    alias |-> "nickname", notes |-> "remarks"]

NoOutputOf == [n \in {} |-> "none"]
=============================================================================
