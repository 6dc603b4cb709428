----------------------------- MODULE Keyboards -----------------------------
(***************************************************************************)
(* The inline keyboards of chanserv (create_keyboards), each as the set of *)
(* the callback data of its buttons, and the keyboards a user can get at   *)
(* from the menu /start sends him.                                         *)
(***************************************************************************)
CONSTANT buttons   \* table buttons: the callback data of the rows of a role

MenuRows == {"new_task", "new_family"}

kb_consumer   == buttons["consumer"] \cup MenuRows
kb_contractor == buttons["contractor"] \cup MenuRows
kb_staff      == buttons["staff"] \cup MenuRows
kb_developer  == buttons["developer"]

kb_tekla                 == {"tekla_general_issue", "tekla_back"}
kb_start_solving         == {"start_solving"}
kb_start_solving_w_photo == kb_start_solving \cup {"more_photos"}
kb_task_closing          == {"task_closing"}
kb_task_done             == {"task_done"}
kb_manage_photos         == {"no_more_photos"}
kb_reject_or_approve     == {"approve_key_request", "_reject_key_request"}

(* on_start_command *)
Menu(isDeveloper, isStaff, isContractor) ==
    CASE isDeveloper  -> kb_developer
      [] ~isDeveloper /\ isStaff -> kb_staff
      [] ~isDeveloper /\ ~isStaff /\ isContractor -> kb_contractor
      [] OTHER -> kb_consumer

(* The keyboards the handler of a button sends, or puts in the place of    *)
(* the pressed one.  The wizard of a new task, a family or a Tekla issue   *)
(* comes to the photo step; "back" shows the menu of a consumer to anyone. *)
Brings(data) ==
    CASE data \in MenuRows \cup {"tekla_general_issue"} -> kb_manage_photos
      [] data = "tekla_enter_menu" -> kb_tekla
      [] data = "tekla_back"       -> kb_consumer
      [] data = "my_tasks"         -> kb_start_solving_w_photo
      [] data = "start_solving"    -> kb_task_closing
      [] data = "task_closing"     -> kb_task_done
      [] OTHER                     -> {}

WithBrought(kb) == kb \cup UNION {Brings(data) : data \in kb}

(* Every button that can be pressed sooner or later: the longest way is    *)
(* menu, list of tasks, started task, finished task.                       *)
InReach(menu) == WithBrought(WithBrought(WithBrought(menu)))
=============================================================================
