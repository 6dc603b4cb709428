---------------------------- MODULE MCDialogue ----------------------------
(* Small instances of Dialogue.  The rows of table buttons are the ones    *)
(* create_keyboards had as code before they moved to the table, with one   *)
(* of the developer's three dialogues, which differ in nothing but a step. *)
EXTENDS Dialogue

Keyboard == INSTANCE Keyboards WITH buttons <-
    [consumer   |-> {"req_master_key", "tekla_enter_menu"},
     contractor |-> {"my_tasks", "tekla_enter_menu"},
     staff      |-> {"set_new_msi_version", "add_new_contractor", "my_tasks",
                     "req_master_key", "tekla_enter_menu"},
     developer  |-> {"send_file", "run_command", "reboot_host"}]

OneUser    == {"contractor"}
OneReason  == {1}

(* The second member of staff, who may have blocked the bot, sends nothing *)
(* himself: the requests are broadcast to him.                             *)
BothStaff == {"staff1", "staff2"}

(* Buttons whose handler changes nothing that Dialogue keeps of a session. *)
NoEffect == {"start_solving", "more_photos", "task_done", "send_file",
             "reboot_host"}

(* The keyboards of a contractor, those he comes to from them included. *)
ContractorButtons ==
    [u \in OneUser |->
       {"new_task", "new_family", "no_more_photos", "my_tasks",
        "task_closing", "tekla_enter_menu", "tekla_general_issue",
        "tekla_back", "req_master_key"}]

(* A member of staff with everything his menu leads to, and the developer, *)
(* who has the rights of staff.  A chat they share shows both the key      *)
(* requests and the service buttons of the developer's menu.               *)
StaffAndDeveloper == {"staff1", "developer"}

SharedChat == Keyboard!kb_reject_or_approve \cup {"run_command"}

StaffButtons ==
    [u \in StaffAndDeveloper |->
       IF u = "staff1"
       THEN {"new_task", "new_family", "no_more_photos", "my_tasks",
             "task_closing", "tekla_enter_menu", "tekla_general_issue",
             "tekla_back", "req_master_key", "set_new_msi_version",
             "add_new_contractor", "approve_key_request",
             "_reject_key_request", "run_command"}
       ELSE {"approve_key_request", "_reject_key_request", "run_command"}]

(* The sets above are what the keyboards of the bot lead to. *)
ASSUME ButtonsAreTheKeyboards ==
    /\ ContractorButtons["contractor"] =
          Keyboard!InReach(Keyboard!Menu(FALSE, FALSE, TRUE)) \ NoEffect
    /\ StaffButtons["staff1"] =
          (Keyboard!InReach(Keyboard!Menu(FALSE, TRUE, FALSE))
             \cup SharedChat) \ NoEffect
    /\ StaffButtons["developer"] =
          (Keyboard!InReach(Keyboard!Menu(TRUE, TRUE, FALSE))
             \cup SharedChat) \ NoEffect
=============================================================================
