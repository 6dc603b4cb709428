------------------------------- MODULE Access -------------------------------
(***************************************************************************)
(* Steps of the chat dialogue and the role each service action needs       *)
(* (src/src/structures.h, src/src/access.h).                               *)
(*                                                                         *)
(* callback_data is a value the client sends: Telegram does not compare it *)
(* with the buttons of the message (comment at access.h:8).  The role is   *)
(* therefore a function of the action, never of the keyboard shown.        *)
(***************************************************************************)
EXTENDS Naturals

developer_send_msg_as_bot           == 201
developer_send_msg_to_gpt           == 202
developer_run_host_command          == 203
staff_set_new_msi_version           == 301
staff_add_new_contractor            == 302
task_section_step1                  == 401
task_project_step2                  == 402
task_subj_step3                     == 403
task_descr_step4                    == 404
family_unit_step1                   == 501
family_category_step2               == 502
family_descr_step3                  == 503
family_project_step4                == 504
shared_firstname_step5              == 605
shared_separate_tekla_from_bim_step6 == 606
revit_master_key_reason_step1       == 701
revit_master_key_firstname_step2    == 702
NoStep                              == 0

DeveloperSteps == {developer_send_msg_as_bot, developer_send_msg_to_gpt,
                   developer_run_host_command}
StaffSteps     == {staff_set_new_msi_version, staff_add_new_contractor}
TaskSteps      == {task_section_step1, task_project_step2, task_subj_step3,
                   task_descr_step4}
FamilySteps    == {family_unit_step1, family_category_step2,
                   family_descr_step3, family_project_step4}
SharedSteps    == {shared_firstname_step5,
                   shared_separate_tekla_from_bim_step6}
KeySteps       == {revit_master_key_reason_step1,
                   revit_master_key_firstname_step2}

(* Step 607 is not a resting step: the handler that assigns it falls       *)
(* through to create_new_issue, which clears the task before it returns.   *)
Steps == {NoStep} \cup DeveloperSteps \cup StaffSteps \cup TaskSteps
                  \cup FamilySteps \cup SharedSteps \cup KeySteps

-----------------------------------------------------------------------------
Roles == {"anyone", "staff", "developer"}

DeveloperCallbacks == {"msg_as_bot", "msg_to_gpt", "run_command",
                       "reboot_host", "send_file"}
StaffCallbacks     == {"add_new_contractor", "set_new_msi_version",
                       "approve_key_request", "_reject_key_request"}

(* Mutation: run_command forgotten in the list of developer actions. *)
RoleForCallback_NoRunCommand(data) ==
    IF data \in DeveloperCallbacks \ {"run_command"} THEN "developer"
    ELSE IF data \in StaffCallbacks THEN "staff" ELSE "anyone"

RoleForCallback(data) ==
    IF data \in DeveloperCallbacks THEN "developer"
    ELSE IF data \in StaffCallbacks THEN "staff" ELSE "anyone"

RoleForStep(stat) ==
    IF stat \in DeveloperSteps THEN "developer"
    ELSE IF stat \in StaffSteps THEN "staff" ELSE "anyone"

(* The developer also has the rights of staff. *)
IsAllowed(role, isStaff, isDeveloper) ==
    CASE role = "developer" -> isDeveloper
      [] role = "staff"     -> isStaff \/ isDeveloper
      [] OTHER              -> TRUE
=============================================================================
