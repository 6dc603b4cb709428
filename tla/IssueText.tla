----------------------------- MODULE IssueText ------------------------------
(***************************************************************************)
(* What becomes of a text somebody writes into his task: how it is cut and *)
(* escaped on its way to the card in Trello, to the row of the issue, to   *)
(* the task in Jira, and back to the contractor who lists his tasks.       *)
(*                                                                         *)
(* A text is a sequence of characters; only those are told apart that some *)
(* step treats in a way of its own, "n" is the letter that means a new     *)
(* line after a backslash.  One field is followed at a time: in a body of  *)
(* JSON every field stands between quotes of its own, so a body is well    *)
(* formed if all its fields are.                                           *)
(***************************************************************************)
EXTENDS Naturals, SequencesExt

CONSTANTS
    MaxTyped,       \* bound: characters of a message
    ShortWidth,     \* 150: most fields
    LongWidth,      \* 3000: the description
    SummaryWidth,   \* 100: subject and project in the summary of Jira
    SummaryShare,   \* half of the 255 a summary may have
    CaptionWidth,   \* 1000: the list of tasks, under a photo
    CaptionLimit,   \* 1024: Telegram's limit there
    MessageLimit,   \* 4096: Telegram's limit for a message
    Labels,         \* what a listing holds besides the texts of the user
    Others,         \* bound: what the other fields of a listing may hold
    None, Broken

Chars == {"n", "space", "quote", "bslash", "enter", "brace"}

Dots == <<"dot", "dot", "dot">>

Symbols == Chars \cup {"dot"}

(* The widths are numbers, and what marks an unreadable text is no text.   *)
(* The last: a message takes what a listing holds if every text in it has  *)
(* the length it was accepted with (150 + 3003 + 4 * 153 in the code).     *)
ASSUME TextAssumption ==
    /\ {MaxTyped, ShortWidth, LongWidth, SummaryWidth, SummaryShare,
        CaptionWidth, CaptionLimit, MessageLimit, Labels} \subseteq Nat
    /\ Others \subseteq [accepted : Nat, stored : Nat]
    /\ Broken \notin Seq(Symbols)
    /\ SummaryWidth < ShortWidth
    /\ ShortWidth < LongWidth
    /\ SummaryWidth + Len(Dots) <= SummaryShare
    /\ CaptionWidth + Len(Dots) <= CaptionLimit
    /\ Labels + (LongWidth + Len(Dots)) + 4 * (ShortWidth + Len(Dots))
          <= MessageLimit

VARIABLES
    field,      \* the field of structure jira_task that is followed
    typed,      \* what the user has written into it
    stage,
    jira_task,  \* the field, as the session holds it
    prepared,   \* the field when card_description was begun
    card,       \* what the body for Trello holds of it
    row,        \* the column of table issues
    task,       \* what the body for Jira holds of it
    listed      \* the message or caption in the list of tasks, its length

vars == <<field, typed, stage, jira_task, prepared, card, row, task, listed>>

(* A message without text, a photo for instance, has the empty text. *)
Texts == UNION {[1 .. k -> Chars] : k \in 0 .. MaxTyped}

Fields  == {"section", "project", "subj", "category", "description",
            "consumer_name"}
OneLine == {"section", "project", "subj", "category"}
Summary == {"subj", "project"}

-----------------------------------------------------------------------------
(* The functions of support.cpp *)

(* truncate_msg_from_user *)
Truncated(t, width) ==
    IF Len(t) > width THEN SubSeq(t, 1, width) \o Dots ELSE t

(* escape_json_entire_text, and escape_string of Trello's client *)
EscapedChar(c) ==
    CASE c = "quote"  -> <<"bslash", "quote">>
      [] c = "bslash" -> <<"bslash", "bslash">>
      [] c = "enter"  -> <<"bslash", "n">>
      [] OTHER        -> <<c>>

Escaped(t) == FlattenSeq([k \in DOMAIN t |-> EscapedChar(t[k])])

Without(t, c) ==
    FlattenSeq([k \in DOMAIN t |-> IF t[k] = c THEN <<>> ELSE <<t[k]>>])

(* escape_all; spaces are not allowed in a label of Jira. *)
EscapedField(f, t) ==
    Escaped(IF f = "section" THEN Without(t, "space") ELSE t)

-----------------------------------------------------------------------------
(* What Trello and Jira make of a text between quotes: a lone quote ends   *)
(* it, a bare new line is not allowed, and a backslash needs a character   *)
(* that it may stand before.                                               *)
Meaning == [quote |-> "quote", bslash |-> "bslash", n |-> "enter"]

Then(c, rest) == IF rest = Broken THEN Broken ELSE <<c>> \o rest

(* A backslash and the character it stands before begin at position k. *)
EscapeAt(s, k) ==
    k < Len(s) /\ s[k] = "bslash" /\ s[k + 1] \in DOMAIN Meaning

Decoded(s) ==
    LET from[k \in 1 .. Len(s) + 1] ==
          IF k > Len(s) THEN <<>>
          ELSE IF EscapeAt(s, k) THEN Then(Meaning[s[k + 1]], from[k + 2])
          ELSE IF s[k] \notin {"quote", "enter", "bslash"}
               THEN Then(s[k], from[k + 1])
          ELSE Broken
    IN  from[1]

-----------------------------------------------------------------------------
Init ==
    /\ field \in Fields
    /\ typed \in Texts
    /\ stage = "typed"
    /\ jira_task = <<>>
    /\ prepared = <<>>
    /\ card = None
    /\ row = None
    /\ task = None
    /\ listed = None

(* The text as a step of the dialogue accepts it. *)
Accepted(f, t) ==
    Truncated(IF f \in OneLine THEN Without(t, "enter") ELSE t,
              IF f = "description" THEN LongWidth ELSE ShortWidth)

(* handle_small_talk, at the step of the field *)
SmallTalk ==
    /\ stage = "typed"
    /\ stage' = "accepted"
    /\ jira_task' = Accepted(field, typed)
    /\ UNCHANGED <<field, typed, prepared, card, row, task, listed>>

(* create_new_issue begins the description of the card and then escapes    *)
(* the fields.                                                             *)
EscapeAll ==
    /\ stage = "accepted"
    /\ stage' = "escaped"
    /\ prepared' = jira_task
    /\ jira_task' = EscapedField(field, jira_task)
    /\ UNCHANGED <<field, typed, card, row, task, listed>>

(* Mutation: a brace gets one backslash. *)
Braced_Once(t) ==
    FlattenSeq([k \in DOMAIN t |->
                  IF t[k] = "brace" THEN <<"bslash", "brace">> ELSE <<t[k]>>])

(* A brace gets a backslash, as JSON writes it. *)
Braced(t) ==
    FlattenSeq([k \in DOMAIN t |->
                  IF t[k] = "brace" THEN <<"bslash", "bslash", "brace">>
                  ELSE <<t[k]>>])

(* Name and category are in the card as they were before, the others are   *)
(* escaped a second time.                                                  *)
CardPart ==
    IF field \in {"consumer_name", "category"} THEN prepared ELSE jira_task

(* create_new_card *)
CreateNewCard ==
    /\ stage = "escaped"
    /\ stage' = "carded"
    /\ card' = Braced(Escaped(CardPart))
    /\ UNCHANGED <<field, typed, jira_task, prepared, row, task, listed>>

(* Mutation: the values are escaped for the query as well. *)
WriteIssueToDb_EscapedAgain ==
    /\ stage = "carded"
    /\ stage' = "written"
    /\ row' = Escaped(jira_task)
    /\ UNCHANGED <<field, typed, jira_task, prepared, card, task, listed>>

(* write_issue_to_db: the values are bound, not written into the query. *)
WriteIssueToDb ==
    /\ stage = "carded"
    /\ stage' = "written"
    /\ row' = jira_task
    /\ UNCHANGED <<field, typed, jira_task, prepared, card, task, listed>>

(* Mutation: the summary is cut a character too early. *)
JiraPart_TooSoon(f, t) ==
    IF f \in Summary THEN Truncated(t, SummaryWidth - 1) ELSE t

(* Mutation: subject and project go to Jira in full length. *)
JiraPart_NotCut(f, t) == t

(* Jira's summary takes subject and project, cut after the escaping. *)
JiraPart(f, t) == IF f \in Summary THEN Truncated(t, SummaryWidth) ELSE t

(* create_task, for TEKLA without card and row before; then the fields are *)
(* cleared.                                                                *)
CreateTask ==
    /\ stage \in {"escaped", "written"}
    /\ stage' = "done"
    /\ task' = IF field = "category" THEN None ELSE JiraPart(field, jira_task)
    /\ jira_task' = <<>>
    /\ UNCHANGED <<field, typed, prepared, card, row, listed>>

(* Mutation: the caption is cut as the message would be. *)
ListedLength_MessageForPhoto(n, photo) == n

(* A caption is cut, a message is not. *)
ListedLength(n, photo) ==
    IF photo /\ n > CaptionWidth THEN CaptionWidth + Len(Dots) ELSE n

(* A listing holds the description and four short fields: section, subj,   *)
(* project and consumer_name.  So many characters could be accepted for    *)
(* the four of them that are not followed.                                 *)
OtherWidth ==
    IF field = "description" THEN 4 * (ShortWidth + Len(Dots))
    ELSE 3 * (ShortWidth + Len(Dots)) + LongWidth + Len(Dots)

(* get_my_issues: accepted and stored count the characters of all fields   *)
(* listed, as the dialogue accepted them and as the row holds them.  The   *)
(* category is in the form for families only, and no family gets the       *)
(* subject which chooses that form.                                        *)
GetMyIssues ==
    /\ row # None
    /\ field # "category"
    /\ \E photo \in BOOLEAN, o \in Others :
          /\ o.accepted <= OtherWidth
          /\ listed' = [photo    |-> photo,
                        length   |-> ListedLength(Labels + Len(row) + o.stored,
                                                  photo),
                        accepted |-> Len(Accepted(field, typed)) + o.accepted,
                        stored   |-> Len(row) + o.stored]
    /\ UNCHANGED <<field, typed, stage, jira_task, prepared, card, row, task>>

Next == SmallTalk \/ EscapeAll \/ CreateNewCard \/ WriteIssueToDb
            \/ CreateTask \/ GetMyIssues

Spec == Init /\ [][Next]_vars

-----------------------------------------------------------------------------
(* Properties *)

(* What the user meant: the accepted text, without the spaces of a label. *)
Meant ==
    LET t == Accepted(field, typed)
    IN  IF field = "section" THEN Without(t, "space") ELSE t

(* Whatever is written, Trello can read the body of the card, although     *)
(* some fields come to create_new_card raw and some escaped, and braces    *)
(* are replaced after the escaping ("иначе будет error parsing body",      *)
(* trelloapi.cpp:350).                                                     *)
CardParses == card # None => Decoded(card) # Broken

(* The row holds the whole accepted text, escaped once: nothing that was   *)
(* accepted is lost or doubled between the dialogue and the table.         *)
RowKeepsTheText == row # None => Decoded(row) = Meant

(* A field that create_task does not cut reaches Jira as it was meant: the *)
(* escaping of chanserv.cpp:231 is enough for it.                          *)
UncutFieldReachesJira ==
    task # None /\ ~(field \in Summary /\ Len(Escaped(Meant)) > SummaryWidth)
        => Decoded(task) = Meant

(* However much the escaping adds, a summary has no more than the 255      *)
(* characters Jira takes (comment at jiraapi.cpp:55).                      *)
SummaryFits == task # None /\ field \in Summary => Len(task) <= SummaryShare

(* Telegram takes every caption, and every message of the list, unless the *)
(* row holds more characters than were accepted for all its fields: the    *)
(* escaping is not in the sum of the widths (chanserv.cpp:669 cuts         *)
(* captions only), and the fields are cut before it.                       *)
ListingFits ==
    listed # None =>
        IF listed.photo THEN listed.length <= CaptionLimit
        ELSE listed.length > MessageLimit => listed.stored > listed.accepted

(* "Экранируем всё, что попадёт в query" (chanserv.cpp:230): Jira can read *)
(* the summary.                                                            *)
SummaryParses == task # None /\ field \in Summary => Decoded(task) # Broken
=============================================================================
