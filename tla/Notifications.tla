---------------------------- MODULE Notifications ----------------------------
(***************************************************************************)
(* The notifications of one user and the page that lists them.  A trigger  *)
(* gives one row to every active user of the roles it is for; from then on *)
(* only its owner's requests change the row, so that one user and the      *)
(* user's one open page are all there is to model.                         *)
(*                                                                         *)
(* The page keeps a list of its own: it fetches it when a tab is chosen    *)
(* and corrects it when a call that marks something is answered.  Its      *)
(* calls overlap where the page lets them, and any call or its answer may  *)
(* be lost.  A list fits on one page.                                      *)
(***************************************************************************)
EXTENDS Naturals

CONSTANTS
    Event,     \* what users are notified of
    NoRow,     \* what the table holds of an event the user was not told of
    Role       \* the user's role

VARIABLES
    rows,      \* the user's notification of each event
    tab,       \* the tab that is chosen
    shown,     \* what the page shows of each notification
    fetch,     \* the call that fetches the list
    mark,      \* the call that marks one notification
    markAll,   \* the call that marks all of them
    overlapped,\* history: two calls were on their way at once
    lost       \* history: the answer of a call that had marked something was lost

page == <<tab, shown, fetch, mark, markAll>>
vars == <<rows, page, overlapped, lost>>

Tabs   == {"unread", "all", "read"}
Unread == [read |-> FALSE, dated |-> FALSE]
Read   == [read |-> TRUE, dated |-> TRUE]
Hidden == [e \in Event |-> "hidden"]
Looks  == [Event -> {"hidden", "unread", "read"}]
NoCall == [at |-> "none"]
Calls  == [at : {"sent", "read", "answered"}, of : Event, as : BOOLEAN,
           view : [read : BOOLEAN, dated : BOOLEAN]]

\* The page opens on the unread notifications and fetches them.
Init ==
    /\ rows = [e \in Event |-> NoRow]
    /\ tab = "unread"
    /\ shown = Hidden
    /\ fetch = [at |-> "sent", got |-> Hidden]
    /\ mark = NoCall
    /\ markAll = "none"
    /\ overlapped = FALSE
    /\ lost = FALSE

TypeOK ==
    /\ rows \in [Event -> {NoRow} \cup [read : BOOLEAN, dated : BOOLEAN]]
    /\ tab \in Tabs
    /\ shown \in Looks
    /\ fetch \in {NoCall} \cup [at : {"sent", "answered"}, got : Looks]
    /\ mark \in {NoCall} \cup Calls
    /\ markAll \in {"none", "sent", "answered"}
    /\ overlapped \in BOOLEAN /\ lost \in BOOLEAN

-----------------------------------------------------------------------------
(* The triggers: each runs within a transaction of its own or of the       *)
(* request that causes it, and inserts a row for every active user of the  *)
(* roles it is for.                                                        *)

Insert(e) ==
    /\ rows[e] = NoRow
    /\ rows' = [rows EXCEPT ![e] = Unread]
    /\ UNCHANGED <<page, overlapped, lost>>

\* A transfer or an order waits for approval.
TriggerPendingApproval(e) == Role \in {"MANAGER", "ADMIN"} /\ Insert(e)

\* A sale left less than the minimum of a part.
TriggerLowStock(e) == Role \in {"STOREKEEPER", "MANAGER", "ADMIN"} /\ Insert(e)

-----------------------------------------------------------------------------
(* The list.                                                               *)

\* While a list is fetched the page shows nothing to click on.
Loading == fetch # NoCall

ChooseTab(t) ==
    /\ ~Loading
    /\ t # tab
    /\ tab' = t
    /\ fetch' = [at |-> "sent", got |-> Hidden]
    /\ overlapped' = (overlapped \/ mark # NoCall \/ markAll # "none")
    /\ UNCHANGED <<rows, shown, mark, markAll, lost>>

\* The user comes back to the page, once its calls have ended.
OpenPage ==
    /\ ~Loading /\ mark = NoCall /\ markAll = "none"
    /\ tab' = "unread"
    /\ shown' = Hidden
    /\ fetch' = [at |-> "sent", got |-> Hidden]
    /\ UNCHANGED <<rows, mark, markAll, overlapped, lost>>

Look(row) == IF row.read THEN "read" ELSE "unread"

\* get_user_notifications.  The service leaves out the read ones, the page
\* the unread ones.
ListNotifications ==
    /\ Loading /\ fetch.at = "sent"
    /\ fetch' = [at |-> "answered",
                 got |-> [e \in Event |->
                            IF rows[e] = NoRow \/ tab \notin {"all", Look(rows[e])}
                            THEN "hidden" ELSE Look(rows[e])]]
    /\ UNCHANGED <<rows, tab, shown, mark, markAll, overlapped, lost>>

ShowList ==
    /\ Loading /\ fetch.at = "answered"
    /\ shown' = fetch.got
    /\ fetch' = NoCall
    /\ UNCHANGED <<rows, tab, mark, markAll, overlapped, lost>>

\* The old list stays, under the new tab.
FetchFails ==
    /\ Loading
    /\ fetch' = NoCall
    /\ UNCHANGED <<rows, tab, shown, mark, markAll, overlapped, lost>>

-----------------------------------------------------------------------------
(* Marking one.                                                            *)

\* Mutant: a notification can be clicked on while the list is fetched.
AlwaysClickable == mark = NoCall

\* One notification is marked at a time, and none while the list is fetched.
Clickable == mark = NoCall /\ ~Loading

\* A click on an unread one marks it; "Mark Unread" is there on a read one.
Click(e, as) ==
    /\ Clickable
    /\ shown[e] = IF as THEN "unread" ELSE "read"
    /\ mark' = [at |-> "sent", of |-> e, as |-> as, view |-> Unread]
    /\ overlapped' = (overlapped \/ markAll # "none")
    /\ UNCHANGED <<rows, tab, shown, fetch, markAll, lost>>

\* get_notification, and its owner is the user.
GetNotification ==
    /\ mark.at = "sent"
    /\ mark' = [mark EXCEPT !.at = "read", !.view = rows[mark.of]]
    /\ UNCHANGED <<rows, tab, shown, fetch, markAll, overlapped, lost>>

\* The UPDATE has the columns that changed: the time of reading always, when
\* the notification is marked as read.
MarkNotification ==
    /\ mark.at = "read"
    /\ rows' = [rows EXCEPT ![mark.of] =
                   [read  |-> IF mark.view.read # mark.as THEN mark.as ELSE @.read,
                    dated |-> IF mark.as \/ mark.view.dated THEN mark.as ELSE @.dated]]
    /\ mark' = [mark EXCEPT !.at = "answered"]
    /\ UNCHANGED <<tab, shown, fetch, markAll, overlapped, lost>>

ShowMark ==
    /\ mark.at = "answered"
    /\ shown' = [shown EXCEPT ![mark.of] =
                    IF @ = "hidden" THEN @ ELSE Look([read |-> mark.as])]
    /\ mark' = NoCall
    /\ UNCHANGED <<rows, tab, fetch, markAll, overlapped, lost>>

MarkFails ==
    /\ mark.at \in {"sent", "answered"}
    /\ lost' = (lost \/ mark.at = "answered")
    /\ mark' = NoCall
    /\ UNCHANGED <<rows, tab, shown, fetch, markAll, overlapped>>

-----------------------------------------------------------------------------
(* Marking all.                                                            *)

ClickMarkAll ==
    /\ ~Loading
    /\ tab = "unread" /\ shown # Hidden
    /\ markAll = "none"
    /\ markAll' = "sent"
    /\ overlapped' = (overlapped \/ mark # NoCall)
    /\ UNCHANGED <<rows, tab, shown, fetch, mark, lost>>

\* One UPDATE of the unread rows.
MarkAllRead ==
    /\ markAll = "sent"
    /\ rows' = [e \in Event |->
                  IF rows[e] = NoRow \/ rows[e].read THEN rows[e] ELSE Read]
    /\ markAll' = "answered"
    /\ UNCHANGED <<tab, shown, fetch, mark, overlapped, lost>>

ShowAllRead ==
    /\ markAll = "answered"
    /\ shown' = [e \in Event |-> IF shown[e] = "hidden" THEN "hidden" ELSE "read"]
    /\ markAll' = "none"
    /\ UNCHANGED <<rows, tab, fetch, mark, overlapped, lost>>

MarkAllFails ==
    /\ markAll # "none"
    /\ lost' = (lost \/ markAll = "answered")
    /\ markAll' = "none"
    /\ UNCHANGED <<rows, tab, shown, fetch, mark, overlapped>>

-----------------------------------------------------------------------------
Next ==
    \/ \E e \in Event : TriggerPendingApproval(e) \/ TriggerLowStock(e)
    \/ \E t \in Tabs : ChooseTab(t)
    \/ OpenPage \/ ListNotifications \/ ShowList \/ FetchFails
    \/ \E e \in Event, as \in BOOLEAN : Click(e, as)
    \/ GetNotification \/ MarkNotification \/ ShowMark \/ MarkFails
    \/ ClickMarkAll \/ MarkAllRead \/ ShowAllRead \/ MarkAllFails

Spec == Init /\ [][Next]_vars

-----------------------------------------------------------------------------
\* What the page shows of a notification is what the table says of it, and
\* the table has a time of reading for exactly the read ones, whenever no
\* call is on its way, unless calls overlapped that the page lets overlap (a
\* tab chosen, or all of them marked, during another call), or an answer was
\* lost.  The page waits for its list before anything else can be clicked.
PageTells ==
    ~overlapped /\ ~lost /\ fetch = NoCall /\ mark = NoCall /\ markAll = "none"
        => \A e \in Event :
              /\ shown[e] # "hidden" => rows[e] # NoRow /\ shown[e] = Look(rows[e])
              /\ rows[e] # NoRow => rows[e].read = rows[e].dated

=============================================================================
