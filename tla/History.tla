------------------------------- MODULE History -------------------------------
(***************************************************************************)
(* Reading the history of a channel in pages: MessageService.list_messages  *)
(* and messages_around with the cursors and has_more they return, while     *)
(* messages are published and deleted.  The reader scrolls one window: it   *)
(* opens it at the newest messages or around one of them and extends it at  *)
(* both ends with the cursors it was given.                                 *)
(***************************************************************************)
EXTENDS Naturals, FiniteSets

CONSTANTS
    MaxHistory,   \* bound: messages of the channel
    PageLimit,    \* limit
    AroundLimit   \* limit_before and limit_after

ASSUME HistoryConstants == MaxHistory \in Nat /\ PageLimit \in Nat \ {0} /\ AroundLimit \in Nat

VARIABLES
    newest,    \* channels.last_seq_id
    visible,   \* sequence numbers without deleted_at
    window,    \* the lowest and the highest sequence number of the window, 0 before it is open
    shown,     \* messages the reader was sent for the window
    oldest,    \* the last page of older messages came with has_more = FALSE
    jump       \* messages_around under way: its statement, centre and rows so far

historyVars == <<newest, visible, window, shown, oldest, jump>>

NoJump == [stage |-> "none", at |-> 0, page |-> {}]

HistoryInit ==
    /\ newest = 0
    /\ visible = {}
    /\ window = [lo |-> 0, hi |-> 0]
    /\ shown = {}
    /\ oldest = FALSE
    /\ jump = NoJump

\* The first n of S in descending, and in ascending order.
Desc(S, n) == {s \in S : Cardinality({t \in S : t > s}) < n}
Asc(S, n) == {s \in S : Cardinality({t \in S : t < s}) < n}

LeastOf(S) == CHOOSE s \in S : \A t \in S : s <= t
GreatestOf(S) == CHOOSE s \in S : \A t \in S : s >= t

-----------------------------------------------------------------------------
(* The channel *)

AppendMessage ==
    /\ newest < MaxHistory
    /\ newest' = newest + 1
    /\ visible' = visible \cup {newest + 1}
    /\ UNCHANGED <<window, shown, oldest, jump>>

RemoveMessage(s) ==
    /\ s \in visible
    /\ visible' = visible \ {s}
    /\ UNCHANGED <<newest, window, shown, oldest, jump>>

-----------------------------------------------------------------------------
(* The reader *)

\* Mutant of ListDesc: the row that only tells has_more is not cut off but the
\* first one is.
ListDescShifted(S) ==
    LET values == Desc(S, PageLimit + 1) IN
    [page |-> IF Cardinality(values) > PageLimit THEN Asc(values, PageLimit) ELSE values,
     more |-> Cardinality(values) > PageLimit]

\* list_messages in descending order over the rows S: limit + 1 rows are read.
ListDesc(S) ==
    LET values == Desc(S, PageLimit + 1) IN
    [page |-> Desc(values, PageLimit), more |-> Cardinality(values) > PageLimit]

ListAsc(S) ==
    LET values == Asc(S, PageLimit + 1) IN
    [page |-> Asc(values, PageLimit), more |-> Cardinality(values) > PageLimit]

\* The first page: neither cursor is given.
OpenNewest ==
    LET answer == ListDesc(visible) IN
    /\ jump = NoJump
    /\ answer.page # {}
    /\ window' = [lo |-> LeastOf(answer.page), hi |-> GreatestOf(answer.page)]
    /\ shown' = answer.page
    /\ oldest' = ~answer.more
    /\ UNCHANGED <<newest, visible, jump>>

\* before_seq_id = next_before_seq_id of the last page of this direction.
ScrollOlder ==
    LET answer == ListDesc({s \in visible : s < window.lo}) IN
    /\ jump = NoJump /\ window.lo > 0 /\ ~oldest
    /\ window' = IF answer.page = {} THEN window ELSE [window EXCEPT !.lo = LeastOf(answer.page)]
    /\ shown' = shown \cup answer.page
    /\ oldest' = ~answer.more
    /\ UNCHANGED <<newest, visible, jump>>

\* after_seq_id = next_after_seq_id.
ScrollNewer ==
    LET answer == ListAsc({s \in visible : s > window.hi}) IN
    /\ jump = NoJump /\ window.lo > 0
    /\ answer.page # {}
    /\ window' = [window EXCEPT !.hi = GreatestOf(answer.page)]
    /\ shown' = shown \cup answer.page
    /\ UNCHANGED <<newest, visible, oldest, jump>>

\* messages_around: three statements, each with its own snapshot.
AroundLeft(s) ==
    /\ jump = NoJump
    /\ jump' = [stage |-> "centre", at |-> s, page |-> Desc({t \in visible : t < s}, AroundLimit)]
    /\ UNCHANGED <<newest, visible, window, shown, oldest>>

AroundCentre ==
    /\ jump.stage = "centre"
    /\ jump' = [jump EXCEPT !.stage = "right", !.page = @ \cup (visible \cap {jump.at})]
    /\ UNCHANGED <<newest, visible, window, shown, oldest>>

\* The reader replaces its window by the answer, if that has any message.
AroundRight ==
    LET page == jump.page \cup Asc({t \in visible : t > jump.at}, AroundLimit) IN
    /\ jump.stage = "right"
    /\ jump' = NoJump
    /\ IF page = {} THEN UNCHANGED <<window, shown, oldest>>
       ELSE /\ window' = [lo |-> LeastOf(page), hi |-> GreatestOf(page)]
            /\ shown' = page
            /\ oldest' = FALSE
    /\ UNCHANGED <<newest, visible>>

HistoryNext ==
    \/ AppendMessage \/ OpenNewest \/ ScrollOlder \/ ScrollNewer \/ AroundCentre \/ AroundRight
    \/ \E s \in visible : RemoveMessage(s)
    \/ \E s \in 1..newest : AroundLeft(s)

HistorySpec == HistoryInit /\ [][HistoryNext]_historyVars

-----------------------------------------------------------------------------
(* Properties. *)

\* message_service.py: the window has no hole, whatever was published and
\* deleted between its pages and between the three statements of
\* messages_around, and when a page said has_more = FALSE nothing older is
\* left to read.
HistoryWindow ==
    /\ \A s \in visible : window.lo <= s /\ s <= window.hi => s \in shown
    /\ oldest => \A s \in visible : s >= window.lo
=============================================================================
