------------------------------- MODULE ChatView -------------------------------
(***************************************************************************)
(* The list of the open chat on the screen (ActiveChat of                  *)
(* apps/frontend-v3/chat-view.tsx): which rows of the window are rendered, *)
(* how the rows' heights are learnt, and how the view is kept in its place *)
(* while the list changes around it.                                       *)
(*                                                                         *)
(* The rows of a chat are numbered from the oldest; the number is also the *)
(* row's key.  The list that is laid out has a height for each row, an     *)
(* estimate until it is measured; on the page a row has its real height.   *)
(* The window only grows (ChatWindow says how).  A change of the list, the *)
(* layout effects and the effect that sets the range are one step: no      *)
(* event of the page comes between them.  A frame dispatches the scroll    *)
(* event before its callbacks, as browsers do.  Left out: a browser's own  *)
(* scroll anchoring, smooth scrolling, the gaps between rows.              *)
(***************************************************************************)
EXTENDS Integers, FiniteSetsExt

CONSTANTS
    LastRow,   \* rows of the chat when all have come
    Tools,     \* rows that are tool calls or results: neighbours make a group
    LongRows,  \* rows with a text that can be unfolded
    Height,    \* real height of each row
    Estimate,  \* estimateHeight
    Unfolded,  \* what unfolding adds to a row
    Label,     \* COLLAPSED_GROUP_LABEL_HEIGHT
    Screen,    \* clientHeight
    Overscan,  \* ROW_OVERSCAN
    Edge,      \* LOAD_EDGE_PX
    OlderPage, \* rows of a page of the history
    OpenedWith, \* the windows a chat may be opened with: [lo, hi]
    SavedHeights, \* the sets of rows whose heights IndexedDB may have
    MaxGestures \* bound: scrolls, clicks and changes of the font

ASSUME ChatViewAssumption ==
    /\ Height \in [1..LastRow -> Nat \ {0}] /\ Tools \subseteq 1..LastRow /\ LongRows \subseteq 1..LastRow \ Tools
    /\ {Estimate, Label, Screen, Overscan, OlderPage} \subseteq Nat \ {0}
    /\ {LastRow, Unfolded} \subseteq Nat /\ SavedHeights \subseteq SUBSET (1..LastRow)
    /\ \A w \in OpenedWith : w.lo \in Nat \ {0} /\ w.hi \in w.lo - 1 .. LastRow

VARIABLES
    list,      \* [lo, hi]: items; measured: heightsRef; groups: expandedGroups; longs: expandedLong
    range,     \* range: [start, end] as offsets into items, and the paddings [above, below]
    top,       \* scrollTop
    anchor,    \* anchorRef
    anchoring, \* anchoringActive
    resetDue,  \* the frame callback that ends anchoring is scheduled
    prevTop,   \* prevScrollTopRef
    scrolled,  \* a scroll event is due
    unflushed, \* pendingHeights
    hydrated,  \* heightsHydrated
    settled,   \* initialScrollDone
    byUser,    \* userScrolled
    framesDue, \* frames until the initial scroll; 0 when none is scheduled
    loading,   \* state.loadingOlder
    gestures

viewVars == <<list, range, top, anchor, anchoring, resetDue, prevTop, scrolled, unflushed,
              hydrated, settled, byUser, framesDue, loading, gestures>>

NoAnchor == [key |-> 0, within |-> 0]
Smaller(m, n) == IF m < n THEN m ELSE n
Larger(m, n) == IF m > n THEN m ELSE n
Items(l) == l.lo .. l.hi

----------------------------------------------------------------------------
(* Layout *)

\* The first row of the group that row i is in, of the rows from `first' on.
HeadOf(i, first) == Min({h \in first..i : h..i \subseteq Tools})

\* layout: what a row takes.  groupSpansByIdx looks at all items.
RowHeight(l, i) ==
    IF i \in Tools /\ HeadOf(i, l.lo) \notin l.groups
    THEN IF HeadOf(i, l.lo) = i THEN Label ELSE 0
    ELSE IF i \in DOMAIN l.measured THEN l.measured[i] ELSE Estimate

\* Where the rows lo..hi begin when they are put one below the other, and where the last ends.
Stacked(height, lo, hi) ==
    LET at[i \in lo .. hi + 1] == IF i = lo THEN 0 ELSE at[i - 1] + height[i - 1] IN at

Offsets(l) == Stacked([i \in Items(l) |-> RowHeight(l, i)], l.lo, l.hi)
Offset(l, i) == Offsets(l)[i]
Total(l) == Offset(l, l.hi + 1)

\* lowerBound in the offsets
LowerBound(l, value) ==
    LET offsets == Offsets(l)
    IN  Min({i \in Items(l) : offsets[i] >= value} \cup {l.hi + 1})

RangeOf(l, start, end) ==
    [start |-> start - l.lo, end |-> end - l.lo,
     above |-> Offset(l, start), below |-> Total(l) - Offset(l, end)]

\* An altered form: it begins with the first row that begins on the screen.
RangeWithoutOverscan(l, t) ==
    RangeOf(l, LowerBound(l, t), Smaller(l.hi + 1, LowerBound(l, t + Screen) + Overscan))

\* updateRange
RangeAt(l, t) ==
    RangeOf(l, Larger(l.lo, LowerBound(l, t) - Overscan),
            Smaller(l.hi + 1, LowerBound(l, t + Screen) + Overscan))

\* items.slice(range.start, range.end)
FirstOnPage(l, r) == l.lo + r.start
LastOnPage(l, r) == Smaller(l.hi, l.lo + r.end - 1)
OnPage(l, r) == FirstOnPage(l, r) .. LastOnPage(l, r)

RealHeight(l, i) == Height[i] + (IF i \in l.longs THEN Unfolded ELSE 0)

\* groupConsecutiveTools looks at the rendered rows only.
IsOpen(l, r, i) == HeadOf(i, FirstOnPage(l, r)) \in l.groups

\* What a rendered row takes on the page, with the label of the group it begins.
TakenBy(l, r, i) ==
    IF i \notin Tools THEN RealHeight(l, i)
    ELSE (IF HeadOf(i, FirstOnPage(l, r)) = i THEN Label ELSE 0)
         + (IF IsOpen(l, r, i) THEN RealHeight(l, i) ELSE 0)

\* The largest scrollTop of the page: scrollHeight - clientHeight
Limit(l, r) ==
    LET rows == Stacked([i \in OnPage(l, r) |-> TakenBy(l, r, i)],
                        FirstOnPage(l, r), LastOnPage(l, r))
    IN  Larger(0, r.above + rows[LastOnPage(l, r) + 1] + r.below - Screen)

\* captureAnchor: the row at the top of the screen, if it is one
TopRow(l, t) ==
    LET i == LowerBound(l, t)
        row == Larger(l.lo, IF Offset(l, i) = t THEN i ELSE i - 1)
    IN  IF row \in Items(l) THEN [key |-> row, within |-> t - Offset(l, row)] ELSE NoAnchor

Captured == IF TopRow(list, top) # NoAnchor THEN TopRow(list, top) ELSE anchor

----------------------------------------------------------------------------
(* Steps *)

\* Nothing is measured yet, the first range is empty.
ViewInit ==
    /\ \E w \in OpenedWith :
         list = [lo |-> w.lo, hi |-> w.hi, measured |-> <<>>, groups |-> {}, longs |-> {}]
    /\ range = RangeAt(list, 0)
    /\ top = 0 /\ prevTop = 0 /\ anchor = NoAnchor
    /\ anchoring = FALSE /\ resetDue = FALSE /\ scrolled = FALSE
    /\ hydrated = FALSE /\ byUser = FALSE /\ loading = FALSE
    /\ unflushed = {} /\ gestures = 0
    /\ settled = (Items(list) # {} /\ Total(list) <= Screen)
    /\ framesDue = IF settled \/ Items(list) = {} THEN 0 ELSE 2

\* An altered form: older rows are not noticed.
PrependMissed(l) == FALSE

\* PREPEND DETECT
Prepended(l) == l.lo < list.lo

\* The effect of the initial scroll, which runs when the length or the total has changed.
InitialScroll(l) ==
    LET runs == ~settled /\ Items(l) # {} /\ (Items(l) # Items(list) \/ Total(l) # Total(list)) IN
    /\ settled' = (settled \/ (runs /\ (byUser \/ Total(l) <= Screen)))
    /\ framesDue' = IF runs /\ ~settled' /\ framesDue = 0 THEN 2 ELSE framesDue

\* The list is laid out anew and painted: the anchor is looked for before the range, and with
\* it the paddings, are those of the new list; the browser limits scrollTop to the page, and
\* every move makes a scroll event due.
LaidOut(l, held) ==
    LET t0 == Smaller(top, Limit(l, range))
        kept == IF Prepended(l) THEN [key |-> list.lo, within |-> prevTop] ELSE held
        t1 == IF kept = NoAnchor THEN t0
              ELSE Larger(0, Smaller(Offset(l, kept.key) + kept.within, Limit(l, range)))
        r == RangeAt(l, t1)
        t2 == Smaller(t1, Limit(l, r))
    IN  /\ list' = l /\ range' = r /\ top' = t2
        /\ prevTop' = IF r = range THEN t0 ELSE t1
        /\ anchor' = NoAnchor
        /\ anchoring' = (anchoring \/ kept # NoAnchor) /\ resetDue' = (resetDue \/ kept # NoAnchor)
        /\ scrolled' = (scrolled \/ t0 # top \/ t1 # t0 \/ t2 # t1)
        /\ InitialScroll(l)

\* getHeightsForChat has answered: what has been measured meanwhile is forgotten.
Hydrated(known) ==
    /\ ~hydrated /\ hydrated' = TRUE
    /\ LaidOut([list EXCEPT !.measured = [i \in known |-> Height[i]]], anchor)
    /\ UNCHANGED <<unflushed, byUser, loading, gestures>>

\* The ResizeObserver finds rendered rows without a height.
Observed ==
    LET seen == {i \in OnPage(list, range) : i \in Tools => IsOpen(list, range, i)}
    IN  /\ unflushed' = unflushed \cup (seen \ DOMAIN list.measured) /\ unflushed' # unflushed
        /\ UNCHANGED <<list, range, top, anchor, anchoring, resetDue, prevTop, scrolled, hydrated,
                       settled, byUser, framesDue, loading, gestures>>

\* flushMeasurements, with the heights the rows have
Flushed ==
    /\ unflushed # {} /\ unflushed' = {}
    /\ LaidOut([list EXCEPT !.measured = [i \in DOMAIN @ \cup unflushed |->
                  IF i \in unflushed THEN RealHeight(list, i) ELSE @[i]]], Captured)
    /\ UNCHANGED <<hydrated, byUser, loading, gestures>>

\* toggleGroup, of a group as it is rendered
GroupToggled(i) ==
    /\ gestures < MaxGestures /\ gestures' = gestures + 1
    /\ i \in OnPage(list, range) \cap Tools /\ HeadOf(i, FirstOnPage(list, range)) = i
    /\ LaidOut([list EXCEPT !.groups = IF i \in @ THEN @ \ {i} ELSE @ \cup {i}], Captured)
    /\ UNCHANGED <<unflushed, hydrated, byUser, loading>>

\* toggleLongMessage: an anchor is captured, but the layout stays and nothing restores it.
LongToggled(i) ==
    /\ gestures < MaxGestures /\ gestures' = gestures + 1
    /\ i \in OnPage(list, range) \cap LongRows
    /\ list' = [list EXCEPT !.longs = IF i \in @ THEN @ \ {i} ELSE @ \cup {i}]
    /\ anchor' = Captured /\ anchoring' = (anchoring \/ Captured # NoAnchor)
    /\ top' = Smaller(top, Limit(list', range)) /\ prevTop' = top'
    /\ scrolled' = (scrolled \/ top' # top)
    /\ UNCHANGED <<range, resetDue, unflushed, hydrated, settled, byUser, framesDue, loading>>

\* The font changes: an anchor is captured, the heights are dropped.
Restyled ==
    /\ gestures < MaxGestures /\ gestures' = gestures + 1
    /\ LaidOut([list EXCEPT !.measured = <<>>], Captured)
    /\ UNCHANGED <<unflushed, hydrated, byUser, loading>>

\* A page of older rows comes, or a row at the end.
OlderCame ==
    /\ loading /\ loading' = FALSE
    /\ LaidOut([list EXCEPT !.lo = Larger(1, @ - OlderPage)], anchor)
    /\ UNCHANGED <<unflushed, hydrated, byUser, gestures>>
RowCame ==
    /\ list.hi < LastRow
    /\ LaidOut([list EXCEPT !.hi = @ + 1], anchor)
    /\ UNCHANGED <<unflushed, hydrated, byUser, loading, gestures>>

\* Any other change of the store's state renders the chat again.
Rerendered ==
    /\ prevTop # top /\ prevTop' = top
    /\ UNCHANGED <<list, range, top, anchor, anchoring, resetDue, scrolled, unflushed, hydrated,
                   settled, byUser, framesDue, loading, gestures>>

UserScrolled(t) ==
    /\ gestures < MaxGestures /\ gestures' = gestures + 1
    /\ t # top /\ t <= Limit(list, range)
    /\ top' = t /\ scrolled' = TRUE
    /\ UNCHANGED <<list, range, anchor, anchoring, resetDue, prevTop, unflushed, hydrated, settled,
                   byUser, framesDue, loading>>

\* A frame: onScroll and its updateRange, the second callback of the initial scroll, the end
\* of anchoring.
Frame ==
    LET user == scrolled /\ ~anchoring
        scrolls == framesDue = 1 /\ ~settled /\ ~(byUser \/ user)
        t1 == IF scrolls THEN Limit(list, range) ELSE top
        r == IF scrolled THEN RangeAt(list, top) ELSE range
        t2 == Smaller(t1, Limit(list, r))
    IN  /\ scrolled \/ resetDue \/ framesDue > 0
        /\ byUser' = (byUser \/ (user /\ ~settled))
        /\ loading' = (loading \/ (user /\ top < Edge /\ list.lo > 1))
        /\ range' = r /\ top' = t2 /\ scrolled' = (t1 # top \/ t2 # t1)
        /\ framesDue' = Larger(0, framesDue - 1)
        /\ settled' = (settled \/ scrolls)
        /\ anchoring' = (scrolls \/ (anchoring /\ ~resetDue)) /\ resetDue' = scrolls
        /\ prevTop' = IF r # range \/ loading' # loading THEN t1 ELSE prevTop
        /\ UNCHANGED <<list, anchor, unflushed, hydrated, gestures>>

ViewNext ==
    \/ \E known \in SavedHeights : Hydrated(known)
    \/ Observed \/ Flushed \/ Restyled \/ OlderCame \/ RowCame \/ Rerendered \/ Frame
    \/ \E i \in Tools : GroupToggled(i)
    \/ \E i \in LongRows : LongToggled(i)
    \/ \E t \in 0 .. Limit(list, range) : UserScrolled(t)

ViewSpec == ViewInit /\ [][ViewNext]_viewVars

----------------------------------------------------------------------------
(* Properties *)

\* When no scroll event is due, what the layout has on the screen is rendered: neither the
\* anchor that is restored, nor the paddings of a new range, nor a frame leaves a hole.
ScreenCovered ==
    ~scrolled => \A i \in Items(list) :
        Offset(list, i) < top + Screen /\ Offset(list, i) + RowHeight(list, i) > top
            => i \in OnPage(list, range)

\* Whatever changes the list, the row at the top of the screen stays where it is, as far as
\* the page can be scrolled there (chat-view.tsx:126-134).  Not so when heights come from
\* IndexedDB, when the position of the last render is out of date, when a click on a long
\* message has left its anchor, and when older rows continue a group at its head, whose label
\* then moves up with it.
StaysPut ==
    [][LET row == TopRow(list, top)
           there == Offset(list', row.key) + row.within
       IN  \/ UNCHANGED list \/ hydrated' # hydrated \/ prevTop # top \/ anchor # NoAnchor
           \/ row = NoAnchor \/ (list'.lo < list.lo /\ {list.lo - 1, list.lo} \subseteq Tools)
           \/ top' = there \/ there > Smaller(Limit(list', range), Limit(list', range'))]_viewVars

\* A group that is open is shown open wherever its rows are rendered: its key is "stable ...
\* Survives re-renders / sync" (chat-view.tsx:613).
GroupsStayOpen ==
    \A i \in OnPage(list, range) \cap Tools :
        HeadOf(i, list.lo) \in list.groups => IsOpen(list, range, i)
=============================================================================
