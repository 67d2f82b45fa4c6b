------------------------------- MODULE Browser -------------------------------
(***************************************************************************)
(* The window: main's loop, the SDL event queue it drains, the Chrome (tab *)
(* strip, back button, address bar) and the tabs as the window sees them   *)
(* (history, focused field, height of the laid out page).                  *)
(*                                                                         *)
(* One thread runs everything, so a handler is one step: loading a page,   *)
(* its scripts and its network traffic happen inside the step that asked   *)
(* for them.  What a page does with a click is data here: ClickOutcomes    *)
(* lists the ways Tab::click can leave the tab.                            *)
(*                                                                         *)
(* main catches nothing: an exception out of a handler ends the program.   *)
(***************************************************************************)
EXTENDS Integers, Sequences, SequencesExt

CONSTANTS Urls,         \* addresses pages have
          Home,         \* the page main opens
          NewTabUrl,    \* the page '+' opens
          Extents,      \* how far a laid out page can scroll (m_max_y), in wheel units
          Turns,        \* wheel movements (event.wheel.y)
          CharBytes,    \* bytes of one SDL text event
          MinUrlBytes,  \* shortest address URL::parse accepts (a scheme and "://")
          MaxTabs, MaxHistory, MaxText, MaxQueue   \* bounds on the user's input

ASSUME UrlsAssumption == Home \in Urls /\ NewTabUrl \in Urls
ASSUME ExtentsAssumption == Extents \subseteq Nat
ASSUME TurnsAssumption == Turns \subseteq Int
ASSUME CharBytesAssumption == CharBytes \subseteq Nat \ {0}
ASSUME BoundsAssumption == {MinUrlBytes, MaxTabs, MaxHistory, MaxText, MaxQueue} \subseteq Nat

VARIABLES
  phase,        \* where main is: "launch", "poll", "draw", "exited" or "crashed"
  running,      \* Browser::is_Running
  queue,        \* SDL's event queue
  history,      \* history[t]: Tab::m_history of tabs[t]
  tabFocus,     \* tabFocus[t]: Tab::m_focus: "null", "live" (a node of the page shown)
                \* or "stale" (a node already destroyed)
  extent,       \* extent[t]: furthest scroll offset of the page tab t laid out
  active,       \* index of Browser::active_tab, 0 for the null pointer
  scroll,       \* Tab::m_scroll_y, one variable for all tabs (inline static)
  focus,        \* Browser::m_focus: "NONE", "CHROME" or "CONTENT"
  chromeFocus,  \* Chrome::m_focus: "NONE" or "ADDRESS_BAR"
  address,      \* length in bytes of Chrome::m_address_str
  textInput,    \* SDL delivers text events to the window
  labels        \* number of Chrome::m_labelNames

pages == <<history, tabFocus, extent, active, scroll, labels>>
chrome == <<focus, chromeFocus, address, textInput>>
vars == <<phase, running, queue, pages, chrome>>

ChromeTargets == {"address", "plus", "back", "bar"}

\* A mouse press lands on a chrome widget, on the i-th tab of the strip (whose
\* place exists whether or not the tab does) or on the page.
Events ==
       [type : {"quit"}]
  \cup [type : {"wheel"}, turn : Turns]
  \cup [type : {"down"}, at : ChromeTargets \cup {"content"}]
  \cup [type : {"down"}, at : {"tab"}, tab : 1..MaxTabs]
  \cup [type : {"key"}, key : {"escape", "backspace", "return"}]
  \cup [type : {"text"}, bytes : CharBytes]

-----------------------------------------------------------------------------
(* Helpers.  A definition named Bug... is a plausible mistake in the one it  *)
(* precedes; nothing in the specification uses it.                           *)

BugBottomUnclamped(y, hi) == IF y < 0 THEN 0 ELSE y

\* Tab::scroll keeps the offset between the top and the end of the page.
Clamped(y, hi) == IF y < 0 THEN 0 ELSE IF y > hi THEN hi ELSE y

BugBackPopsOnce(h) == Append(Front(h), Last(Front(h)))
BugBackDoesNotLoad(h) == Front(Front(h))

\* Tab::go_back: drop the page shown, take the address under it, drop that
\* entry too and load the address, which pushes it again.
AfterGoBack(h) == Append(Front(Front(h)), Last(Front(h)))

\* Page scripts may destroy the focused node; m_focus then dangles.
AfterScripts(f) == IF f = "live" THEN {"live", "stale"} ELSE {f}

\* How Tab::click can leave the tab.  A field may be focused, and the walk up
\* from it may still meet a link or a form and load a page: the field is then
\* gone while m_focus points to it.
ClickOutcomes ==
  {o \in [focus : {"null", "live", "stale"}, loads : BOOLEAN] :
     o.loads => o.focus # "live"}

\* Tab::blur re-renders, and so may change the height, only if a node had the
\* focus.
BlurExtents == IF tabFocus[active] = "null" THEN {extent[active]} ELSE Extents

Unfocused == [tabFocus EXCEPT ![active] = "null"]

BugBlurForgotten == UNCHANGED <<tabFocus, extent>>

BlurActive ==
  /\ tabFocus' = Unfocused
  /\ \E e \in BlurExtents : extent' = [extent EXCEPT ![active] = e]

\* Tab::load in the active tab, leaving it with history h.
LoadActive(h) ==
  /\ history' = [history EXCEPT ![active] = h]
  /\ \E e \in Extents : extent' = [extent EXCEPT ![active] = e]
  /\ scroll' = 0
  /\ UNCHANGED <<active, labels>>

\* Chrome::create_labelText pops and appends until there are as many labels as
\* tabs.
CreateLabels(tabs) == labels' = tabs

\* Browser::new_tab once the tabs already open have focuses f and heights x.
NewTab(u, f, x) ==
  /\ history' = Append(history, <<u>>)
  /\ tabFocus' = Append(f, "null")
  /\ \E e \in Extents : extent' = Append(x, e)
  /\ active' = Len(history) + 1
  /\ CreateLabels(Len(history) + 1)
  /\ scroll' = 0

BugTextInputLeftOn == chromeFocus' = "NONE" /\ UNCHANGED textInput

\* Chrome's escape and return both leave the address bar.
LeaveAddressBar == chromeFocus' = "NONE" /\ textInput' = FALSE

-----------------------------------------------------------------------------
(* The program *)

Init ==
  /\ phase = "launch" /\ running = TRUE /\ queue = <<>>
  /\ history = <<>> /\ tabFocus = <<>> /\ extent = <<>>
  /\ active = 0 /\ scroll = 0 /\ labels = 0
  /\ focus = "NONE" /\ chromeFocus = "NONE" /\ address = 0 /\ textInput = FALSE

\* main opens the home page and enters the loop.
Launch ==
  /\ phase = "launch" /\ phase' = "poll"
  /\ NewTab(Home, tabFocus, extent)
  /\ UNCHANGED <<running, queue, chrome>>

\* SDL_PollEvent returns the oldest event, of the given type.
Poll(type) ==
  /\ phase = "poll" /\ queue # <<>> /\ Head(queue).type = type
  /\ queue' = Tail(queue)
  /\ UNCHANGED phase

\* The events behind a quit in the queue are still handled.
Quit ==
  /\ Poll("quit")
  /\ running' = FALSE
  /\ UNCHANGED <<pages, chrome>>

Wheel ==
  /\ Poll("wheel")
  /\ scroll' = Clamped(scroll - Head(queue).turn, extent[active])
  /\ UNCHANGED <<running, history, tabFocus, extent, active, labels, chrome>>

\* A press above m_bottom: the page loses the focus before the chrome acts.
PressChrome(at) ==
  /\ Poll("down") /\ Head(queue).at = at
  /\ focus' = "CHROME"
  /\ UNCHANGED running

ClickAddressBar ==
  /\ PressChrome("address")
  /\ BlurActive
  /\ chromeFocus' = "ADDRESS_BAR" /\ textInput' = TRUE /\ address' = 0
  /\ UNCHANGED <<history, active, scroll, labels>>

ClickPlus ==
  /\ PressChrome("plus")
  /\ \E e \in BlurExtents :
       NewTab(NewTabUrl, Unfocused, [extent EXCEPT ![active] = e])
  /\ LeaveAddressBar
  /\ UNCHANGED address

ClickBack ==
  /\ PressChrome("back")
  /\ LeaveAddressBar
  /\ \/ /\ Len(history[active]) > 1
        /\ LoadActive(AfterGoBack(history[active]))
        /\ tabFocus' = Unfocused
     \/ /\ Len(history[active]) <= 1
        /\ BlurActive
        /\ UNCHANGED <<history, active, scroll, labels>>
  /\ UNCHANGED address

\* The offset is not touched: the tab coming to the front inherits it.
ClickTab ==
  /\ PressChrome("tab")
  /\ BlurActive
  /\ LeaveAddressBar
  /\ active' = IF Head(queue).tab <= Len(history) THEN Head(queue).tab ELSE active
  /\ UNCHANGED <<history, scroll, labels, address>>

ClickBar ==
  /\ PressChrome("bar")
  /\ BlurActive
  /\ LeaveAddressBar
  /\ UNCHANGED <<history, active, scroll, labels, address>>

\* A press on the page: Tab::click blurs, runs the page's handlers and its own
\* default actions.
ClickContent ==
  /\ Poll("down") /\ Head(queue).at = "content"
  /\ focus' = "CONTENT" /\ chromeFocus' = "NONE"
  /\ \E o \in ClickOutcomes :
       /\ tabFocus' = [tabFocus EXCEPT ![active] = o.focus]
       /\ textInput' = (o.focus # "null")
       /\ \/ o.loads /\ \E u \in Urls : LoadActive(Append(history[active], u))
          \/ /\ ~o.loads
             /\ \E e \in Extents : extent' = [extent EXCEPT ![active] = e]
             /\ UNCHANGED <<history, active, scroll, labels>>
  /\ UNCHANGED <<running, address>>

\* Chrome::handle_special_keys while the address bar is being edited.
KeyInAddressBar ==
  /\ Poll("key")
  /\ focus = "CHROME" /\ chromeFocus = "ADDRESS_BAR"
  /\ \/ /\ Head(queue).key = "escape"
        /\ LeaveAddressBar
        /\ UNCHANGED <<address, pages>>
     \/ /\ Head(queue).key = "backspace"
        /\ address' = IF address > 0 THEN address - 1 ELSE 0
        /\ UNCHANGED <<chromeFocus, textInput, pages>>
     \/ /\ Head(queue).key = "return"
        /\ address >= MinUrlBytes
        /\ LeaveAddressBar
        /\ \E u \in Urls : LoadActive(Append(history[active], u))
        /\ UNCHANGED <<address, tabFocus>>
  /\ UNCHANGED <<running, focus>>

\* The focused field sees the key or the text after the page's keydown
\* handler, which may destroy the field, and the page is rendered again.
EditField ==
  /\ \E f \in AfterScripts(tabFocus[active]) :
       tabFocus' = [tabFocus EXCEPT ![active] = f]
  /\ \E e \in Extents : extent' = [extent EXCEPT ![active] = e]
  /\ UNCHANGED <<running, history, active, scroll, labels, chrome>>

KeyInPage ==
  /\ Poll("key") /\ focus = "CONTENT" /\ tabFocus[active] # "null"
  /\ EditField

NobodyTypedTo ==
  /\ focus = "CHROME" => chromeFocus # "ADDRESS_BAR"
  /\ focus = "CONTENT" => tabFocus[active] = "null"

KeyIgnored ==
  /\ Poll("key") /\ NobodyTypedTo
  /\ UNCHANGED <<running, pages, chrome>>

TextInAddressBar ==
  /\ Poll("text") /\ focus = "CHROME" /\ chromeFocus = "ADDRESS_BAR"
  /\ address' = address + Head(queue).bytes
  /\ UNCHANGED <<running, pages, focus, chromeFocus, textInput>>

TextInPage ==
  /\ Poll("text") /\ focus = "CONTENT" /\ tabFocus[active] # "null"
  /\ EditField

TextIgnored ==
  /\ Poll("text") /\ NobodyTypedTo
  /\ UNCHANGED <<running, pages, chrome>>

\* start_event returns when the queue is empty.
EndPoll ==
  /\ phase = "poll" /\ queue = <<>>
  /\ phase' = "draw"
  /\ UNCHANGED <<running, queue, pages, chrome>>

BugDrawAlwaysPolls ==
  /\ phase = "draw" /\ phase' = "poll"
  /\ UNCHANGED <<running, queue, pages, chrome>>

\* main draws and tests is_Running: what arrived since the poll is dropped
\* when the program is to end.
Draw ==
  /\ phase = "draw"
  /\ phase' = IF running THEN "poll" ELSE "exited"
  /\ UNCHANGED <<running, queue, pages, chrome>>

\* Events whose handler parses an address, reaches the network, runs page
\* scripts or style code, or touches a focused node (perhaps a dangling one).
CanFail(e) ==
  \/ /\ e.type = "down"
     /\ \/ e.at \in {"plus", "content"}
        \/ e.at = "back" /\ Len(history[active]) > 1
        \/ tabFocus[active] # "null"
  \/ e.type = "key" /\ e.key = "return" /\ chromeFocus = "ADDRESS_BAR"
  \/ e.type \in {"key", "text"} /\ focus = "CONTENT" /\ tabFocus[active] # "null"

\* An exception leaves main, or a dangling pointer ends the process.
Crash ==
  /\ \/ phase = "launch"
     \/ phase = "poll" /\ queue # <<>> /\ CanFail(Head(queue))
  /\ phase' = "crashed"
  /\ UNCHANGED <<running, queue, pages, chrome>>

\* The bounds: an event is only posted if the state it can lead to, with those
\* already queued, is within them.  One text more may wait behind MaxQueue
\* events, one of which may have moved the focus by the time it is read.
Room(e) ==
  LET n == Len(queue) + 1 IN
  /\ n <= MaxQueue \/ (e.type = "text" /\ n = MaxQueue + 1)
  /\ e.type = "down" /\ e.at = "plus" => Len(history) + n <= MaxTabs
  /\ (e.type = "down" /\ e.at = "content") \/ (e.type = "key" /\ e.key = "return")
       => \A t \in DOMAIN history : Len(history[t]) + n <= MaxHistory
  /\ e.type = "text" => address + n * e.bytes <= MaxText

\* The user acts at any time; text events exist only while text input is on.
Post(e) ==
  /\ phase \notin {"exited", "crashed"}
  /\ Room(e)
  /\ e.type = "text" => textInput
  /\ queue' = Append(queue, e)
  /\ UNCHANGED <<phase, running, pages, chrome>>

Step ==
  \/ Launch \/ Quit \/ Wheel
  \/ ClickAddressBar \/ ClickPlus \/ ClickBack \/ ClickTab \/ ClickBar \/ ClickContent
  \/ KeyInAddressBar \/ KeyInPage \/ KeyIgnored
  \/ TextInAddressBar \/ TextInPage \/ TextIgnored
  \/ EndPoll \/ Draw \/ Crash

Next == Step \/ \E e \in Events : Post(e)

Spec == Init /\ [][Next]_vars

\* The thread is scheduled again and again; nothing is promised of the user.
FairSpec == Spec /\ WF_vars(Step)

-----------------------------------------------------------------------------
(* Properties *)

\* Every variable holds a value of its C++ type; the scroll offset is never
\* negative.
TypeOK ==
  /\ phase \in {"launch", "poll", "draw", "exited", "crashed"}
  /\ running \in BOOLEAN
  /\ queue \in Seq(Events)
  /\ history \in Seq(Seq(Urls))
  /\ tabFocus \in Seq({"null", "live", "stale"})
  /\ extent \in Seq(Extents)
  /\ active \in Nat /\ scroll \in Nat /\ labels \in Nat
  /\ focus \in {"NONE", "CHROME", "CONTENT"}
  /\ chromeFocus \in {"NONE", "ADDRESS_BAR"}
  /\ address \in Nat
  /\ textInput \in BOOLEAN

\* Three objects keep a focus of their own (Browser, Chrome and every Tab).
\* They agree: the address bar is edited only while the window says CHROME has
\* the keyboard, and a field of a page is focused only in the tab in front and
\* only while the window says CONTENT has it.  A tab sent to the back keeps no
\* focus behind.
FocusCoherent ==
  /\ chromeFocus = "ADDRESS_BAR" => focus = "CHROME"
  /\ \A t \in DOMAIN tabFocus :
       tabFocus[t] # "null" => t = active /\ focus = "CONTENT"

\* SDL delivers text exactly while something would take it.  Start and Stop are
\* called in four different handlers and must balance over any sequence of
\* clicks, keys and page loads.
TextInputTracksFocus ==
  textInput <=> \/ chromeFocus = "ADDRESS_BAR"
                \/ \E t \in DOMAIN tabFocus : tabFocus[t] # "null"

\* What Browser::draw, Chrome::paint and the handlers index without a check is
\* there from the first tab on: an active tab, a tab for every label, an
\* address for every tab.
Drawable ==
  /\ phase = "launch" => history = <<>> /\ tabFocus = <<>> /\ extent = <<>>
  /\ phase \in {"poll", "draw", "exited"} =>
       /\ active \in DOMAIN history
       /\ Len(tabFocus) = Len(history) /\ Len(extent) = Len(history)
       /\ labels = Len(history)
       /\ \A t \in DOMAIN history : history[t] # <<>>

InView == active \in DOMAIN extent => scroll <= extent[active]

\* Tab::load comes with "resetting scroll to top of page everytime new page's
\* loaded" (Tab.cpp:43) and the wheel clamps: the view slides off the page only
\* when another tab comes to the front, whose page may be shorter than the
\* offset the tabs share, or when the page itself is rendered shorter.
ViewLeavesPageOnlyBySwitch ==
  [][InView /\ ~InView' =>
       \/ active' # active
       \/ history' = history /\ extent'[active] < extent[active]]_vars

\* Chrome and tabs together implement tabs that are stacks of pages.
Tabs == INSTANCE TabHistories WITH stacks <- history, current <- active

\* The back button undoes exactly one visit of the tab in front; loading,
\* opening and switching touch no other history.
BackIsUndo == Tabs!Spec

\* A user who stops acting after closing the window sees the program end: the
\* loop drains what was queued behind the quit and then leaves.
QuitExits ==
  <>[][Len(queue') <= Len(queue)]_vars =>
    (~running ~> phase \in {"exited", "crashed"})
=============================================================================
