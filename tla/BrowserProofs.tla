---------------------------- MODULE BrowserProofs ----------------------------
(***************************************************************************)
(* The window, and the wire behind it.  First, proofs about Browser.tla    *)
(* for every set of addresses, page heights, wheel turns and input bounds. *)
(* Then about Exchange.tla, where for every length of the parts, every     *)
(* buffer and every pipe the server's buffered reading loses, repeats and  *)
(* swaps nothing, however the kernel cuts up what is written and read, and *)
(* an answer that was written to its end is read to its end.  And a        *)
(* request keeps one socket at most, however many addresses a name has.    *)
(***************************************************************************)
EXTENDS Browser, Exchange, SequenceTheorems, TLAPS

-----------------------------------------------------------------------------
(* Sequences *)

LEMMA FrontProperties ==
  ASSUME NEW S, NEW s \in Seq(S), s # <<>>
  PROVE  /\ Front(s) \in Seq(S)
         /\ Len(Front(s)) = Len(s) - 1
         /\ \A i \in 1..(Len(s) - 1) : Front(s)[i] = s[i]
<1>1. Len(s) \in Nat \ {0}
  BY EmptySeq
<1>2. \A i \in 1..(Len(s) - 1) : s[i] \in S
  BY <1>1, ElementOfSeq
<1> DEFINE n == Len(s) - 1
<1>3. n \in Nat /\ \A i \in 1..n : s[i] \in S
  BY <1>1, <1>2
<1>4. Front(s) = SubSeq(s, 1, n)
  BY DEF Front
<1> HIDE DEF n
<1>5. /\ SubSeq(s, 1, n) \in Seq(S)
      /\ Len(SubSeq(s, 1, n)) = IF 1 <= n THEN n - 1 + 1 ELSE 0
      /\ \A i \in 1..(n - 1 + 1) : SubSeq(s, 1, n)[i] = s[1 + i - 1]
  BY <1>3, SubSeqProperties
<1>6. Len(SubSeq(s, 1, n)) = n
  BY <1>3, <1>5
<1>7. \A i \in 1..n : SubSeq(s, 1, n)[i] = s[i]
  <2> TAKE i \in 1..n
  <2>1. i \in 1..(n - 1 + 1) /\ 1 + i - 1 = i
    BY <1>3
  <2> QED
    BY <2>1, <1>5
<1>8. QED
  BY <1>4, <1>5, <1>6, <1>7 DEF n

\* Going back loads the address it uncovers, so the history it leaves is the
\* old one without its last page (Tab::go_back).
LEMMA GoBackIsFront ==
  ASSUME NEW S, NEW h \in Seq(S), Len(h) > 1
  PROVE  AfterGoBack(h) = Front(h)
<1> DEFINE f == Front(h)
           g == Append(Front(f), Last(f))
<1>1. f \in Seq(S) /\ Len(f) = Len(h) - 1 /\ f # <<>>
  BY FrontProperties, LenProperties
<1>2. /\ Front(f) \in Seq(S)
      /\ Len(Front(f)) = Len(f) - 1
      /\ \A i \in 1..(Len(f) - 1) : Front(f)[i] = f[i]
  BY <1>1, FrontProperties
<1>3. Len(f) \in Nat \ {0} /\ Last(f) = f[Len(f)] /\ Last(f) \in S
  BY <1>1, EmptySeq, ElementOfSeq DEF Last
<1> HIDE DEF f
<1>4. g \in Seq(S) /\ Len(g) = Len(f)
  BY <1>2, <1>3
<1>5. \A i \in 1..Len(f) : g[i] = f[i]
  BY <1>2, <1>3
<1>6. g = f
  BY <1>1, <1>4, <1>5, SeqEqual
<1>7. QED
  BY <1>6 DEF f, g, AfterGoBack

-----------------------------------------------------------------------------
(* The invariant                                                             *)
(*                                                                           *)
(* Neither the focus rules nor Drawable is inductive alone: a handler only   *)
(* clears the focus of the active tab, which covers every focused tab by     *)
(* FocusCoherent, and only Drawable says that this tab exists.               *)

IInv == TypeOK /\ FocusCoherent /\ TextInputTracksFocus /\ Drawable

LEMMA PolledEvent ==
  ASSUME TypeOK, NEW type, Poll(type)
  PROVE  /\ queue' \in Seq(Events) /\ phase = "poll" /\ phase' = "poll"
         /\ Head(queue) \in Events
         /\ type = "wheel" => Head(queue).turn \in Int
         /\ type = "text" => Head(queue).bytes \in Nat
         /\ type = "down" /\ Head(queue).at = "tab" => Head(queue).tab \in Nat \ {0}
<1>1. queue \in Seq(Events) /\ queue # <<>>
  BY DEF TypeOK, Poll
<1>2. Head(queue) \in Events /\ Tail(queue) \in Seq(Events)
  BY <1>1, HeadTailProperties
<1>3. Head(queue).type = type
  BY DEF Poll
<1>4. type = "wheel" => Head(queue).turn \in Int
  BY <1>2, <1>3, TurnsAssumption DEF Events
<1>5. type = "text" => Head(queue).bytes \in Nat
  BY <1>2, <1>3, CharBytesAssumption DEF Events
<1>6. type = "down" /\ Head(queue).at = "tab" => Head(queue).tab \in Nat \ {0}
  <2>1. ASSUME type = "down", Head(queue).at = "tab"
        PROVE  Head(queue) \in [type : {"down"}, at : {"tab"}, tab : 1..MaxTabs]
    BY <2>1, <1>2, <1>3 DEF Events, ChromeTargets
  <2>2. MaxTabs \in Nat
    BY BoundsAssumption
  <2> QED
    BY <2>1, <2>2
<1>7. QED
  BY <1>2, <1>4, <1>5, <1>6 DEF Poll

LEMMA Initially == Init => IInv
<1> SUFFICES ASSUME Init PROVE IInv
  OBVIOUS
<1>1. /\ queue \in Seq(Events) /\ history \in Seq(Seq(Urls))
      /\ tabFocus \in Seq({"null", "live", "stale"}) /\ extent \in Seq(Extents)
  BY EmptySeq DEF Init
<1>2. TypeOK
  BY <1>1 DEF Init, TypeOK
<1>3. DOMAIN tabFocus = {}
  BY DEF Init
<1>4. FocusCoherent /\ TextInputTracksFocus /\ Drawable
  BY <1>3 DEF Init, FocusCoherent, TextInputTracksFocus, Drawable
<1>5. QED
  BY <1>2, <1>4 DEF IInv

\* Blurring the active tab leaves no tab focused.
LEMMA BlurClears ==
  ASSUME IInv, phase = "poll"
  PROVE  /\ Unfocused \in Seq({"null", "live", "stale"})
         /\ Len(Unfocused) = Len(tabFocus)
         /\ \A t \in DOMAIN Unfocused : Unfocused[t] = "null"
         /\ \A e \in BlurExtents : /\ [extent EXCEPT ![active] = e] \in Seq(Extents)
                                   /\ Len([extent EXCEPT ![active] = e]) = Len(extent)
<1>1. active \in 1..Len(tabFocus) /\ active \in 1..Len(extent)
  BY LenProperties DEF IInv, Drawable, TypeOK
<1>2. Unfocused \in Seq({"null", "live", "stale"}) /\ Len(Unfocused) = Len(tabFocus)
  BY <1>1, ExceptSeq DEF IInv, TypeOK, Unfocused
<1>3. \A t \in DOMAIN tabFocus : t # active => tabFocus[t] = "null"
  BY DEF IInv, FocusCoherent
<1>4. DOMAIN Unfocused = 1..Len(tabFocus) /\ DOMAIN tabFocus = 1..Len(tabFocus)
  BY <1>2, LenProperties DEF IInv, TypeOK
<1>5. \A t \in DOMAIN Unfocused : Unfocused[t] = "null"
  BY <1>1, <1>3, <1>4 DEF Unfocused
<1>6. BlurExtents \subseteq Extents
  BY <1>1, ElementOfSeq DEF BlurExtents, IInv, TypeOK
<1>7. \A e \in Extents : /\ [extent EXCEPT ![active] = e] \in Seq(Extents)
                         /\ Len([extent EXCEPT ![active] = e]) = Len(extent)
  BY <1>1, ExceptSeq DEF IInv, TypeOK
<1>8. QED
  BY <1>2, <1>5, <1>6, <1>7

\* Opening a tab next to tabs without focus (Browser::new_tab).
LEMMA NewTabShape ==
  ASSUME NEW u \in Urls,
         NEW f \in Seq({"null", "live", "stale"}), NEW x \in Seq(Extents),
         history \in Seq(Seq(Urls)), \A t \in DOMAIN history : history[t] # <<>>,
         Len(f) = Len(history), Len(x) = Len(history),
         \A t \in DOMAIN f : f[t] = "null",
         NewTab(u, f, x)
  PROVE  /\ history' \in Seq(Seq(Urls)) /\ active' \in DOMAIN history'
         /\ tabFocus' \in Seq({"null", "live", "stale"}) /\ extent' \in Seq(Extents)
         /\ Len(tabFocus') = Len(history') /\ Len(extent') = Len(history')
         /\ labels' = Len(history') /\ active' \in Nat /\ labels' \in Nat /\ scroll' = 0
         /\ \A t \in DOMAIN history' : history'[t] # <<>>
         /\ \A t \in DOMAIN tabFocus' : tabFocus'[t] = "null"
<1>1. PICK e \in Extents : extent' = Append(x, e)
  BY DEF NewTab
<1>2. /\ history' \in Seq(Seq(Urls)) /\ Len(history') = Len(history) + 1
      /\ \A t \in 1..Len(history) : history'[t] = history[t]
      /\ history'[Len(history) + 1] = <<u>>
  <2>1. <<u>> \in Seq(Urls)
    OBVIOUS
  <2> QED
    BY <2>1, AppendProperties DEF NewTab
<1>3. /\ tabFocus' \in Seq({"null", "live", "stale"}) /\ Len(tabFocus') = Len(f) + 1
      /\ \A t \in 1..Len(f) : tabFocus'[t] = f[t]
      /\ tabFocus'[Len(f) + 1] = "null"
  BY AppendProperties DEF NewTab
<1>4. extent' \in Seq(Extents) /\ Len(extent') = Len(x) + 1
  BY <1>1, AppendProperties
<1>5. /\ Len(history) \in Nat /\ DOMAIN history = 1..Len(history)
      /\ DOMAIN history' = 1..Len(history') /\ DOMAIN tabFocus' = 1..Len(tabFocus')
      /\ DOMAIN f = 1..Len(f)
  BY <1>2, <1>3, LenProperties
<1>6. \A t \in DOMAIN history' : history'[t] # <<>>
  <2> TAKE t \in DOMAIN history'
  <2>1. CASE t \in 1..Len(history)
    BY <2>1, <1>2, <1>5
  <2>2. CASE t = Len(history) + 1
    <3>1. <<u>> # <<>>
      OBVIOUS
    <3> QED
      BY <3>1, <2>2, <1>2
  <2> QED
    BY <2>1, <2>2, <1>2, <1>5
<1>7. \A t \in DOMAIN tabFocus' : tabFocus'[t] = "null"
  BY <1>3, <1>5
<1>8. active' \in DOMAIN history' /\ active' \in Nat /\ labels' \in Nat
      /\ labels' = Len(history') /\ scroll' = 0
  BY <1>2, <1>5 DEF NewTab, CreateLabels
<1>9. QED
  BY <1>2, <1>3, <1>4, <1>6, <1>7, <1>8

\* Loading a page into the active tab (Tab::load).
LEMMA LoadShape ==
  ASSUME IInv, phase = "poll", NEW h \in Seq(Urls), h # <<>>, LoadActive(h)
  PROVE  /\ history' \in Seq(Seq(Urls)) /\ Len(history') = Len(history)
         /\ \A t \in DOMAIN history' : history'[t] # <<>>
         /\ extent' \in Seq(Extents) /\ Len(extent') = Len(extent)
         /\ scroll' = 0 /\ active' = active /\ labels' = labels
         /\ active' \in DOMAIN history'
<1>1. active \in 1..Len(history) /\ active \in 1..Len(extent)
  BY LenProperties DEF IInv, Drawable, TypeOK
<1>2. /\ history' \in Seq(Seq(Urls)) /\ Len(history') = Len(history)
      /\ \A t \in 1..Len(history) : history'[t] = IF t = active THEN h ELSE history[t]
  BY <1>1, ExceptSeq DEF LoadActive, IInv, TypeOK
<1>3. DOMAIN history' = 1..Len(history) /\ DOMAIN history = 1..Len(history)
  BY <1>2, LenProperties DEF IInv, TypeOK
<1>4. \A t \in DOMAIN history' : history'[t] # <<>>
  BY <1>2, <1>3 DEF IInv, Drawable
<1>5. extent' \in Seq(Extents) /\ Len(extent') = Len(extent)
  BY <1>1, ExceptSeq DEF LoadActive, IInv, TypeOK
<1>6. QED
  BY <1>1, <1>2, <1>3, <1>4, <1>5 DEF LoadActive

\* Giving the active tab some focus and some height.
LEMMA FocusShape ==
  ASSUME IInv, phase = "poll", NEW f \in {"null", "live", "stale"}, NEW e \in Extents,
         tabFocus' = [tabFocus EXCEPT ![active] = f]
  PROVE  /\ tabFocus' \in Seq({"null", "live", "stale"})
         /\ Len(tabFocus') = Len(tabFocus)
         /\ active \in DOMAIN tabFocus' /\ tabFocus'[active] = f
         /\ \A t \in DOMAIN tabFocus' : t # active => tabFocus'[t] = "null"
         /\ [extent EXCEPT ![active] = e] \in Seq(Extents)
         /\ Len([extent EXCEPT ![active] = e]) = Len(extent)
<1>1. active \in 1..Len(tabFocus) /\ active \in 1..Len(extent)
  BY LenProperties DEF IInv, Drawable, TypeOK
<1>2. /\ tabFocus' \in Seq({"null", "live", "stale"}) /\ Len(tabFocus') = Len(tabFocus)
      /\ \A t \in 1..Len(tabFocus) :
           tabFocus'[t] = IF t = active THEN f ELSE tabFocus[t]
  BY <1>1, ExceptSeq DEF IInv, TypeOK
<1>3. DOMAIN tabFocus' = 1..Len(tabFocus) /\ DOMAIN tabFocus = 1..Len(tabFocus)
  BY <1>2, LenProperties DEF IInv, TypeOK
<1>4. \A t \in DOMAIN tabFocus' : t # active => tabFocus'[t] = "null"
  BY <1>2, <1>3 DEF IInv, FocusCoherent
<1>5. /\ [extent EXCEPT ![active] = e] \in Seq(Extents)
      /\ Len([extent EXCEPT ![active] = e]) = Len(extent)
  BY <1>1, ExceptSeq DEF IInv, TypeOK
<1>6. QED
  BY <1>1, <1>2, <1>3, <1>4, <1>5

\* Every step keeps the invariant, one case per action of Next.
LEMMA Preserved == IInv /\ [Next]_vars => IInv'
<1> SUFFICES ASSUME IInv, [Next]_vars PROVE IInv'
  OBVIOUS
<1> USE DEF IInv
<1>0. TypeOK
  OBVIOUS
\* What a handler's frame keeps.
<1>f. ASSUME UNCHANGED pages, UNCHANGED chrome,
             queue' \in Seq(Events), running' = running \/ running' = FALSE,
             \/ phase' \in {phase, "crashed"}
             \/ phase \in {"poll", "draw"} /\ phase' \in {"poll", "draw", "exited"}
      PROVE  IInv'
  <2>1. TypeOK'
    BY <1>f DEF TypeOK, pages, chrome
  <2>2. FocusCoherent' /\ TextInputTracksFocus'
    BY <1>f DEF FocusCoherent, TextInputTracksFocus, pages, chrome
  <2>3. Drawable'
    BY <1>f DEF Drawable, TypeOK, pages
  <2> QED
    BY <2>1, <2>2, <2>3
<1>1. CASE Launch
  <2>1. /\ tabFocus = <<>> /\ extent = <<>> /\ history = <<>> /\ Home \in Urls
        /\ NewTab(Home, tabFocus, extent)
    BY <1>1, UrlsAssumption DEF Launch, Drawable
  <2>2. DOMAIN tabFocus = {} /\ DOMAIN history = {} /\ Len(tabFocus) = Len(history)
        /\ Len(extent) = Len(history)
    BY <2>1
  <2>3. /\ history' \in Seq(Seq(Urls)) /\ active' \in DOMAIN history'
        /\ tabFocus' \in Seq({"null", "live", "stale"}) /\ extent' \in Seq(Extents)
        /\ Len(tabFocus') = Len(history') /\ Len(extent') = Len(history')
        /\ labels' = Len(history') /\ active' \in Nat /\ labels' \in Nat /\ scroll' = 0
        /\ \A t \in DOMAIN history' : history'[t] # <<>>
        /\ \A t \in DOMAIN tabFocus' : tabFocus'[t] = "null"
    BY <2>1, <2>2, NewTabShape DEF TypeOK
  <2>4. TypeOK'
    BY <1>1, <2>3 DEF Launch, TypeOK, chrome
  <2>5. \A t \in DOMAIN tabFocus : tabFocus[t] = "null"
    BY <2>2
  <2>6. FocusCoherent' /\ TextInputTracksFocus'
    BY <1>1, <2>3, <2>5 DEF Launch, FocusCoherent, TextInputTracksFocus, chrome
  <2>7. Drawable'
    BY <1>1, <2>3 DEF Launch, Drawable
  <2> QED
    BY <2>4, <2>6, <2>7
<1>2. CASE Quit
  BY <1>0, <1>2, <1>f, PolledEvent DEF Quit
<1>3. CASE Wheel
  <2>1. /\ queue' \in Seq(Events) /\ phase' = phase /\ phase = "poll"
        /\ Head(queue).turn \in Int
    BY <1>0, <1>3, PolledEvent DEF Wheel
  <2>2. active \in DOMAIN extent /\ extent[active] \in Nat
    <3>1. active \in 1..Len(extent)
      BY <2>1, LenProperties DEF Drawable, TypeOK
    <3> QED
      BY <3>1, ElementOfSeq, LenProperties, ExtentsAssumption DEF TypeOK
  <2>3. scroll' \in Nat
    BY <1>3, <2>1, <2>2 DEF Wheel, Clamped, TypeOK
  <2>4. TypeOK'
    BY <1>3, <2>1, <2>3 DEF Wheel, TypeOK, chrome
  <2>5. FocusCoherent' /\ TextInputTracksFocus' /\ Drawable'
    BY <1>3, <2>1 DEF Wheel, FocusCoherent, TextInputTracksFocus, Drawable, chrome
  <2> QED
    BY <2>4, <2>5
\* The five chrome clicks share the blur.
<1>b. ASSUME Poll("down")
      PROVE  /\ queue' \in Seq(Events) /\ phase = "poll" /\ phase' = "poll"
             /\ Head(queue).at = "tab" => Head(queue).tab \in Nat \ {0}
             /\ Unfocused \in Seq({"null", "live", "stale"})
             /\ Len(Unfocused) = Len(tabFocus)
             /\ \A t \in DOMAIN Unfocused : Unfocused[t] = "null"
             /\ \A e \in BlurExtents : /\ [extent EXCEPT ![active] = e] \in Seq(Extents)
                                       /\ Len([extent EXCEPT ![active] = e]) = Len(extent)
  BY <1>0, <1>b, PolledEvent, BlurClears
<1>4. CASE ClickAddressBar
  <2>1. Poll("down") /\ BlurActive
    BY <1>4 DEF ClickAddressBar, PressChrome
  <2>2. TypeOK'
    BY <1>4, <2>1, <1>b DEF ClickAddressBar, PressChrome, BlurActive, TypeOK
  <2>3. FocusCoherent' /\ TextInputTracksFocus'
    BY <1>4, <2>1, <1>b DEF ClickAddressBar, PressChrome, BlurActive, FocusCoherent, TextInputTracksFocus
  <2>4. Drawable'
    BY <1>4, <2>1, <1>b DEF ClickAddressBar, BlurActive, Drawable
  <2> QED
    BY <2>2, <2>3, <2>4
<1>5. CASE ClickPlus
  <2>1. Poll("down") /\ LeaveAddressBar /\ running' = running /\ address' = address
        /\ focus' = "CHROME"
    BY <1>5 DEF ClickPlus, PressChrome
  <2>2. PICK e \in BlurExtents : NewTab(NewTabUrl, Unfocused, [extent EXCEPT ![active] = e])
    BY <1>5 DEF ClickPlus
  <2>3. /\ history \in Seq(Seq(Urls)) /\ \A t \in DOMAIN history : history[t] # <<>>
        /\ Len(tabFocus) = Len(history) /\ Len(extent) = Len(history)
    BY <2>1, <1>b DEF TypeOK, Drawable
  <2>4. /\ history' \in Seq(Seq(Urls)) /\ active' \in DOMAIN history'
        /\ tabFocus' \in Seq({"null", "live", "stale"}) /\ extent' \in Seq(Extents)
        /\ Len(tabFocus') = Len(history') /\ Len(extent') = Len(history')
        /\ labels' = Len(history') /\ active' \in Nat /\ labels' \in Nat /\ scroll' = 0
        /\ \A t \in DOMAIN history' : history'[t] # <<>>
        /\ \A t \in DOMAIN tabFocus' : tabFocus'[t] = "null"
    BY <2>1, <2>2, <2>3, <1>b, UrlsAssumption, NewTabShape
  <2>5. TypeOK'
    BY <2>1, <2>4, <1>b DEF LeaveAddressBar, TypeOK
  <2>6. FocusCoherent' /\ TextInputTracksFocus'
    BY <2>1, <2>4 DEF LeaveAddressBar, FocusCoherent, TextInputTracksFocus
  <2>7. Drawable'
    BY <2>1, <2>4, <1>b DEF Drawable
  <2> QED
    BY <2>5, <2>6, <2>7
<1>6. CASE ClickBack
  <2>1. /\ Poll("down") /\ LeaveAddressBar /\ running' = running /\ address' = address
        /\ focus' = "CHROME"
    BY <1>6 DEF ClickBack, PressChrome
  <2>2. CASE /\ Len(history[active]) > 1 /\ LoadActive(AfterGoBack(history[active]))
             /\ tabFocus' = Unfocused
    <3>1. history[active] \in Seq(Urls)
      BY <2>1, <1>b, ElementOfSeq, LenProperties DEF Drawable, TypeOK
    <3>2. AfterGoBack(history[active]) = Front(history[active])
      BY <3>1, <2>2, GoBackIsFront
    <3>3. Front(history[active]) \in Seq(Urls) /\ Front(history[active]) # <<>>
      BY <3>1, <2>2, FrontProperties, LenProperties
    <3>4. /\ history' \in Seq(Seq(Urls)) /\ Len(history') = Len(history)
          /\ \A t \in DOMAIN history' : history'[t] # <<>>
          /\ extent' \in Seq(Extents) /\ Len(extent') = Len(extent)
          /\ scroll' = 0 /\ active' = active /\ labels' = labels
          /\ active' \in DOMAIN history'
      BY <2>1, <2>2, <3>2, <3>3, <1>b, LoadShape
    <3>5. TypeOK'
      BY <2>1, <2>2, <3>4, <1>b DEF LeaveAddressBar, TypeOK
    <3>6. FocusCoherent' /\ TextInputTracksFocus'
      BY <2>1, <2>2, <1>b DEF LeaveAddressBar, FocusCoherent, TextInputTracksFocus
    <3>7. Drawable'
      BY <2>1, <2>2, <3>4, <1>b DEF Drawable
    <3> QED
      BY <3>5, <3>6, <3>7
  <2>3. CASE BlurActive /\ UNCHANGED <<history, active, scroll, labels>>
    <3>1. TypeOK'
      BY <2>1, <2>3, <1>b DEF BlurActive, LeaveAddressBar, TypeOK
    <3>2. FocusCoherent' /\ TextInputTracksFocus'
      BY <2>1, <2>3, <1>b DEF BlurActive, LeaveAddressBar, FocusCoherent, TextInputTracksFocus
    <3>3. Drawable'
      BY <2>1, <2>3, <1>b DEF BlurActive, Drawable
    <3> QED
      BY <3>1, <3>2, <3>3
  <2> QED
    BY <1>6, <2>2, <2>3 DEF ClickBack
<1>7. CASE ClickTab
  <2>1. /\ Poll("down") /\ Head(queue).at = "tab" /\ BlurActive /\ LeaveAddressBar
        /\ running' = running /\ address' = address /\ focus' = "CHROME"
    BY <1>7 DEF ClickTab, PressChrome
  <2>2. active' \in DOMAIN history /\ active' \in Nat
    BY <1>7, <2>1, <1>b, LenProperties DEF ClickTab, Drawable, TypeOK
  <2>3. TypeOK'
    BY <1>7, <2>1, <2>2, <1>b DEF ClickTab, BlurActive, LeaveAddressBar, TypeOK
  <2>4. FocusCoherent' /\ TextInputTracksFocus'
    BY <2>1, <1>b DEF BlurActive, LeaveAddressBar, FocusCoherent, TextInputTracksFocus
  <2>5. Drawable'
    BY <1>7, <2>1, <2>2, <1>b DEF ClickTab, BlurActive, Drawable
  <2> QED
    BY <2>3, <2>4, <2>5
<1>8. CASE ClickBar
  <2>1. /\ Poll("down") /\ BlurActive /\ LeaveAddressBar
        /\ running' = running /\ address' = address /\ focus' = "CHROME"
        /\ UNCHANGED <<history, active, scroll, labels>>
    BY <1>8 DEF ClickBar, PressChrome
  <2>2. TypeOK'
    BY <2>1, <1>b DEF BlurActive, LeaveAddressBar, TypeOK
  <2>3. FocusCoherent' /\ TextInputTracksFocus'
    BY <2>1, <1>b DEF BlurActive, LeaveAddressBar, FocusCoherent, TextInputTracksFocus
  <2>4. Drawable'
    BY <2>1, <1>b DEF BlurActive, Drawable
  <2> QED
    BY <2>2, <2>3, <2>4
<1>9. CASE ClickContent
  <2>1. /\ Poll("down") /\ focus' = "CONTENT" /\ chromeFocus' = "NONE"
        /\ running' = running /\ address' = address
    BY <1>9 DEF ClickContent
  <2>2. PICK o \in ClickOutcomes :
          /\ tabFocus' = [tabFocus EXCEPT ![active] = o.focus]
          /\ textInput' = (o.focus # "null")
          /\ \/ o.loads /\ \E u \in Urls : LoadActive(Append(history[active], u))
             \/ /\ ~o.loads
                /\ \E e \in Extents : extent' = [extent EXCEPT ![active] = e]
                /\ UNCHANGED <<history, active, scroll, labels>>
    BY <1>9 DEF ClickContent
  <2>3. o.focus \in {"null", "live", "stale"}
    BY DEF ClickOutcomes
  <2>4. PICK e \in Extents : extent' = [extent EXCEPT ![active] = e]
    BY <2>2 DEF LoadActive
  <2>5. /\ tabFocus' \in Seq({"null", "live", "stale"})
        /\ Len(tabFocus') = Len(tabFocus)
        /\ active \in DOMAIN tabFocus' /\ tabFocus'[active] = o.focus
        /\ \A t \in DOMAIN tabFocus' : t # active => tabFocus'[t] = "null"
        /\ extent' \in Seq(Extents) /\ Len(extent') = Len(extent)
    BY <2>1, <2>2, <2>3, <2>4, <1>b, FocusShape
  <2>6. /\ history' \in Seq(Seq(Urls)) /\ Len(history') = Len(history)
        /\ \A t \in DOMAIN history' : history'[t] # <<>>
        /\ scroll' \in Nat /\ active' = active /\ labels' = labels
        /\ active' \in DOMAIN history'
    <3>1. CASE \E u \in Urls : LoadActive(Append(history[active], u))
      <4>1. PICK u \in Urls : LoadActive(Append(history[active], u))
        BY <3>1
      <4>2. history[active] \in Seq(Urls)
        BY <2>1, <1>b, ElementOfSeq, LenProperties DEF Drawable, TypeOK
      <4>3. Append(history[active], u) \in Seq(Urls) /\ Append(history[active], u) # <<>>
        BY <4>2, AppendProperties
      <4>4. /\ history' \in Seq(Seq(Urls)) /\ Len(history') = Len(history)
            /\ \A t \in DOMAIN history' : history'[t] # <<>>
            /\ scroll' = 0 /\ active' = active /\ labels' = labels
            /\ active' \in DOMAIN history'
        BY <2>1, <4>1, <4>3, <1>b, LoadShape
      <4> QED
        BY <4>4
    <3>2. CASE UNCHANGED <<history, active, scroll, labels>>
      BY <2>1, <3>2, <1>b DEF Drawable, TypeOK
    <3> QED
      BY <2>2, <3>1, <3>2
  <2>7. TypeOK'
    BY <2>1, <2>2, <2>5, <2>6, <1>b DEF TypeOK
  <2>8. FocusCoherent' /\ TextInputTracksFocus'
    BY <2>1, <2>2, <2>5, <2>6 DEF FocusCoherent, TextInputTracksFocus
  <2>9. Drawable'
    BY <2>1, <2>5, <2>6, <1>b DEF Drawable
  <2> QED
    BY <2>7, <2>8, <2>9
<1>10. CASE KeyInAddressBar
  <2>1. /\ queue' \in Seq(Events) /\ phase = "poll" /\ phase' = "poll"
        /\ running' = running /\ focus' = focus
        /\ focus = "CHROME" /\ chromeFocus = "ADDRESS_BAR"
    BY <1>0, <1>10, PolledEvent DEF KeyInAddressBar
  <2>2. \A t \in DOMAIN tabFocus : tabFocus[t] = "null"
    BY <2>1 DEF FocusCoherent
  <2>3. CASE LeaveAddressBar /\ UNCHANGED <<address, pages>>
    BY <2>1, <2>2, <2>3
       DEF LeaveAddressBar, pages, TypeOK, FocusCoherent, TextInputTracksFocus, Drawable
  <2>4. CASE /\ address' = (IF address > 0 THEN address - 1 ELSE 0)
             /\ UNCHANGED <<chromeFocus, textInput, pages>>
    BY <2>1, <2>4 DEF pages, TypeOK, FocusCoherent, TextInputTracksFocus, Drawable
  <2>5. CASE /\ LeaveAddressBar /\ UNCHANGED <<address, tabFocus>>
             /\ \E u \in Urls : LoadActive(Append(history[active], u))
    <3>1. PICK u \in Urls : LoadActive(Append(history[active], u))
      BY <2>5
    <3>2. history[active] \in Seq(Urls)
      BY <2>1, ElementOfSeq, LenProperties DEF Drawable, TypeOK
    <3>3. Append(history[active], u) \in Seq(Urls) /\ Append(history[active], u) # <<>>
      BY <3>2, AppendProperties
    <3>4. /\ history' \in Seq(Seq(Urls)) /\ Len(history') = Len(history)
          /\ \A t \in DOMAIN history' : history'[t] # <<>>
          /\ extent' \in Seq(Extents) /\ Len(extent') = Len(extent)
          /\ scroll' = 0 /\ active' = active /\ labels' = labels
          /\ active' \in DOMAIN history'
      BY <2>1, <3>1, <3>3, LoadShape
    <3>5. TypeOK'
      BY <2>1, <2>5, <3>4 DEF LeaveAddressBar, TypeOK
    <3>6. FocusCoherent' /\ TextInputTracksFocus'
      BY <2>2, <2>5 DEF LeaveAddressBar, FocusCoherent, TextInputTracksFocus
    <3>7. Drawable'
      BY <2>1, <2>5, <3>4 DEF Drawable
    <3> QED
      BY <3>5, <3>6, <3>7
  <2> QED
    BY <1>10, <2>3, <2>4, <2>5 DEF KeyInAddressBar
\* A field edit keeps "some field is focused".
<1>e. ASSUME queue' \in Seq(Events), phase = "poll", phase' = "poll",
             focus = "CONTENT", tabFocus[active] # "null", EditField
      PROVE  IInv'
  <2>1. PICK f \in AfterScripts(tabFocus[active]) :
          tabFocus' = [tabFocus EXCEPT ![active] = f]
    BY <1>e DEF EditField
  <2>2. PICK e \in Extents : extent' = [extent EXCEPT ![active] = e]
    BY <1>e DEF EditField
  <2>3. active \in DOMAIN tabFocus /\ tabFocus[active] \in {"live", "stale"}
    <3>1. active \in 1..Len(tabFocus)
      BY <1>e, LenProperties DEF Drawable, TypeOK
    <3> QED
      BY <3>1, <1>e, ElementOfSeq, LenProperties DEF TypeOK
  <2>4. f \in {"live", "stale"}
    BY <2>3 DEF AfterScripts
  <2>5. /\ tabFocus' \in Seq({"null", "live", "stale"})
        /\ Len(tabFocus') = Len(tabFocus)
        /\ active \in DOMAIN tabFocus' /\ tabFocus'[active] = f
        /\ \A t \in DOMAIN tabFocus' : t # active => tabFocus'[t] = "null"
        /\ extent' \in Seq(Extents) /\ Len(extent') = Len(extent)
    BY <1>e, <2>1, <2>2, <2>4, FocusShape
  <2>6. TypeOK'
    BY <1>e, <2>5 DEF EditField, TypeOK, chrome
  <2>7. FocusCoherent' /\ TextInputTracksFocus'
    BY <1>e, <2>3, <2>4, <2>5 DEF EditField, FocusCoherent, TextInputTracksFocus, chrome
  <2>8. Drawable'
    BY <1>e, <2>5 DEF EditField, Drawable
  <2> QED
    BY <2>6, <2>7, <2>8
<1>11. CASE KeyInPage
  BY <1>0, <1>11, <1>e, PolledEvent DEF KeyInPage
<1>12. CASE KeyIgnored
  BY <1>0, <1>12, <1>f, PolledEvent DEF KeyIgnored, TypeOK
<1>13. CASE TextInAddressBar
  <2>1. /\ queue' \in Seq(Events) /\ phase = "poll" /\ phase' = "poll"
        /\ Head(queue).bytes \in Nat
    BY <1>0, <1>13, PolledEvent DEF TextInAddressBar
  <2> QED
    BY <1>13, <2>1
       DEF TextInAddressBar, pages, TypeOK, FocusCoherent, TextInputTracksFocus, Drawable
<1>14. CASE TextInPage
  BY <1>0, <1>14, <1>e, PolledEvent DEF TextInPage
<1>15. CASE TextIgnored
  BY <1>0, <1>15, <1>f, PolledEvent DEF TextIgnored, TypeOK
<1>16. CASE EndPoll
  BY <1>16, <1>f DEF EndPoll, TypeOK
<1>17. CASE Draw
  BY <1>17, <1>f DEF Draw, TypeOK
<1>18. CASE Crash
  <2>1. /\ UNCHANGED pages /\ UNCHANGED chrome /\ phase' = "crashed"
        /\ queue' = queue /\ running' = running
    BY <1>18 DEF Crash
  <2>2. queue' \in Seq(Events) /\ phase' \in {phase, "crashed"}
        /\ (running' = running \/ running' = FALSE)
    BY <2>1 DEF TypeOK
  <2> QED
    BY <2>1, <2>2, <1>f
<1>19. CASE \E e \in Events : Post(e)
  <2>1. PICK e \in Events : Post(e)
    BY <1>19
  <2>2. queue' \in Seq(Events)
    BY <2>1, AppendProperties DEF Post, TypeOK
  <2>3. /\ UNCHANGED pages /\ UNCHANGED chrome /\ phase' = phase /\ running' = running
    BY <2>1 DEF Post
  <2> QED
    BY <2>2, <2>3, <1>f
<1>20. CASE UNCHANGED vars
  <2>1. /\ UNCHANGED pages /\ UNCHANGED chrome /\ phase' = phase /\ running' = running
        /\ queue' = queue
    BY <1>20 DEF vars
  <2>2. queue' \in Seq(Events) /\ phase' \in {phase, "crashed"}
        /\ (running' = running \/ running' = FALSE)
    BY <2>1 DEF TypeOK
  <2> QED
    BY <2>1, <2>2, <1>f
<1>21. QED
  BY <1>1, <1>2, <1>3, <1>4, <1>5, <1>6, <1>7, <1>8, <1>9, <1>10, <1>11, <1>12,
     <1>13, <1>14, <1>15, <1>16, <1>17, <1>18, <1>19, <1>20 DEF Next, Step

\* Every variable keeps its type and the scroll offset is never negative.
THEOREM TypeCorrect == Spec => []TypeOK
<1>1. IInv => TypeOK
  BY DEF IInv
<1> QED
  BY Initially, Preserved, <1>1, PTL DEF Spec

\* The focuses of Browser, Chrome and the tabs never contradict each other
\* (Browser::click, Chrome::blur, Tab::blur and the handlers of the loop).
THEOREM FocusIsCoherent == Spec => []FocusCoherent
<1>1. IInv => FocusCoherent
  BY DEF IInv
<1> QED
  BY Initially, Preserved, <1>1, PTL DEF Spec

\* SDL_StartTextInput and SDL_StopTextInput balance: text arrives exactly when
\* the address bar or a field of a page has the focus.
THEOREM TextInputIsBalanced == Spec => []TextInputTracksFocus
<1>1. IInv => TextInputTracksFocus
  BY DEF IInv
<1> QED
  BY Initially, Preserved, <1>1, PTL DEF Spec

\* Everything the drawing code indexes is there whenever it draws.
THEOREM AlwaysDrawable == Spec => []Drawable
<1>1. IInv => Drawable
  BY DEF IInv
<1> QED
  BY Initially, Preserved, <1>1, PTL DEF Spec

-----------------------------------------------------------------------------
(* Chrome and tabs implement TabHistories                                    *)

LEMMA StepIsTabStep == IInv /\ [Next]_vars => [Tabs!Next]_(Tabs!vars)
<1> SUFFICES ASSUME IInv, [Next]_vars PROVE [Tabs!Next]_(Tabs!vars)
  OBVIOUS
<1> USE DEF Tabs!vars
<1>0. TypeOK
  BY DEF IInv
<1>s. ASSUME UNCHANGED <<history, active>> PROVE [Tabs!Next]_(Tabs!vars)
  BY <1>s
<1>p. ASSUME NEW type, Poll(type)
      PROVE  /\ active \in DOMAIN history /\ history[active] \in Seq(Urls)
             /\ type = "down" /\ Head(queue).at = "tab" => Head(queue).tab \in Nat \ {0}
  <2>1. active \in DOMAIN history
    BY <1>p, PolledEvent DEF IInv, Drawable
  <2>2. history[active] \in Seq(Urls)
    BY <2>1, ElementOfSeq, LenProperties DEF IInv, TypeOK
  <2> QED
    BY <2>1, <2>2, <1>0, <1>p, PolledEvent
<1>v. ASSUME NEW u \in Urls, active \in DOMAIN history, LoadActive(Append(history[active], u))
      PROVE  Tabs!Next
  <2>1. Tabs!Visit(u)
    BY <1>v DEF LoadActive, Tabs!Visit
  <2> QED
    BY <2>1 DEF Tabs!Next
<1>1. CASE Launch
  <2>1. Tabs!Open(Home)
    BY <1>1 DEF Launch, NewTab, Tabs!Open
  <2> QED
    BY <2>1, UrlsAssumption DEF Tabs!Next
<1>2. CASE ClickPlus
  <2>1. Tabs!Open(NewTabUrl)
    BY <1>2 DEF ClickPlus, NewTab, Tabs!Open
  <2> QED
    BY <2>1, UrlsAssumption DEF Tabs!Next
<1>3. CASE ClickBack
  <2>1. active \in DOMAIN history /\ history[active] \in Seq(Urls)
    BY <1>3, <1>p DEF ClickBack, PressChrome
  <2>2. CASE Len(history[active]) > 1 /\ LoadActive(AfterGoBack(history[active]))
    <3>1. AfterGoBack(history[active]) = Front(history[active])
      BY <2>1, <2>2, GoBackIsFront
    <3>2. Tabs!Back
      BY <2>1, <2>2, <3>1 DEF LoadActive, Tabs!Back, Tabs!Front, Front
    <3> QED
      BY <3>2 DEF Tabs!Next
  <2>3. CASE UNCHANGED <<history, active, scroll, labels>>
    BY <2>3
  <2> QED
    BY <1>3, <2>2, <2>3 DEF ClickBack
<1>4. CASE ClickTab
  <2>1. /\ active \in DOMAIN history /\ history' = history
        /\ active' = IF Head(queue).tab <= Len(history) THEN Head(queue).tab ELSE active
        /\ Head(queue).tab \in Nat \ {0}
    BY <1>4, <1>p DEF ClickTab, PressChrome
  <2>2. active' \in DOMAIN history
    BY <2>1, LenProperties DEF IInv, TypeOK
  <2>3. Tabs!Switch(active')
    BY <2>1, <2>2 DEF Tabs!Switch
  <2> QED
    BY <2>2, <2>3 DEF Tabs!Next
<1>5. CASE ClickContent
  <2>1. active \in DOMAIN history
    BY <1>5, <1>p DEF ClickContent
  <2>2. CASE \E u \in Urls : LoadActive(Append(history[active], u))
    BY <2>1, <2>2, <1>v
  <2>3. CASE UNCHANGED <<history, active, scroll, labels>>
    BY <2>3
  <2> QED
    BY <1>5, <2>2, <2>3 DEF ClickContent
<1>6. CASE KeyInAddressBar
  <2>1. active \in DOMAIN history
    BY <1>6, <1>p DEF KeyInAddressBar
  <2>2. CASE \E u \in Urls : LoadActive(Append(history[active], u))
    BY <2>1, <2>2, <1>v
  <2>3. CASE UNCHANGED pages
    BY <2>3 DEF pages
  <2> QED
    BY <1>6, <2>2, <2>3 DEF KeyInAddressBar
<1>7. CASE Quit \/ KeyIgnored \/ TextIgnored \/ TextInAddressBar \/ EndPoll \/ Draw
  BY <1>7 DEF Quit, KeyIgnored, TextIgnored, TextInAddressBar, EndPoll, Draw, pages
<1>8. CASE Wheel \/ ClickAddressBar \/ ClickBar
  BY <1>8 DEF Wheel, ClickAddressBar, ClickBar
<1>9. CASE KeyInPage \/ TextInPage
  BY <1>9 DEF KeyInPage, TextInPage, EditField
<1>10. CASE Crash
  BY <1>10 DEF Crash, pages
<1>11. CASE \E e \in Events : Post(e)
  BY <1>11 DEF Post, pages
<1>12. CASE UNCHANGED vars
  BY <1>12 DEF vars, pages
<1>13. QED
  BY <1>1, <1>2, <1>3, <1>4, <1>5, <1>6, <1>7, <1>8, <1>9, <1>10, <1>11, <1>12
     DEF Next, Step

\* The back button undoes one visit: the window implements TabHistories.
THEOREM BackUndoes == Spec => BackIsUndo
<1>1. Init => Tabs!Init
  BY DEF Init, Tabs!Init
<1>2. QED
  BY <1>1, Initially, Preserved, StepIsTabStep, PTL DEF Spec, BackIsUndo, Tabs!Spec

-----------------------------------------------------------------------------
(* The view and the page                                                     *)

ViewStep == InView /\ ~InView' =>
              \/ active' # active
              \/ history' = history /\ extent'[active] < extent[active]

LEMMA ViewStepHolds == IInv /\ [Next]_vars => ViewStep
<1> SUFFICES ASSUME IInv, [Next]_vars, InView, ~InView', active' = active
             PROVE  history' = history /\ extent'[active] < extent[active]
  BY DEF ViewStep
<1>0. TypeOK
  BY DEF IInv
<1>1. active \in DOMAIN extent' /\ ~(scroll' <= extent'[active])
  BY DEF InView
<1>2. IInv'
  BY Preserved
<1>3. /\ extent' \in Seq(Extents) /\ extent \in Seq(Extents) /\ scroll' \in Nat
      /\ scroll \in Nat
  BY <1>2 DEF IInv, TypeOK
<1>4. extent'[active] \in Nat
  BY <1>1, <1>3, ElementOfSeq, LenProperties, ExtentsAssumption
<1>5. scroll' # 0
  BY <1>1, <1>4
\* A step that leaves both the offset and the history alone.
<1>k. ASSUME scroll' = scroll, history' = history, phase = "poll"
      PROVE  history' = history /\ extent'[active] < extent[active]
  <2>1. active \in DOMAIN extent
    BY <1>k, LenProperties DEF IInv, Drawable, TypeOK
  <2>2. extent[active] \in Nat
    BY <2>1, <1>3, ElementOfSeq, LenProperties, ExtentsAssumption
  <2>3. scroll <= extent[active]
    BY <2>1 DEF InView
  <2> QED
    BY <1>1, <1>3, <1>4, <1>k, <2>2, <2>3
\* A step that leaves everything InView mentions alone.
<1>u. ASSUME UNCHANGED <<active, extent, scroll>> PROVE FALSE
  BY <1>u DEF InView
<1>6. CASE Launch \/ ClickPlus
  BY <1>5, <1>6 DEF Launch, ClickPlus, NewTab
<1>7. CASE Wheel
  <2>1. /\ UNCHANGED <<active, extent>> /\ scroll' = Clamped(scroll - Head(queue).turn, extent[active])
        /\ Head(queue).turn \in Int
    BY <1>0, <1>7, PolledEvent DEF Wheel
  <2>2. extent[active] \in Nat
    BY <2>1, <1>4
  <2>3. scroll' <= extent[active]
    BY <2>1, <2>2, <1>3 DEF Clamped
  <2> QED
    BY <1>1, <2>1, <2>3
<1>8. CASE ClickBack
  BY <1>0, <1>5, <1>8, <1>k, PolledEvent DEF ClickBack, PressChrome, LoadActive
<1>9. CASE ClickAddressBar \/ ClickTab \/ ClickBar
  BY <1>0, <1>9, <1>k, PolledEvent DEF ClickAddressBar, ClickTab, ClickBar, PressChrome
<1>10. CASE ClickContent
  BY <1>0, <1>5, <1>10, <1>k, PolledEvent DEF ClickContent, LoadActive
<1>11. CASE KeyInAddressBar
  BY <1>5, <1>11, <1>u DEF KeyInAddressBar, LoadActive, pages
<1>12. CASE KeyInPage \/ TextInPage
  BY <1>0, <1>12, <1>k, PolledEvent DEF KeyInPage, TextInPage, EditField
<1>13. CASE Quit \/ KeyIgnored \/ TextIgnored \/ TextInAddressBar \/ EndPoll \/ Draw
  BY <1>13, <1>u DEF Quit, KeyIgnored, TextIgnored, TextInAddressBar, EndPoll, Draw, pages
<1>14. CASE Crash
  BY <1>14, <1>u DEF Crash, pages
<1>15. CASE \E e \in Events : Post(e)
  BY <1>15, <1>u DEF Post, pages
<1>16. CASE UNCHANGED vars
  BY <1>16, <1>u DEF vars, pages
<1>17. QED
  BY <1>6, <1>7, <1>8, <1>9, <1>10, <1>11, <1>12, <1>13, <1>14, <1>15, <1>16 DEF Next, Step

\* Loads and wheel turns keep the view on the page; only a switch of tabs or a
\* shorter rendering of the same page can leave it beyond the end.
THEOREM ViewStaysOnPage == Spec => ViewLeavesPageOnlyBySwitch
<1>1. IInv /\ [Next]_vars
        => [InView /\ ~InView' =>
              \/ active' # active
              \/ history' = history /\ extent'[active] < extent[active]]_vars
  BY ViewStepHolds DEF ViewStep
<1> QED
  BY <1>1, Initially, Preserved, PTL DEF Spec, ViewLeavesPageOnlyBySwitch

-----------------------------------------------------------------------------
(* The wire *)

Clients == {"opening", "asking", "connecting", "writing", "reading", "got", "failed", "gone"}
Open == {"stream", "message"}
Servers == {"line", "headers", "body", "answering", "closed", "hung", "exited"}

\* Read from the buffer so far.
Consumed == fetched - cnt

Typed ==
  /\ client \in Clients /\ server \in Servers /\ reset \in BOOLEAN
  /\ sent \in Nat /\ taken \in Nat /\ chunk \in Nat /\ answer \in Nat
  /\ fetched \in Nat /\ bufptr \in Nat /\ cnt \in Nat
  /\ got \in Nat /\ pieces \in Nat /\ replied \in Nat
  /\ left \in Nat /\ own \in BOOLEAN /\ urls \in Nat /\ plain \in Nat
  /\ begun \in Nat /\ served \in Nat
  /\ head \in Seq(Nat)
  /\ buffer \in [0..(BufSize - 1) -> Nat] /\ body \in [0..(BodyLen - 1) -> Nat]

\* What rio_read has buffered is the next of the request, and lies in the buffer.
Buffered ==
  /\ cnt <= fetched /\ fetched <= sent /\ bufptr + cnt <= BufSize
  /\ \A i \in 0..(cnt - 1) : buffer[bufptr + i] = Consumed + i + 1

\* Where the server stands tells how much it has taken out of the buffer.
Progress ==
  /\ Consumed = Len(head) + got
  /\ server \in {"line", "headers"} => Len(head) < HeadLen /\ got = 0 /\ pieces = 0
  /\ server \in {"body", "answering"} => Len(head) = HeadLen /\ got <= BodyLen
  /\ server = "answering" => got = BodyLen

HeadRead == \A i \in 1..Len(head) : head[i] = i

\* A body rio_readnp has got in one piece is right as far as it got.
BodyPiece ==
  server \in {"body", "answering"} =>
    /\ pieces = 0 => got = 0
    /\ pieces = 1 => \A i \in 0..(got - 1) : body[i] = HeadLen + i + 1

\* http_readn has counted what it read, and an answer of a server that closed in
\* order was written to its end.
Answered ==
  /\ answer + chunk = taken /\ taken <= replied
  /\ server = "closed" => replied = AnswerLen
  /\ reset => server = "exited"
  /\ client = "got" /\ fd = "stream" => server \in {"closed", "exited"}
  /\ client = "got" /\ server = "closed" => answer = AnswerLen

\* Without a stream nothing reaches the server.
Streams == fd # "stream" => sent = 0 /\ server \in {"line", "exited"}

\* A request that has no plain socket yet has one to gain, and has its URL's until
\* then; one that reads has one.
Holding ==
  /\ served <= plain /\ plain <= begun
  /\ plain < Descriptors /\ Held <= Descriptors
  /\ client \in {"opening", "asking", "connecting"} => plain < begun /\ fd \notin Open
  /\ client \in {"asking", "connecting"} => own
  /\ client = "reading" => fd \in Open
  /\ client \in {"writing", "reading"} /\ fd \in Open => served < plain

Kept ==
  Typed /\ Buffered /\ Progress /\ HeadRead /\ BodyPiece /\ Answered /\ Streams /\ Holding

-----------------------------------------------------------------------------
(* Facts the steps share *)

LEMMA Lengths ==
  /\ LineLen \in Nat /\ HeadLen \in Nat /\ BodyLen \in Nat /\ AnswerLen \in Nat
  /\ BufSize \in Nat /\ ChunkSize \in Nat /\ PipeSize \in Nat
  /\ LineLen # 0 /\ HeadLen # 0 /\ BodyLen # 0 /\ BufSize # 0 /\ ChunkSize # 0
  /\ AnswerLen # 0 /\ LineLen < HeadLen
  /\ MaxAddresses \in Nat /\ Descriptors \in Nat /\ Descriptors # 0
BY LengthsAssumption

\* Min of two numbers is one of them and none is smaller.
LEMMA MinOfTwo ==
  ASSUME NEW a \in Nat, NEW b \in Nat
  PROVE  Min({a, b}) \in Nat /\ Min({a, b}) <= a /\ Min({a, b}) <= b
                             /\ (a # 0 /\ b # 0 => Min({a, b}) # 0)
<1>1. \E x \in {a, b} : \A y \in {a, b} : x <= y
  <2>1. CASE a <= b
    BY <2>1
  <2>2. CASE ~(a <= b)
    BY <2>2
  <2>3. QED
    BY <2>1, <2>2
<1>2. Min({a, b}) \in {a, b} /\ \A y \in {a, b} : Min({a, b}) <= y
  BY <1>1 DEF Min
<1>3. QED
  BY <1>2

LEMMA InitKept == ExchangeInit => Kept
<1> SUFFICES ASSUME ExchangeInit PROVE Kept
  OBVIOUS
<1>1. <<>> \in Seq(Nat) /\ Len(<<>>) = 0
  OBVIOUS
<1>2. Typed
  BY <1>1, Lengths DEF ExchangeInit, Typed, Clients, Servers
<1>3. Buffered
  BY Lengths DEF ExchangeInit, Buffered
<1>4. Progress /\ HeadRead /\ BodyPiece
  BY <1>1, Lengths DEF ExchangeInit, Progress, Consumed, HeadRead, BodyPiece
<1>5. Answered /\ Streams /\ Holding
  BY Lengths DEF ExchangeInit, Answered, Streams, Holding, Held, Open
<1>6. QED
  BY <1>2, <1>3, <1>4, <1>5 DEF Kept

\* What the server has read is out of reach of the browser's steps.
LEMMA ServerKept ==
  ASSUME Kept, UNCHANGED <<server, rioVars, head, body, got, pieces>>, sent' \in Nat,
         sent <= sent'
  PROVE  Buffered' /\ Progress' /\ HeadRead' /\ BodyPiece'
<1>1. /\ UNCHANGED <<server, head, body, got, pieces>>
      /\ UNCHANGED <<fetched, buffer, bufptr, cnt>>
  BY DEF rioVars
<1>2. Buffered'
  BY <1>1 DEF Kept, Typed, Buffered, Consumed
<1>3. Progress'
  BY <1>1 DEF Kept, Progress, Consumed
<1>4. HeadRead' /\ BodyPiece'
  BY <1>1 DEF Kept, HeadRead, BodyPiece
<1>5. QED
  BY <1>2, <1>3, <1>4

-----------------------------------------------------------------------------
(* The browser's steps *)

\* Before there is a socket nothing was sent, and Streams asks for no more.
LEMMA StreamsKept ==
  ASSUME Kept, UNCHANGED <<sent, server>>, fd' = fd \/ fd # "stream"
  PROVE  Streams'
BY DEF Kept, Streams

LEMMA BrowseKept ==
  ASSUME Kept, Construct \/ Browse \/ Refused \/ ClientDies
  PROVE  Kept'
<1>1. UNCHANGED serverVars
  BY DEF Construct, Browse, Resolve, TryAddress, NoneConnected, Write, WriteMessage,
     WriteFails, Read, ReadEnd, ReadFails, Refused, ClientDies
<1>2. /\ UNCHANGED <<server, rioVars, head, body, got, pieces>>
      /\ UNCHANGED <<server, fetched, buffer, bufptr, cnt, head, body, got, pieces, replied, reset>>
  BY <1>1 DEF serverVars, rioVars
<1>3. /\ sent \in Nat /\ taken \in Nat /\ chunk \in Nat /\ answer \in Nat /\ replied \in Nat
      /\ fetched \in Nat /\ client \in Clients /\ server \in Servers
      /\ left \in Nat /\ own \in BOOLEAN /\ urls \in Nat /\ plain \in Nat
      /\ begun \in Nat /\ served \in Nat /\ Descriptors \in Nat
  BY Lengths DEF Kept, Typed
<1>4. RequestLen \in Nat
  BY Lengths DEF RequestLen
<1>h. Holding
  BY DEF Kept
<1>5. ASSUME client' \in Clients, sent' \in Nat, sent <= sent', taken' \in Nat,
             chunk' \in Nat, answer' \in Nat, left' \in Nat, own' \in BOOLEAN,
             urls' \in Nat, plain' \in Nat, begun' \in Nat, served' \in Nat,
             Answered', Streams', Holding'
      PROVE  Kept'
  <2>1. Typed'
    BY <1>2, <1>5 DEF Kept, Typed
  <2>2. Buffered' /\ Progress' /\ HeadRead' /\ BodyPiece'
    BY <1>2, <1>5, ServerKept
  <2>3. QED
    BY <1>5, <2>1, <2>2 DEF Kept
\* A step that only moves the browser on, not to a response.
<1>6. ASSUME UNCHANGED ioVars, client' \in Clients \ {"got"}, fd' = fd \/ fd # "stream",
             left' \in Nat, own' \in BOOLEAN, urls' \in Nat, plain' \in Nat,
             begun' \in Nat, served' \in Nat, Holding'
      PROVE  Kept'
  <2>1. UNCHANGED <<sent, taken, chunk, answer>>
    BY <1>6 DEF ioVars
  <2>2. Answered'
    BY <1>2, <1>6, <2>1 DEF Kept, Answered
  <2>3. Streams'
    BY <1>2, <1>6, <2>1, StreamsKept
  <2>4. QED
    BY <1>3, <1>5, <1>6, <2>1, <2>2, <2>3
<1>a. CASE Construct
  <2>1. /\ client = "opening" /\ UNCHANGED <<left, fd, urls, plain, begun, served, ioVars>>
        /\ \/ client' = "failed" /\ UNCHANGED own
           \/ Held < Descriptors /\ own' = TRUE /\ client' = "asking"
    BY <1>a DEF Construct
  <2>2. Holding'
    BY <1>3, <1>h, <2>1 DEF Holding, Held
  <2>3. QED
    BY <1>3, <1>6, <2>1, <2>2 DEF Clients
<1>7. CASE Resolve
  <2>1. /\ client = "asking" /\ client' \in {"failed", "connecting"}
        /\ UNCHANGED <<fd, own, urls, plain, begun, served, ioVars>>
    BY <1>7 DEF Resolve
  <2>2. left' \in Nat
    BY <1>3, <1>7, Lengths DEF Resolve
  <2>3. Holding'
    BY <1>h, <2>1 DEF Holding, Held
  <2>4. QED
    BY <1>3, <1>6, <2>1, <2>2, <2>3 DEF Clients
<1>8. CASE TryAddress
  <2>1. /\ client = "connecting" /\ left > 0 /\ UNCHANGED <<urls, begun, served, ioVars>>
        /\ \/ fd' \in {"none", "closed"} /\ left' = left - 1 /\ UNCHANGED <<client, own, plain>>
           \/ /\ Held < Descriptors /\ fd' \in Open /\ plain' = plain + 1 /\ left' = 0
              /\ own' = FALSE /\ client' = "writing"
    BY <1>8 DEF TryAddress, Connected, Entry, Open
  <2>2. left' \in Nat /\ plain' \in Nat
    BY <1>3, <2>1
  <2>3. fd \notin Open /\ own
    BY <1>h, <2>1 DEF Holding
  <2>4. Holding'
    <3>1. CASE UNCHANGED <<client, own, plain>>
      BY <1>h, <2>1, <3>1 DEF Holding, Held, Open
    <3>2. CASE /\ Held < Descriptors /\ fd' \in Open /\ plain' = plain + 1 /\ left' = 0
               /\ own' = FALSE /\ client' = "writing"
      BY <1>3, <1>h, <2>1, <2>3, <3>2 DEF Holding, Held
    <3>3. QED
      BY <2>1, <3>1, <3>2
  <2>5. QED
    BY <1>3, <1>6, <2>1, <2>2, <2>3, <2>4 DEF Clients, Open
<1>9. CASE NoneConnected
  <2>1. /\ client = "connecting"
        /\ UNCHANGED <<left, fd, urls, plain, begun, served, ioVars>>
        /\ \/ client' = "failed" /\ UNCHANGED own
           \/ client' = "writing" /\ own' = FALSE
    BY <1>9 DEF NoneConnected
  <2>2. Holding'
    <3>1. fd' \notin Open /\ own /\ UNCHANGED <<urls, plain, begun, served>>
      BY <1>h, <2>1 DEF Holding
    <3>2. Held' <= Descriptors
      BY <1>3, <1>h, <2>1, <3>1 DEF Holding, Held
    <3>3. QED
      BY <1>h, <2>1, <3>1, <3>2 DEF Holding
  <2>3. QED
    BY <1>3, <1>6, <2>1, <2>2 DEF Clients
<1>10. CASE WriteMessage \/ WriteFails \/ ClientDies
  <2>1. /\ \/ client' \in {"failed", "gone"}
           \/ client = "writing" /\ fd = "message" /\ client' = "reading"
        /\ UNCHANGED <<left, fd, own, urls, plain, begun, served, ioVars>>
    BY <1>10 DEF WriteMessage, WriteFails, ClientDies, sockets
  <2>2. Holding'
    BY <1>3, <1>h, <2>1 DEF Holding, Held, Open
  <2>3. QED
    BY <1>3, <1>6, <2>1, <2>2 DEF Clients
<1>11. CASE Write
  <2>1. PICK k \in 1..(RequestLen - sent) :
          /\ sent' = sent + k
          /\ client' = IF sent' = RequestLen THEN "reading" ELSE client
    BY <1>11 DEF Write
  <2>2. client = "writing" /\ fd = "stream" /\ client' \in {"reading", "writing"}
    BY <1>11, <2>1 DEF Write
  <2>3. sent' \in Nat /\ sent <= sent'
    BY <1>3, <1>4, <2>1
  <2>4. UNCHANGED <<taken, chunk, answer, left, fd, own, urls, plain, begun, served>>
    BY <1>11 DEF Write, sockets
  <2>5. Answered' /\ Streams'
    BY <1>2, <2>2, <2>4 DEF Kept, Answered, Streams
  <2>6. Holding'
    BY <1>h, <2>2, <2>4 DEF Holding, Held, Open
  <2>7. QED
    BY <1>3, <1>5, <2>2, <2>3, <2>4, <2>5, <2>6 DEF Clients
<1>12. CASE Read
  <2>1. PICK k \in 1..(ChunkSize - chunk) :
          /\ taken + k <= replied /\ taken' = taken + k
          /\ IF chunk + k = ChunkSize
             THEN chunk' = 0 /\ answer' = answer + ChunkSize
             ELSE chunk' = chunk + k /\ UNCHANGED answer
    BY <1>12 DEF Read
  <2>2. client' = "reading" /\ UNCHANGED <<client, sent, left, fd, own, urls, plain, begun, served>>
    BY <1>12 DEF Read, sockets
  <2>3. k \in Nat /\ ChunkSize \in Nat
    BY <1>3, <2>1, Lengths
  <2>4. taken' \in Nat /\ chunk' \in Nat /\ answer' \in Nat
    BY <1>3, <2>1, <2>3
  <2>5. answer' + chunk' = taken'
    BY <1>3, <2>1, <2>3 DEF Kept, Answered
  <2>6. Answered'
    BY <1>2, <2>1, <2>2, <2>5 DEF Kept, Answered
  <2>7. Holding' /\ Streams'
    BY <1>2, <1>h, <2>2, StreamsKept DEF Holding, Held
  <2>8. QED
    BY <1>3, <1>5, <2>2, <2>4, <2>6, <2>7 DEF Clients
\* A response: the socket it came from stays.
<1>13. ASSUME client = "reading", client' = "got", served' = served + 1,
              UNCHANGED <<sent, left, fd, own, urls, plain, begun>>
       PROVE  Holding' /\ Streams' /\ served' \in Nat
  <2>1. Holding' /\ served' \in Nat
    BY <1>3, <1>h, <1>13 DEF Holding, Held
  <2>2. QED
    BY <1>2, <1>13, <2>1, StreamsKept
<1>14. CASE ReadEnd
  <2>1. /\ server \in {"closed", "exited"} /\ taken = replied
        /\ client = "reading" /\ client' = "got" /\ served' = served + 1
        /\ answer' = answer + chunk /\ chunk' = 0
        /\ UNCHANGED <<left, fd, own, urls, plain, begun, sent, taken>>
    BY <1>14 DEF ReadEnd, Running
  <2>2. answer' \in Nat /\ chunk' \in Nat /\ answer' = taken
    BY <1>3, <2>1 DEF Kept, Answered
  <2>3. Answered'
    BY <1>2, <1>3, <2>1, <2>2 DEF Kept, Answered
  <2>4. Holding' /\ Streams' /\ served' \in Nat
    BY <1>13, <2>1
  <2>5. QED
    BY <1>3, <1>5, <2>1, <2>2, <2>3, <2>4 DEF Clients
<1>15. CASE ReadFails \/ Refused
  <2>1. /\ reset \/ fd = "message"
        /\ client = "reading" /\ client' = "got" /\ served' = served + 1
        /\ UNCHANGED <<left, fd, own, urls, plain, begun, sent, taken, chunk, answer>>
    BY <1>15 DEF ReadFails, Refused, ioVars
  <2>2. reset => server = "exited"
    BY DEF Kept, Answered
  <2>3. fd = "message" => server \in {"line", "exited"}
    BY DEF Kept, Streams
  <2>4. Answered'
    BY <1>2, <2>1, <2>2, <2>3 DEF Kept, Answered
  <2>5. Holding' /\ Streams' /\ served' \in Nat
    BY <1>13, <2>1
  <2>6. QED
    BY <1>3, <1>5, <2>1, <2>4, <2>5 DEF Clients
<1>16. QED
  BY <1>a, <1>7, <1>8, <1>9, <1>10, <1>11, <1>12, <1>14, <1>15 DEF Browse

\* Some of the rest, put back, is no more than there was.
LEMMA PartOfRest ==
  ASSUME NEW h \in Nat, NEW p \in Nat, p <= h, NEW u \in 0..(h - p), NEW d \in Nat, h <= d
  PROVE  u \in Nat /\ p + u <= d
OBVIOUS

\* The next request begins as the first one did, but for the sockets.
LEMMA AgainKept ==
  ASSUME Kept, Again
  PROVE  Kept'
<1>1. /\ client' = "opening" /\ sent' = 0 /\ taken' = 0 /\ chunk' = 0 /\ answer' = 0
      /\ left' = 0 /\ fd' = "none" /\ begun' = begun + 1
      /\ server' = "line" /\ fetched' = 0
      /\ buffer' = [i \in 0..(BufSize - 1) |-> 0] /\ bufptr' = 0 /\ cnt' = 0
      /\ head' = <<>> /\ body' = [i \in 0..(BodyLen - 1) |-> 0]
      /\ got' = 0 /\ pieces' = 0 /\ replied' = 0 /\ reset' = FALSE
      /\ urls' \in 0..(Held - plain) /\ own' = FALSE /\ UNCHANGED <<plain, served>>
  BY DEF Again
<1>2. <<>> \in Seq(Nat) /\ Len(<<>>) = 0
  OBVIOUS
<1>3. /\ plain \in Nat /\ begun \in Nat /\ served \in Nat /\ urls \in Nat
      /\ Descriptors \in Nat /\ served <= plain /\ plain <= begun
      /\ plain < Descriptors /\ Held <= Descriptors
  BY Lengths DEF Kept, Typed, Holding
<1>h. Held \in Nat /\ plain <= Held
  BY <1>3 DEF Held
<1>u. urls' \in Nat /\ plain + urls' <= Descriptors
  <2>1. urls' \in 0..(Held - plain)
    BY <1>1
  <2>2. plain \in Nat /\ Descriptors \in Nat /\ Held <= Descriptors
    BY <1>3
  <2>3. QED
    BY <1>h, <2>1, <2>2, PartOfRest
<1>4. Typed'
  BY <1>1, <1>2, <1>3, <1>u, Lengths DEF Typed, Clients, Servers
<1>5. Buffered'
  BY <1>1, Lengths DEF Buffered
<1>6. Progress' /\ HeadRead' /\ BodyPiece'
  BY <1>1, <1>2, Lengths DEF Progress, Consumed, HeadRead, BodyPiece
<1>7. Answered' /\ Streams'
  BY <1>1 DEF Answered, Streams
<1>8. Holding'
  <2>1. Held' = plain + urls'
    BY <1>1, <1>3, <1>u DEF Held
  <2>2. Held' <= Descriptors
    BY <1>u, <2>1
  <2>3. QED
    BY <1>1, <1>3, <2>2 DEF Holding, Open
<1>9. QED
  BY <1>4, <1>5, <1>6, <1>7, <1>8 DEF Kept

-----------------------------------------------------------------------------
(* The server's steps *)

\* Nothing but the answer and the end of the server concerns Answered.
LEMMA BrowserKept ==
  ASSUME Kept, UNCHANGED clientVars
  PROVE  /\ UNCHANGED <<client, sent, taken, chunk, answer>>
         /\ UNCHANGED <<left, fd, own, urls, plain, begun, served>>
         /\ Holding'
<1>1. UNCHANGED <<client, sent, taken, chunk, answer, left, fd, own, urls, plain, begun, served>>
  BY DEF clientVars, sockets, ioVars
<1>2. QED
  BY <1>1 DEF Kept, Holding, Held

LEMMA StreamsServed ==
  ASSUME Kept, UNCHANGED clientVars,
         server' = server \/ server' = "exited" \/ sent # 0 \/ fd = "stream"
  PROVE  Streams'
<1>1. UNCHANGED <<sent, fd>>
  BY BrowserKept
<1>2. QED
  BY <1>1 DEF Kept, Streams

LEMMA AnsweredKept ==
  ASSUME Kept, UNCHANGED <<clientVars, replied, reset>>, server \notin {"closed", "exited"},
         server' = "closed" => server = "answering" /\ replied = AnswerLen
  PROVE  Answered'
<1>1. UNCHANGED <<client, fd, sent, taken, chunk, answer, replied, reset>>
  BY BrowserKept
<1>2. ~reset /\ (client = "got" => fd # "stream" /\ server = "line")
  BY DEF Kept, Answered, Streams, Typed
<1>3. QED
  BY <1>1, <1>2 DEF Kept, Answered

LEMMA FillKept ==
  ASSUME Kept, Fill
  PROVE  Kept'
<1>1. PICK k \in 1..Min({BufSize, sent - fetched}) :
        /\ buffer' = [i \in DOMAIN buffer |-> IF i < k THEN fetched + i + 1 ELSE buffer[i]]
        /\ bufptr' = 0 /\ cnt' = k /\ fetched' = fetched + k
  BY DEF Fill
<1>2. /\ cnt = 0 /\ server \in {"line", "headers", "body"}
      /\ UNCHANGED <<clientVars, server, head, body, got, pieces, replied, reset>>
  BY DEF Fill, Wants
<1>3. /\ UNCHANGED <<client, sent, taken, chunk, answer, left, fd, own, urls, plain, begun, served>> /\ Holding'
      /\ UNCHANGED <<server, head, body, got, pieces, replied, reset>>
  BY <1>2, BrowserKept
<1>4. /\ sent \in Nat /\ fetched \in Nat /\ fetched <= sent /\ sent - fetched \in Nat
      /\ BufSize \in Nat /\ buffer \in [0..(BufSize - 1) -> Nat]
  BY Lengths DEF Kept, Typed, Buffered
<1>5. k \in Nat /\ k >= 1 /\ k <= BufSize /\ k <= sent - fetched
  <2>1. /\ Min({BufSize, sent - fetched}) \in Nat
        /\ Min({BufSize, sent - fetched}) <= BufSize
        /\ Min({BufSize, sent - fetched}) <= sent - fetched
    BY <1>4, MinOfTwo
  <2>2. QED
    BY <1>4, <2>1
<1>6. DOMAIN buffer = 0..(BufSize - 1)
  BY <1>4
<1>7. \A i \in 0..(BufSize - 1) :
        buffer'[i] = IF i < k THEN fetched + i + 1 ELSE buffer[i]
  BY <1>1, <1>6
<1>8. Typed'
  <2>1. buffer' \in [0..(BufSize - 1) -> Nat]
    BY <1>1, <1>4, <1>6
  <2>2. bufptr' \in Nat /\ cnt' \in Nat /\ fetched' \in Nat
    BY <1>1, <1>4, <1>5
  <2>3. QED
    BY <1>3, <2>1, <2>2 DEF Kept, Typed
<1>9. Consumed' = Consumed /\ Consumed = fetched
  BY <1>1, <1>2, <1>4, <1>5 DEF Consumed
<1>10. Buffered'
  <2>1. cnt' <= fetched' /\ fetched' <= sent' /\ bufptr' + cnt' <= BufSize
    BY <1>1, <1>3, <1>4, <1>5
  <2>2. ASSUME NEW i \in 0..(cnt' - 1)
        PROVE  buffer'[bufptr' + i] = Consumed' + i + 1
    <3>1. i \in 0..(BufSize - 1) /\ i < k /\ bufptr' + i = i
      BY <1>1, <1>4, <1>5, <2>2
    <3>2. QED
      BY <1>7, <1>9, <3>1
  <2>3. QED
    BY <2>1, <2>2 DEF Buffered
<1>11. Progress'
  BY <1>3, <1>9 DEF Kept, Progress
<1>12. HeadRead' /\ BodyPiece'
  BY <1>3 DEF Kept, HeadRead, BodyPiece
<1>13. Answered' /\ Streams'
  BY <1>2, AnsweredKept, StreamsServed
<1>14. QED
  BY <1>3, <1>8, <1>10, <1>11, <1>12, <1>13 DEF Kept

LEMMA TakeByteKept ==
  ASSUME Kept, TakeByte
  PROVE  Kept'
<1> DEFINE c == buffer[bufptr]
<1>1. /\ server \in {"line", "headers"} /\ cnt > 0
      /\ head' = Append(head, c)
      /\ server' = CASE c = LineLen -> "headers"
                      [] c = HeadLen -> "body"
                      [] OTHER -> server
      /\ bufptr' = bufptr + 1 /\ cnt' = cnt - 1
      /\ UNCHANGED <<clientVars, fetched, buffer, body, got, pieces, replied, reset>>
  BY DEF TakeByte
<1>2. /\ UNCHANGED <<client, sent, taken, chunk, answer, left, fd, own, urls, plain, begun, served>> /\ Holding'
      /\ UNCHANGED <<fetched, buffer, body, got, pieces, replied, reset>>
  BY <1>1, BrowserKept
<1>3. /\ cnt \in Nat /\ fetched \in Nat /\ bufptr \in Nat /\ sent \in Nat /\ BufSize \in Nat
      /\ head \in Seq(Nat) /\ Len(head) \in Nat /\ got = 0 /\ pieces = 0
      /\ Len(head) < HeadLen /\ HeadLen \in Nat /\ LineLen \in Nat /\ LineLen < HeadLen
  BY <1>1, Lengths DEF Kept, Typed, Progress
<1>4. Consumed \in Nat /\ Consumed = Len(head) /\ Consumed' = Consumed + 1
  BY <1>1, <1>2, <1>3 DEF Kept, Progress, Buffered, Consumed
<1>5. c = Len(head) + 1
  <2>1. 0 \in 0..(cnt - 1)
    BY <1>1, <1>3
  <2>2. buffer[bufptr + 0] = Consumed + 0 + 1
    BY <2>1 DEF Kept, Buffered
  <2>3. bufptr + 0 = bufptr
    BY <1>3
  <2>4. QED
    BY <1>3, <1>4, <2>2, <2>3
<1> HIDE DEF c
<1>6. /\ head' \in Seq(Nat) /\ Len(head') = c /\ head'[c] = c
      /\ \A i \in 1..Len(head) : head'[i] = head[i]
  BY <1>1, <1>3, <1>5, AppendProperties
<1>7. /\ server' \in {"line", "headers", "body"}
      /\ server' = "body" => c = HeadLen
      /\ server' \in {"line", "headers"} => c < HeadLen
  <2>1. CASE c = LineLen
    BY <1>1, <1>3, <2>1
  <2>2. CASE c # LineLen /\ c = HeadLen
    BY <1>1, <2>2
  <2>3. CASE c # LineLen /\ c # HeadLen
    <3>1. server' = server
      BY <1>1, <2>3
    <3>2. c < HeadLen
      BY <1>3, <1>5, <2>3
    <3>3. QED
      BY <1>1, <3>1, <3>2
  <2>4. QED
    BY <2>1, <2>2, <2>3
<1>8. Typed'
  <2>1. bufptr' \in Nat /\ cnt' \in Nat
    BY <1>1, <1>3
  <2>2. server' \in Servers
    BY <1>7 DEF Servers
  <2>3. QED
    BY <1>2, <1>6, <2>1, <2>2 DEF Kept, Typed
<1>9. Buffered'
  <2>1. cnt <= fetched /\ fetched <= sent /\ bufptr + cnt <= BufSize
    BY DEF Kept, Buffered
  <2>2. cnt' <= fetched' /\ fetched' <= sent' /\ bufptr' + cnt' <= BufSize
    BY <1>1, <1>2, <1>3, <2>1
  <2>3. ASSUME NEW i \in 0..(cnt' - 1)
        PROVE  buffer'[bufptr' + i] = Consumed' + i + 1
    <3>a. i \in 0..(cnt - 1 - 1) /\ bufptr' = bufptr + 1
      BY <1>1, <2>3
    <3>1. i + 1 \in 0..(cnt - 1) /\ bufptr' + i = bufptr + (i + 1) /\ i \in Nat
      BY <1>3, <3>a
    <3>2. buffer[bufptr + (i + 1)] = Consumed + (i + 1) + 1
      BY <3>1 DEF Kept, Buffered
    <3>3. Consumed + (i + 1) + 1 = Consumed' + i + 1
      BY <1>4, <3>1
    <3>4. QED
      BY <1>2, <3>1, <3>2, <3>3
  <2>4. QED
    BY <2>2, <2>3 DEF Buffered
<1>10. Progress'
  BY <1>2, <1>3, <1>4, <1>5, <1>6, <1>7, Lengths DEF Progress
<1>11. HeadRead'
  <2>1. ASSUME NEW i \in 1..Len(head') PROVE head'[i] = i
    <3>1. i \in 1..Len(head) \/ i = c
      BY <1>3, <1>5, <1>6, <2>1
    <3>2. QED
      BY <1>6, <3>1 DEF Kept, HeadRead
  <2>2. QED
    BY <2>1 DEF HeadRead
<1>12. BodyPiece'
  BY <1>2, <1>3 DEF BodyPiece
<1>13. Answered' /\ Streams'
  <2>1. sent # 0
    BY <1>1, <1>3 DEF Kept, Buffered
  <2>2. QED
    BY <1>1, <1>7, <2>1, AnsweredKept, StreamsServed
<1>14. QED
  BY <1>2, <1>8, <1>9, <1>10, <1>11, <1>12, <1>13 DEF Kept

LEMMA TakeBodyKept ==
  ASSUME Kept, TakeBody
  PROVE  Kept'
<1> DEFINE c == Min({cnt, BodyLeft})
<1>1. /\ server = "body" /\ BodyLeft > 0 /\ cnt > 0 /\ body' = Copied(c)
      /\ got' = got + c /\ bufptr' = bufptr + c /\ cnt' = cnt - c /\ pieces' = pieces + 1
      /\ UNCHANGED <<clientVars, server, fetched, buffer, head, replied, reset>>
  BY DEF TakeBody
<1>2. /\ UNCHANGED <<client, sent, taken, chunk, answer, left, fd, own, urls, plain, begun, served>> /\ Holding'
      /\ UNCHANGED <<server, fetched, buffer, head, replied, reset>>
  BY <1>1, BrowserKept
<1>3. /\ cnt \in Nat /\ fetched \in Nat /\ bufptr \in Nat /\ sent \in Nat /\ BufSize \in Nat
      /\ got \in Nat /\ pieces \in Nat /\ BodyLen \in Nat /\ HeadLen \in Nat
      /\ body \in [0..(BodyLen - 1) -> Nat] /\ buffer \in [0..(BufSize - 1) -> Nat]
      /\ Len(head) = HeadLen /\ got <= BodyLen
  BY <1>1, Lengths DEF Kept, Typed, Progress
<1>4. BodyLeft \in Nat /\ BodyLeft = BodyLen - got
  BY <1>3 DEF BodyLeft
<1>5. c \in Nat /\ c <= cnt /\ c <= BodyLen - got /\ c # 0
  BY <1>1, <1>3, <1>4, MinOfTwo
<1> HIDE DEF c
<1>6. /\ cnt <= fetched /\ fetched <= sent /\ bufptr + cnt <= BufSize
      /\ Consumed = HeadLen + got
  BY <1>3 DEF Kept, Buffered, Progress
<1>7. Consumed' = Consumed + c
  BY <1>1, <1>2, <1>3, <1>5, <1>6 DEF Consumed
<1>8. body' = [i \in 0..(BodyLen - 1) |-> IF i < c THEN buffer[bufptr + i] ELSE body[i]]
  BY <1>1, <1>3 DEF Copied
<1>9. ASSUME NEW i \in 0..(BodyLen - 1), i < c
      PROVE  /\ buffer[bufptr + i] \in Nat
             /\ buffer[bufptr + i] = Consumed + i + 1
  <2>1. i \in 0..(cnt - 1) /\ bufptr + i \in 0..(BufSize - 1)
    BY <1>3, <1>5, <1>6, <1>9
  <2>2. QED
    BY <1>3, <2>1 DEF Kept, Buffered
<1>10. Typed'
  <2>1. body' \in [0..(BodyLen - 1) -> Nat]
    <3>1. \A i \in 0..(BodyLen - 1) :
            (IF i < c THEN buffer[bufptr + i] ELSE body[i]) \in Nat
      BY <1>3, <1>9
    <3>2. QED
      BY <1>8, <3>1
  <2>2. got' \in Nat /\ bufptr' \in Nat /\ cnt' \in Nat /\ pieces' \in Nat
    BY <1>1, <1>3, <1>5
  <2>3. QED
    BY <1>2, <2>1, <2>2 DEF Kept, Typed
<1>11. Buffered'
  <2>1. cnt' <= fetched' /\ fetched' <= sent' /\ bufptr' + cnt' <= BufSize
    BY <1>1, <1>2, <1>3, <1>5, <1>6
  <2>2. ASSUME NEW i \in 0..(cnt' - 1)
        PROVE  buffer'[bufptr' + i] = Consumed' + i + 1
    <3>a. i \in 0..(cnt - c - 1) /\ bufptr' = bufptr + c
      BY <1>1, <2>2
    <3>1. c + i \in 0..(cnt - 1) /\ bufptr' + i = bufptr + (c + i) /\ i \in Nat
      BY <1>3, <1>5, <3>a
    <3>2. buffer[bufptr + (c + i)] = Consumed + (c + i) + 1
      BY <3>1 DEF Kept, Buffered
    <3>3. Consumed + (c + i) + 1 = Consumed' + i + 1
      BY <1>3, <1>5, <1>6, <1>7, <3>1
    <3>4. QED
      BY <1>2, <3>1, <3>2, <3>3
  <2>3. QED
    BY <2>1, <2>2 DEF Buffered
<1>12. Progress'
  <2>1. Consumed' = Len(head') + got' /\ got' <= BodyLen
    BY <1>1, <1>2, <1>3, <1>5, <1>6, <1>7
  <2>2. server' = "body" /\ Len(head') = HeadLen
    BY <1>1, <1>2, <1>3
  <2>3. QED
    BY <2>1, <2>2, Lengths DEF Progress
<1>13. HeadRead'
  BY <1>2 DEF Kept, HeadRead
<1>14. BodyPiece'
  <2>1. pieces' # 0
    BY <1>1, <1>3
  <2>2. ASSUME pieces' = 1, NEW i \in 0..(got' - 1)
        PROVE  body'[i] = HeadLen + i + 1
    <3>1. got = 0
      BY <1>1, <1>3, <2>2 DEF Kept, BodyPiece
    <3>2. i \in 0..(c - 1)
      BY <1>1, <1>5, <2>2, <3>1
    <3>3. i \in 0..(BodyLen - 1) /\ i < c /\ i \in Nat
      BY <1>3, <1>5, <3>1, <3>2
    <3>4. body'[i] = Consumed + i + 1
      BY <1>8, <1>9, <3>3
    <3>5. QED
      BY <1>3, <1>6, <3>1, <3>3, <3>4
  <2>3. QED
    BY <2>1, <2>2 DEF BodyPiece
<1>15. Answered' /\ Streams'
  BY <1>1, AnsweredKept, StreamsServed
<1>16. QED
  BY <1>2, <1>10, <1>11, <1>12, <1>13, <1>14, <1>15 DEF Kept

\* The steps that only move the server on.
LEMMA MovesKept ==
  ASSUME Kept, BodyRead \/ EndOfRequest \/ Answer \/ AnswerFails \/ Close \/ ServerDies
  PROVE  Kept'
<1>1. UNCHANGED clientVars /\ UNCHANGED <<rioVars, head, body, got, pieces>>
  BY DEF BodyRead, EndOfRequest, Answer, AnswerFails, Close, ServerDies
<1>2. /\ UNCHANGED <<client, sent, taken, chunk, answer, left, fd, own, urls, plain, begun, served>> /\ Holding'
      /\ UNCHANGED <<fetched, buffer, bufptr, cnt, head, body, got, pieces>>
  BY <1>1, BrowserKept DEF rioVars
<1>3. /\ got \in Nat /\ BodyLen \in Nat /\ taken \in Nat /\ replied \in Nat
      /\ AnswerLen \in Nat /\ server \in Servers /\ reset \in BOOLEAN
  BY Lengths DEF Kept, Typed
<1>s. server \in {"body", "answering"} => fd = "stream"
  BY DEF Kept, Streams
<1>4. Consumed' = Consumed
  BY <1>2 DEF Consumed
<1>5. Buffered' /\ HeadRead'
  BY <1>2, <1>4 DEF Kept, Buffered, HeadRead
<1>6. ASSUME server' \in Servers, reset' \in BOOLEAN, replied' \in Nat,
             Progress', BodyPiece', Answered', Streams'
      PROVE  Kept'
  <2>1. Typed'
    BY <1>2, <1>6 DEF Kept, Typed
  <2>2. QED
    BY <1>2, <1>5, <1>6, <2>1 DEF Kept
<1>7. CASE BodyRead
  <2>1. server = "body" /\ server' = "answering" /\ BodyLeft = 0 /\ UNCHANGED <<replied, reset>>
    BY <1>7 DEF BodyRead
  <2>2. got = BodyLen
    <3>1. got <= BodyLen /\ BodyLen - got = 0
      BY <2>1 DEF Kept, Progress, BodyLeft
    <3>2. QED
      BY <1>3, <3>1
  <2>3. Progress'
    BY <1>2, <1>3, <1>4, <2>1, <2>2 DEF Kept, Progress
  <2>4. BodyPiece'
    BY <1>2, <2>1 DEF Kept, BodyPiece
  <2>5. Answered' /\ Streams'
    BY <1>1, <1>s, <2>1, AnsweredKept, StreamsServed
  <2>6. QED
    BY <1>3, <1>6, <2>1, <2>3, <2>4, <2>5 DEF Servers
<1>8. CASE EndOfRequest \/ AnswerFails
  <2>1. /\ server \notin {"closed", "exited"} /\ server' \in {"exited", "hung"}
        /\ fd = "stream" /\ UNCHANGED <<replied, reset>>
    BY <1>8, <1>s DEF EndOfRequest, AnswerFails, Wants
  <2>2. Progress' /\ BodyPiece'
    BY <1>2, <1>4, <2>1 DEF Kept, Progress, BodyPiece
  <2>3. Answered' /\ Streams'
    BY <1>1, <1>s, <2>1, AnsweredKept, StreamsServed
  <2>4. QED
    BY <1>3, <1>6, <2>1, <2>2, <2>3 DEF Servers
<1>9. CASE Answer
  <2>1. PICK k \in 1..(AnswerLen - replied) : replied' = replied + k
    BY <1>9 DEF Answer
  <2>2. server = "answering" /\ UNCHANGED <<server, reset>>
    BY <1>9 DEF Answer
  <2>3. replied' \in Nat /\ replied <= replied'
    BY <1>3, <2>1
  <2>4. Progress' /\ BodyPiece'
    BY <1>2, <1>4, <2>2 DEF Kept, Progress, BodyPiece
  <2>5. Answered' /\ Streams'
    BY <1>1, <1>2, <1>3, <2>2, <2>3, StreamsServed DEF Kept, Answered
  <2>6. QED
    BY <1>3, <1>6, <2>2, <2>3, <2>4, <2>5
<1>10. CASE Close
  <2>1. /\ server = "answering" /\ server' = "closed" /\ replied = AnswerLen
        /\ UNCHANGED <<replied, reset>>
    BY <1>10 DEF Close
  <2>2. Progress' /\ BodyPiece'
    BY <1>2, <1>4, <2>1 DEF Kept, Progress, BodyPiece
  <2>3. Answered' /\ Streams'
    BY <1>1, <1>s, <2>1, AnsweredKept, StreamsServed
  <2>4. QED
    BY <1>3, <1>6, <2>1, <2>2, <2>3 DEF Servers
<1>11. CASE ServerDies
  <2>1. /\ server \notin {"closed", "exited"} /\ server' = "exited" /\ reset' \in BOOLEAN
        /\ UNCHANGED replied
    BY <1>11 DEF ServerDies, Running
  <2>2. Progress' /\ BodyPiece'
    BY <1>2, <1>4, <2>1 DEF Kept, Progress, BodyPiece
  <2>3. Answered' /\ Streams'
    BY <1>1, <1>2, <2>1, StreamsServed DEF Kept, Answered
  <2>4. QED
    BY <1>3, <1>6, <2>1, <2>2, <2>3 DEF Servers
<1>12. QED
  BY <1>7, <1>8, <1>9, <1>10, <1>11

LEMMA StepKept == Kept /\ [ExchangeNext]_exchangeVars => Kept'
<1> SUFFICES ASSUME Kept, [ExchangeNext]_exchangeVars PROVE Kept'
  OBVIOUS
<1>1. CASE Construct \/ Browse \/ Refused \/ ClientDies
  BY <1>1, BrowseKept
<1>2. CASE Serve
  BY <1>2, FillKept, TakeByteKept, TakeBodyKept, MovesKept DEF Serve
<1>3. CASE ServerDies \/ Again
  BY <1>3, MovesKept, AgainKept
<1>4. CASE UNCHANGED exchangeVars
  <2>1. /\ UNCHANGED <<client, sent, taken, chunk, answer, left, fd, own, urls, plain, begun, served>> /\ Holding'
        /\ UNCHANGED <<server, fetched, buffer, bufptr, cnt, head, body, got, pieces, replied, reset>>
    BY <1>4, BrowserKept DEF exchangeVars, serverVars, rioVars
  <2>2. Typed'
    BY <2>1 DEF Kept, Typed
  <2>3. Buffered' /\ Progress' /\ HeadRead'
    BY <2>1 DEF Kept, Buffered, Progress, HeadRead, Consumed
  <2>4. BodyPiece' /\ Answered' /\ Streams'
    BY <2>1 DEF Kept, BodyPiece, Answered, Streams
  <2>5. QED
    BY <2>1, <2>2, <2>3, <2>4 DEF Kept
<1>5. QED
  BY <1>1, <1>2, <1>3, <1>4 DEF ExchangeNext

LEMMA Invariance == ExchangeSpec => []Kept
  BY InitKept, StepKept, PTL DEF ExchangeSpec

-----------------------------------------------------------------------------
(* The theorems *)

LEMMA AsSent == Kept => ReadAsSent
<1> SUFFICES ASSUME Kept PROVE ReadAsSent
  OBVIOUS
<1>1. head \in Seq(Nat) /\ BodyLen \in Nat /\ body \in [0..(BodyLen - 1) -> Nat]
  BY Lengths DEF Kept, Typed
<1>2. head = [i \in 1..Len(head) |-> i]
  <2>1. head = [i \in 1..Len(head) |-> head[i]]
    BY <1>1
  <2>2. QED
    BY <2>1 DEF Kept, HeadRead
<1>3. ASSUME server = "answering", pieces = 1 PROVE BodyIs(body)
  <2>1. \A i \in 0..(BodyLen - 1) : body[i] = HeadLen + i + 1
    BY <1>3 DEF Kept, Progress, BodyPiece
  <2>2. QED
    BY <1>1, <2>1 DEF BodyIs
<1>4. QED
  BY <1>2, <1>3 DEF ReadAsSent

LEMMA Whole == Kept => AnswerWhole
  BY DEF Kept, Answered, AnswerWhole

LEMMA Sockets == Kept => DescriptorsExplained
  BY DEF Kept, Holding, DescriptorsExplained

\* rio_readlineb and rio_readnp: the lines come byte after byte, each once, and a
\* body that was in the buffer in one piece arrives as it was sent.
THEOREM LinesAsSent == ExchangeSpec => []ReadAsSent
  BY Invariance, AsSent, PTL

\* http_readn and rio_writen: an answer of a server that closed in order is read
\* to its last byte.
THEOREM WholeAnswer == ExchangeSpec => []AnswerWhole
  BY Invariance, Whole, PTL

\* Client and open_clientfd: a request leaves one plain socket open at most, one that
\* got a response has left it, and the last descriptor is never one of them, because
\* the URL's TLS socket is held until the new one connects.
THEOREM OneSocketEach == ExchangeSpec => []DescriptorsExplained
  BY Invariance, Sockets, PTL
=============================================================================
