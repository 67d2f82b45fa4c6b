------------------------------ MODULE PageProofs ------------------------------
(***************************************************************************)
(* What a page's scripts may hold and what the program may use, for any    *)
(* pages, fragments and addresses: handles never mix items up, and only    *)
(* innerHTML or a click that leaves the page frees an item that is used    *)
(* later.                                                                  *)
(***************************************************************************)
EXTENDS Page, Induction, SequenceTheorems, FiniteSetTheorems, TLAPS

Pointer == [at : Addresses, gen : Nat]

\* Where load has not rendered yet, or the tab is dead.
Unrendered == {"load", "scripts", "script", "dead", "undefined"}

\* Where the program holds no item on its stack.
EmptyHanded == Unrendered \cup {"idle"}

\* What a listener's caller goes on with.
Defaults == {"edit", "follow", "focus", "press", "send"}

Places == EmptyHanded \cup Defaults \cup {"listener", "bubble"}

Typed ==
  /\ node \in [Addresses -> Node \cup {None}]
  /\ gen \in Nat /\ replaced \in BOOLEAN /\ refocused \in BOOLEAN
  /\ toHandle \in [Addresses -> Nat \cup {None}] /\ toNode \in Seq(Pointer)
  /\ pc.at \in Places
  /\ At("listener") => pc.then \in Defaults

\* A load that is not a click's comes after a blur.
Blurred == At("load") /\ pc.then # "clicked" => focus = None

\* A page whose scripts have not assigned to innerHTML keeps its items, and all
\* pointers but the focus stay good.
Sound ==
  ~replaced =>
    /\ \A a \in Live : node[a].up \in Live \cup {None}
    /\ \A h \in DOMAIN toNode : IsLive(toNode[h])
    /\ \A p \in items : IsLive(p)
    /\ \A i \in DOMAIN scripts : IsLive(scripts[i])
    /\ pc.at \notin Unrendered => \A p \in layout : IsLive(p)

\* So does the focus, and what was taken from it, unless a click left the page
\* with it.
Focused ==
  ~replaced /\ ~refocused =>
    /\ focus = None \/ IsLive(focus)
    /\ pc.at \notin EmptyHanded => IsLive(pc.elt)

IInv == Typed /\ HandlesAgree /\ Blurred /\ Sound /\ Focused /\ StaleUseExplained

-----------------------------------------------------------------------------
(* Facts the steps share *)

LEMMA LivePointers == \A p \in LiveItems : IsLive(p)
BY DEF LiveItems, PointerTo, IsLive, Live

\* The parent of an item of such a page is there too.
LEMMA LiveParent ==
  ASSUME IInv, ~replaced, NEW p, IsLive(p), Parent(p) # None
  PROVE  IsLive(Parent(p))
<1>1. node[p.at].up # None /\ Parent(p) = PointerTo(node[p.at].up)
  BY DEF Parent
<1>2. node[p.at].up \in Live
  BY <1>1 DEF IInv, Sound, IsLive
<1>3. QED
  BY <1>1, <1>2 DEF PointerTo, IsLive

LEMMA NoHandles == <<>> \in Seq(Pointer) /\ DOMAIN <<>> = {}
<1>1. <<>> \in Seq(Pointer) /\ Len(<<>>) = 0
  BY EmptySeq
<1>2. DOMAIN <<>> = 1..Len(<<>>)
  BY <1>1
<1>3. QED
  BY <1>1, <1>2

LEMMA InitIInv == Init => IInv
<1> SUFFICES ASSUME Init PROVE IInv
  OBVIOUS
<1>1. Typed
  <2>1. toNode \in Seq(Pointer)
    BY NoHandles DEF Init
  <2>2. pc.at \in Places /\ pc.at # "listener"
    BY DEF Init, Places, EmptyHanded, Unrendered
  <2>3. QED
    BY <2>1, <2>2 DEF Init, Typed, At
<1>2. HandlesAgree
  BY NoHandles DEF Init, HandlesAgree
<1>3. Sound
  <2>1. items = {} /\ DOMAIN toNode = {} /\ DOMAIN scripts = {} /\ Live = {}
    BY NoHandles DEF Init, Live
  <2>2. pc.at \in Unrendered
    BY DEF Init, Unrendered
  <2>3. QED
    BY <2>1, <2>2 DEF Sound
<1>4. Blurred /\ Focused /\ StaleUseExplained
  BY DEF Init, Blurred, Focused, StaleUseExplained, EmptyHanded, Unrendered, At
<1>5. QED
  BY <1>1, <1>2, <1>3, <1>4 DEF IInv

\* A step that frees nothing and gives out no handle.
LEMMA Going ==
  ASSUME IInv, UNCHANGED <<node, toHandle, toNode, gen, replaced>>,
         refocused' \in BOOLEAN, pc'.at \in Places,
         pc'.at = "listener" => pc'.then \in Defaults,
         pc'.at = "load" /\ pc'.then # "clicked" => focus' = None,
         items' \subseteq items,
         \A i \in DOMAIN scripts' : i \in DOMAIN scripts /\ scripts'[i] = scripts[i],
         pc'.at \notin Unrendered =>
           layout' = LiveItems \/ (UNCHANGED layout /\ pc.at \notin Unrendered),
         ~replaced /\ ~refocused' =>
           /\ focus' = None \/ IsLive(focus')
           /\ pc'.at \notin EmptyHanded => IsLive(pc'.elt),
         pc'.at = "undefined" => replaced \/ refocused'
  PROVE  IInv'
<1>1. Live' = Live
  BY DEF Live
<1>2. Typed'
  BY DEF IInv, Typed, At
<1>3. HandlesAgree'
  BY DEF IInv, HandlesAgree
<1>4. Blurred' /\ StaleUseExplained'
  BY DEF Blurred, StaleUseExplained, At
<1>5. Sound'
  <2>1. SUFFICES ASSUME ~replaced PROVE Sound'
    BY DEF Sound
  <2>2. \A a \in Live' : node'[a].up \in Live' \cup {None}
    BY <1>1, <2>1 DEF IInv, Sound
  <2>3. \A h \in DOMAIN toNode' : IsLive(toNode[h])'
    BY <1>1, <2>1 DEF IInv, Sound, IsLive
  <2>4. \A q \in items' : q.at \in Live' /\ node'[q.at].gen = q.gen
    BY <1>1, <2>1 DEF IInv, Sound, IsLive
  <2>5. \A i \in DOMAIN scripts' :
          scripts'[i].at \in Live' /\ node'[scripts'[i].at].gen = scripts'[i].gen
    BY <1>1, <2>1 DEF IInv, Sound, IsLive
  <2>6. pc'.at \notin Unrendered =>
          \A q \in layout' : q.at \in Live' /\ node'[q.at].gen = q.gen
    BY <1>1, <2>1, LivePointers DEF IInv, Sound, IsLive
  <2>7. QED
    BY <2>2, <2>3, <2>4, <2>5, <2>6 DEF Sound, IsLive
<1>6. Focused'
  BY <1>1 DEF Focused, IsLive
<1>7. QED
  BY <1>2, <1>3, <1>4, <1>5, <1>6 DEF IInv

\* The use of a freed item, on a page that explains it.
LEMMA UndefinedIInv ==
  ASSUME IInv, Undefined, replaced \/ refocused
  PROVE  IInv'
<1>1. /\ pc' = [at |-> "undefined", elt |-> None, then |-> ""]
      /\ UNCHANGED <<node, toHandle, toNode, gen, replaced, refocused, items, scripts, focus>>
  BY DEF Undefined, Goto, treeVars, jsVars, history
<1>2. pc'.at = "undefined"
  BY <1>1
<1>3. refocused' \in BOOLEAN
  BY <1>1 DEF IInv, Typed
<1>4. focus' = None \/ IsLive(focus') \/ replaced \/ refocused'
  BY <1>1 DEF IInv, Focused
<1>5. QED
  BY <1>1, <1>2, <1>3, <1>4, Going DEF Places, EmptyHanded, Unrendered

\* A step that goes on with an item, live unless the page explains it, and leaves
\* the page as it is.
LEMMA OnWith ==
  ASSUME IInv, UNCHANGED <<treeVars, focus, jsVars, items, scripts, history>>,
         pc.at \notin Unrendered, layout' \in {layout, LiveItems},
         pc'.at \in {"idle", "bubble"} \cup Defaults
           \/ (pc'.at = "listener" /\ pc'.then \in Defaults)
           \/ (pc'.at = "load" /\ pc'.then = "clicked"),
         pc'.at \notin EmptyHanded => IsLive(pc'.elt) \/ replaced \/ refocused
  PROVE  IInv'
<1>1. UNCHANGED <<node, toHandle, toNode, gen, replaced, refocused, items, scripts, focus>>
  BY DEF treeVars, jsVars, history
<1>2. refocused' \in BOOLEAN
  BY <1>1 DEF IInv, Typed
<1>3. focus' = None \/ IsLive(focus') \/ replaced \/ refocused'
  BY <1>1 DEF IInv, Focused
<1>4. pc'.at \in Places /\ pc'.at # "undefined"
  BY DEF Places, EmptyHanded, Unrendered, Defaults
<1>5. pc'.at = "listener" => pc'.then \in Defaults
  BY DEF Defaults
<1>6. pc'.at = "load" => pc'.then = "clicked"
  BY DEF Defaults
<1>7. QED
  BY <1>1, <1>2, <1>3, <1>4, <1>5, <1>6, Going

LEMMA Goes ==
  ASSUME NEW where, NEW elt, NEW then, Goto(where, elt, then)
  PROVE  pc'.at = where /\ pc'.elt = elt /\ pc'.then = then
BY DEF Goto

LEMMA DispatchGoes ==
  ASSUME NEW type, NEW p, NEW then \in Defaults, Dispatch(type, p, then)
  PROVE  /\ pc'.elt = p
         /\ pc'.at = then \/ (pc'.at = "listener" /\ pc'.then = then)
<1>1. \/ pc' = [at |-> "listener", elt |-> p, then |-> then]
      \/ pc' = [at |-> then, elt |-> p, then |-> ""]
  BY DEF Dispatch, Goto
<1>2. CASE pc' = [at |-> "listener", elt |-> p, then |-> then]
  BY <1>2
<1>3. CASE pc' = [at |-> then, elt |-> p, then |-> ""]
  BY <1>3
<1>4. QED
  BY <1>1, <1>2, <1>3

LEMMA UpGoes ==
  ASSUME NEW p, Up(p)
  PROVE  pc'.at = "idle" \/ (pc'.at = "bubble" /\ Parent(p) # None /\ pc'.elt = Parent(p))
<1>1. \/ pc' = [at |-> "idle", elt |-> None, then |-> ""]
      \/ Parent(p) # None /\ pc' = [at |-> "bubble", elt |-> Parent(p), then |-> ""]
  BY DEF Up, Idle, Goto
<1>2. CASE pc' = [at |-> "idle", elt |-> None, then |-> ""]
  BY <1>2
<1>3. CASE Parent(p) # None /\ pc' = [at |-> "bubble", elt |-> Parent(p), then |-> ""]
  BY <1>3
<1>4. QED
  BY <1>1, <1>2, <1>3

-----------------------------------------------------------------------------
(* Loading *)

\* Items of a document stand for items of memory.
LEMMA GrownNodes ==
  ASSUME NEW d \in Pages \cup Fragments, NEW tree \in [Addresses -> Node \cup {None}],
         NEW f \in [DOMAIN d -> Addresses], NEW top \in Addresses \cup {None}, NEW g \in Nat
  PROVE  LET r == Grown(tree, d, f, top, g)
         IN /\ r \in [Addresses -> Node \cup {None}]
            /\ \A a \in Addresses : a \notin Range(f) => r[a] = tree[a]
            /\ \A i \in DOMAIN d :
                 /\ r[f[i]] \in Node /\ r[f[i]].gen = g
                 /\ r[f[i]].up \in Range(f) \cup {top}
<1> DEFINE Item(i) == [kind |-> d[i].kind, up |-> IF d[i].up = 0 THEN top ELSE f[d[i].up],
                       gen |-> g]
           first(a) == CHOOSE j \in DOMAIN d : f[j] = a
           r == Grown(tree, d, f, top, g)
<1>1. d \in Seq([kind : Kinds, up : Nat]) /\ \A i \in DOMAIN d : d[i].up < i
  BY PagesAssumption
<1>2. /\ DOMAIN d = 1..Len(d) /\ Len(d) \in Nat
      /\ \A i \in DOMAIN d : d[i].kind \in Kinds /\ d[i].up \in Nat
  <2>1. DOMAIN d = 1..Len(d) /\ Len(d) \in Nat
    BY <1>1
  <2>2. \A i \in 1..Len(d) : d[i] \in [kind : Kinds, up : Nat]
    BY <1>1, ElementOfSeq
  <2>3. QED
    BY <2>1, <2>2
<1>3. ASSUME NEW i \in DOMAIN d
      PROVE  Item(i) \in Node /\ Item(i).up \in Range(f) \cup {top} /\ Item(i).gen = g
  <2>1. d[i].up = 0 \/ d[i].up \in DOMAIN d
    <3>1. i \in Nat /\ i <= Len(d) /\ d[i].up \in Nat /\ d[i].up < i
      BY <1>1, <1>2, <1>3
    <3>2. QED
      BY <1>2, <3>1
  <2>2. d[i].up # 0 => f[d[i].up] \in Addresses /\ f[d[i].up] \in Range(f)
    BY <2>1 DEF Range
  <2>3. QED
    BY <1>2, <2>2 DEF Node
<1>4. ASSUME NEW a \in Addresses, a \in Range(f)
      PROVE  first(a) \in DOMAIN d /\ f[first(a)] = a
  BY <1>4 DEF Range
<1> HIDE DEF Item, first
<1>5. r = [a \in Addresses |-> IF a \in Range(f) THEN Item(first(a)) ELSE tree[a]]
  BY DEF Grown, Item, first
<1> HIDE DEF r
<1>6. \A a \in Addresses :
        /\ a \in Range(f) => r[a] \in Node /\ r[a].up \in Range(f) \cup {top} /\ r[a].gen = g
        /\ a \notin Range(f) => r[a] = tree[a]
  BY <1>3, <1>4, <1>5
<1>7. r \in [Addresses -> Node \cup {None}]
  BY <1>5, <1>6
<1>8. \A i \in DOMAIN d : f[i] \in Addresses /\ f[i] \in Range(f)
  BY DEF Range
<1>9. QED
  BY <1>6, <1>7, <1>8 DEF r

LEMMA LoadIInv ==
  ASSUME IInv, Load
  PROVE  IInv'
<1> DEFINE Bare == [a \in Addresses |-> None]
<1>1. PICK d \in Pages : \E f \in Allocations(d) :
        /\ node' = Grown(Bare, d, f, None, gen + 1)
        /\ items' = {[at |-> f[i], gen |-> gen + 1] : i \in DOMAIN d}
        /\ scripts' = [i \in {j \in DOMAIN d : d[j].kind = "script"} |->
                         [at |-> f[i], gen |-> gen + 1]]
  BY DEF Load
<1>2. PICK f \in Allocations(d) :
        /\ node' = Grown(Bare, d, f, None, gen + 1)
        /\ items' = {[at |-> f[i], gen |-> gen + 1] : i \in DOMAIN d}
        /\ scripts' = [i \in {j \in DOMAIN d : d[j].kind = "script"} |->
                         [at |-> f[i], gen |-> gen + 1]]
  BY <1>1
<1>3. /\ At("load") /\ toHandle' = [a \in Addresses |-> None] /\ toNode' = <<>>
      /\ gen' = gen + 1 /\ replaced' = FALSE
      /\ refocused' = (refocused \/ (pc.then = "clicked" /\ focus # None))
      /\ pc' = [at |-> "scripts", elt |-> None, then |-> ""]
      /\ UNCHANGED focus
  BY DEF Load, Goto
<1>4. f \in [DOMAIN d -> Addresses]
  BY DEF Allocations, Injection, Live
<1>5. gen \in Nat /\ refocused \in BOOLEAN /\ gen + 1 \in Nat
  BY DEF IInv, Typed
<1>6. /\ node' \in [Addresses -> Node \cup {None}]
      /\ \A a \in Addresses : a \notin Range(f) => node'[a] = None
      /\ \A i \in DOMAIN d :
           /\ node'[f[i]] \in Node /\ node'[f[i]].gen = gen + 1
           /\ node'[f[i]].up \in Range(f) \cup {None}
  <2>1. Bare \in [Addresses -> Node \cup {None}] /\ \A a \in Addresses : Bare[a] = None
    OBVIOUS
  <2> HIDE DEF Bare
  <2>2. d \in Pages \cup Fragments /\ None \in Addresses \cup {None}
    OBVIOUS
  <2>3. LET q == Grown(Bare, d, f, None, gen + 1)
        IN /\ q \in [Addresses -> Node \cup {None}]
           /\ \A a \in Addresses : a \notin Range(f) => q[a] = Bare[a]
           /\ \A i \in DOMAIN d :
                /\ q[f[i]] \in Node /\ q[f[i]].gen = gen + 1
                /\ q[f[i]].up \in Range(f) \cup {None}
    BY <1>4, <1>5, <2>1, <2>2, GrownNodes
  <2>4. QED
    BY <1>2, <2>1, <2>3
<1> HIDE DEF Bare
<1>7. Live' = Range(f)
  <2>1. \A a \in Range(f) : \E i \in DOMAIN d : f[i] = a
    BY <1>4 DEF Range
  <2>2. \A a \in Range(f) : a \in Addresses /\ node'[a] # None
    BY <1>4, <1>6, <2>1, NoneAssumption
  <2>3. QED
    BY <1>6, <2>2 DEF Live
<1>8. \A i \in DOMAIN d : f[i] \in Live' /\ node'[f[i]].gen = gen + 1
  BY <1>4, <1>6, <1>7 DEF Range
<1>9. Typed'
  <2>1. toNode' \in Seq(Pointer) /\ toHandle' \in [Addresses -> Nat \cup {None}]
    BY <1>3, NoHandles
  <2>2. replaced' \in BOOLEAN /\ refocused' \in BOOLEAN /\ gen' \in Nat
    BY <1>3, <1>5
  <2>3. pc'.at \in Places /\ pc'.at # "listener"
    BY <1>3 DEF Places, EmptyHanded, Unrendered
  <2>4. QED
    BY <1>6, <2>1, <2>2, <2>3 DEF Typed, At
<1>10. HandlesAgree'
  BY <1>3, NoHandles DEF HandlesAgree
<1>11. Blurred' /\ StaleUseExplained'
  BY <1>3 DEF Blurred, StaleUseExplained, At
<1>12. Sound'
  <2>1. \A a \in Live' : node'[a].up \in Live' \cup {None}
    <3>1. \A a \in Range(f) : \E i \in DOMAIN d : f[i] = a
      BY <1>4 DEF Range
    <3>2. QED
      BY <1>6, <1>7, <3>1
  <2>2. DOMAIN toNode' = {}
    BY <1>3, NoHandles
  <2>3. \A p \in items' : p.at \in Live' /\ node'[p.at].gen = p.gen
    BY <1>2, <1>8
  <2>4. \A i \in DOMAIN scripts' :
          scripts'[i].at \in Live' /\ node'[scripts'[i].at].gen = scripts'[i].gen
    BY <1>2, <1>8
  <2>5. pc'.at \in Unrendered
    BY <1>3 DEF Unrendered
  <2>6. QED
    BY <2>1, <2>2, <2>3, <2>4, <2>5 DEF Sound, IsLive
<1>13. Focused'
  <2>1. ~refocused' => focus' = None
    BY <1>3 DEF IInv, Blurred
  <2>2. pc'.at \in EmptyHanded
    BY <1>3 DEF EmptyHanded, Unrendered
  <2>3. QED
    BY <2>1, <2>2 DEF Focused
<1>14. QED
  BY <1>9, <1>10, <1>11, <1>12, <1>13 DEF IInv

\* A step of load between the new tree and its layout, or the end of the tab.
LEMMA Loading ==
  ASSUME IInv, UNCHANGED <<treeVars, focus, jsVars, history>>,
         pc'.at \in {"scripts", "script", "dead"}, items' \subseteq items,
         \A i \in DOMAIN scripts' : i \in DOMAIN scripts /\ scripts'[i] = scripts[i]
  PROVE  IInv'
<1>1. UNCHANGED <<node, toHandle, toNode, gen, replaced, refocused, focus>>
  BY DEF treeVars, jsVars, history
<1>2. refocused' \in BOOLEAN
  BY <1>1 DEF IInv, Typed
<1>3. focus' = None \/ IsLive(focus') \/ replaced \/ refocused'
  BY <1>1 DEF IInv, Focused
<1>4. /\ pc'.at \in Places /\ pc'.at # "listener" /\ pc'.at # "load"
      /\ pc'.at \in Unrendered /\ pc'.at \in EmptyHanded /\ pc'.at # "undefined"
  BY DEF Places, EmptyHanded, Unrendered
<1>5. QED
  BY <1>1, <1>2, <1>3, <1>4, Going

LEMMA LoadStepsIInv ==
  ASSUME IInv, LoadFails \/ NextScript \/ EndScript \/ RequestThrows \/ UseOwnNode
  PROVE  IInv'
<1>1. CASE LoadFails
  <2>1. UNCHANGED <<treeVars, focus, jsVars, items, scripts, history>> /\ pc'.at = "dead"
    BY <1>1, Goes DEF LoadFails
  <2>2. QED
    BY <2>1, Loading
<1>2. CASE NextScript
  <2>1. PICK i \in DOMAIN scripts :
          \/ ~IsLive(scripts[i]) /\ Undefined
          \/ /\ scripts' = Restrict(scripts, DOMAIN scripts \ {i})
             /\ \E next \in {"dead", "scripts", "script"} : Goto(next, None, "")
             /\ UNCHANGED <<treeVars, layout, focus, jsVars, items, history>>
    BY <1>2 DEF NextScript
  <2>2. CASE ~IsLive(scripts[i]) /\ Undefined
    <3>1. replaced
      BY <2>2 DEF IInv, Sound
    <3>2. QED
      BY <2>2, <3>1, UndefinedIInv
  <2>3. CASE /\ scripts' = Restrict(scripts, DOMAIN scripts \ {i})
             /\ \E next \in {"dead", "scripts", "script"} : Goto(next, None, "")
             /\ UNCHANGED <<treeVars, layout, focus, jsVars, items, history>>
    <3>1. pc'.at \in {"dead", "scripts", "script"}
      BY <2>3, Goes
    <3>2. \A j \in DOMAIN scripts' : j \in DOMAIN scripts /\ scripts'[j] = scripts[j]
      BY <2>3 DEF Restrict
    <3>3. UNCHANGED <<treeVars, focus, jsVars, items, history>>
      BY <2>3
    <3>4. QED
      BY <3>1, <3>2, <3>3, Loading
  <2>4. QED
    BY <2>1, <2>2, <2>3
<1>3. CASE EndScript
  <2>1. UNCHANGED <<treeVars, focus, jsVars, items, scripts, history>> /\ pc'.at = "scripts"
    BY <1>3, Goes DEF EndScript
  <2>2. QED
    BY <2>1, Loading
<1>4. CASE RequestThrows \/ UseOwnNode
  <2>1. UNCHANGED <<treeVars, focus, jsVars, items, scripts, history>>
    BY <1>4 DEF RequestThrows, UseOwnNode
  <2>2. Goto("scripts", None, "") \/ Goto("dead", None, "")
    BY <1>4 DEF RequestThrows, UseOwnNode
  <2>3. pc'.at \in {"scripts", "dead"}
    BY <2>2, Goes
  <2>4. QED
    BY <2>1, <2>3, Loading
<1>5. QED
  BY <1>1, <1>2, <1>3, <1>4

LEMMA StylesIInv ==
  ASSUME IInv, Styles
  PROVE  IInv'
<1>1. CASE (\E p \in items : ~IsLive(p)) /\ Undefined
  <2>1. replaced
    BY <1>1 DEF IInv, Sound
  <2>2. QED
    BY <1>1, <2>1, UndefinedIInv
<1>2. CASE /\ items' = {} /\ layout' = LiveItems
           /\ Idle
           /\ UNCHANGED <<treeVars, focus, jsVars, scripts, history>>
  <2>1. /\ UNCHANGED <<node, toHandle, toNode, gen, replaced, refocused, scripts, focus>>
        /\ items' \subseteq items /\ layout' = LiveItems
    BY <1>2 DEF treeVars, jsVars, history
  <2>2. pc'.at = "idle"
    BY <1>2, Goes DEF Idle
  <2>3. refocused' \in BOOLEAN
    BY <2>1 DEF IInv, Typed
  <2>4. focus' = None \/ IsLive(focus') \/ replaced \/ refocused'
    BY <2>1 DEF IInv, Focused
  <2>5. pc'.at \in Places /\ pc'.at \in EmptyHanded /\ pc'.at \notin {"listener", "load", "undefined"}
    BY <2>2 DEF Places, EmptyHanded
  <2>6. QED
    BY <2>1, <2>3, <2>4, <2>5, Going
<1>3. CASE Goto("dead", None, "") /\ UNCHANGED <<treeVars, focus, jsVars, items, scripts, history>>
  <2>1. pc'.at = "dead"
    BY <1>3, Goes
  <2>2. QED
    BY <1>3, <2>1, Loading
<1>4. QED
  BY <1>1, <1>2, <1>3 DEF Styles

-----------------------------------------------------------------------------
(* Scripts *)

\* get_handler: a new handle stands for a live item that had none.
LEMMA QueryIInv ==
  ASSUME IInv, Query
  PROVE  IInv'
<1>1. PICK a \in Live : GetHandler(a)
  BY DEF Query
<1>2. UNCHANGED <<node, gen, replaced, refocused, layout, focus, items, scripts, pc>>
  BY DEF Query, treeVars, history
<1>3. CASE toHandle[a] # None
  <2>1. UNCHANGED <<toHandle, toNode>>
    BY <1>1, <1>3 DEF GetHandler
  <2>2. Typed' /\ HandlesAgree' /\ Blurred' /\ StaleUseExplained'
    BY <1>2, <2>1 DEF IInv, Typed, HandlesAgree, Blurred, StaleUseExplained, At
  <2>3. Sound' /\ Focused'
    BY <1>2, <2>1 DEF IInv, Sound, Focused, IsLive, Live
  <2>4. QED
    BY <2>2, <2>3 DEF IInv
<1>4. CASE toHandle[a] = None
  <2> DEFINE n == Len(toNode)
  <2>1. /\ toHandle' = [toHandle EXCEPT ![a] = n]
        /\ toNode' = Append(toNode, PointerTo(a))
    BY <1>1, <1>4 DEF GetHandler
  <2>2. /\ toNode \in Seq(Pointer) /\ toHandle \in [Addresses -> Nat \cup {None}]
        /\ a \in Addresses /\ a \in Live /\ node[a] \in Node /\ n \in Nat
        /\ DOMAIN toNode = 1..n
    BY DEF IInv, Typed, Live
  <2>3. PointerTo(a) \in Pointer /\ PointerTo(a).at = a /\ IsLive(PointerTo(a))
    BY <2>2 DEF PointerTo, Pointer, Node, IsLive
  <2>4. /\ toNode' \in Seq(Pointer) /\ Len(toNode') = n + 1
        /\ toNode'[n + 1] = PointerTo(a)
        /\ \A i \in 1..n : toNode'[i] = toNode[i]
    BY <2>1, <2>2, <2>3, AppendProperties
  <2>5. DOMAIN toNode' = 1..(n + 1) /\ \A h \in DOMAIN toNode' : h = n + 1 \/ h \in 1..n
    BY <2>2, <2>4
  <2> HIDE DEF n
  <2>6. /\ toHandle' \in [Addresses -> Nat \cup {None}] /\ toHandle'[a] = n /\ n # None
        /\ \A b \in Addresses : b # a => toHandle'[b] = toHandle[b]
    BY <2>1, <2>2, NoneAssumption
  <2>7. Typed'
    BY <1>2, <2>4, <2>6 DEF IInv, Typed, At
  <2>8. \A h \in 1..n : toNode[h].at # a /\ toNode[h].at \in Addresses
    <3>1. ASSUME NEW h \in 1..n PROVE toNode[h].at # a /\ toNode[h].at \in Addresses
      <4>1. toHandle[toNode[h].at] = h - 1 /\ h - 1 \in Nat
        BY <2>2 DEF IInv, HandlesAgree
      <4>2. toNode[h] \in Pointer
        BY <2>2, ElementOfSeq
      <4>3. QED
        BY <1>4, <4>1, <4>2, NoneAssumption DEF Pointer
    <3>2. QED
      BY <3>1
  <2>9. HandlesAgree'
    <3>1. ASSUME NEW h \in DOMAIN toNode' PROVE toHandle'[toNode'[h].at] = h - 1
      <4>1. CASE h = n + 1
        BY <2>2, <2>3, <2>4, <2>6, <4>1
      <4>2. CASE h \in 1..n
        <5>1. toNode'[h] = toNode[h] /\ toHandle[toNode[h].at] = h - 1
          BY <2>2, <2>4, <4>2 DEF IInv, HandlesAgree
        <5>2. QED
          BY <2>6, <2>8, <4>2, <5>1
      <4>3. QED
        BY <2>5, <4>1, <4>2
    <3>2. ASSUME NEW b \in Addresses, toHandle'[b] # None
          PROVE  toHandle'[b] + 1 \in DOMAIN toNode' /\ toNode'[toHandle'[b] + 1].at = b
      <4>1. CASE b = a
        BY <2>2, <2>3, <2>4, <2>5, <2>6, <4>1
      <4>2. CASE b # a
        <5>1. /\ toHandle'[b] = toHandle[b] /\ toHandle[b] + 1 \in 1..n
              /\ toNode[toHandle[b] + 1].at = b
          BY <2>2, <2>6, <3>2, <4>2 DEF IInv, HandlesAgree
        <5>2. toHandle[b] + 1 \in 1..(n + 1)
          BY <2>2, <5>1
        <5>3. QED
          BY <2>4, <2>5, <5>1, <5>2
      <4>3. QED
        BY <4>1, <4>2
    <3>3. QED
      BY <3>1, <3>2 DEF HandlesAgree
  <2>10. Live' = Live
    BY <1>2 DEF Live
  <2>11. Sound'
    <3>1. SUFFICES ASSUME ~replaced PROVE Sound'
      BY <1>2 DEF Sound
    <3>2. \A h \in DOMAIN toNode' : IsLive(toNode'[h])
      BY <2>2, <2>3, <2>4, <2>5, <3>1 DEF IInv, Sound
    <3>3. \A h \in DOMAIN toNode' : IsLive(toNode[h])'
      BY <1>2, <2>10, <3>2 DEF IsLive
    <3>4. QED
      BY <1>2, <2>10, <3>1, <3>3 DEF IInv, Sound, IsLive
  <2>12. Blurred' /\ StaleUseExplained' /\ Focused'
    BY <1>2, <2>10 DEF IInv, Blurred, StaleUseExplained, Focused, IsLive, At
  <2>13. QED
    BY <2>7, <2>9, <2>11, <2>12 DEF IInv
<1>5. QED
  BY <1>3, <1>4

LEMMA ListenIInv ==
  ASSUME IInv, Listen
  PROVE  IInv'
<1>1. /\ UNCHANGED <<node, toHandle, toNode, gen, replaced, refocused>>
      /\ UNCHANGED <<layout, focus, items, scripts, pc>>
  BY DEF Listen, treeVars, history
<1>2. Typed' /\ HandlesAgree' /\ Blurred' /\ StaleUseExplained'
  BY <1>1 DEF IInv, Typed, HandlesAgree, Blurred, StaleUseExplained, At
<1>3. Sound' /\ Focused'
  BY <1>1 DEF IInv, Sound, Focused, IsLive, Live
<1>4. QED
  BY <1>2, <1>3 DEF IInv

\* A handle of a freed item is one of a page whose scripts assigned to innerHTML.
LEMMA DeadHandle ==
  ASSUME IInv, NEW h \in DOMAIN toNode, toNode[h].at \notin Live
  PROVE  replaced
BY DEF IInv, Sound, IsLive

LEMMA SetInnerHTMLIInv ==
  ASSUME IInv, SetInnerHTML
  PROVE  IInv'
<1>1. PICK h \in DOMAIN toNode :
        \/ toNode[h].at \notin Live /\ Undefined
        \/ /\ toNode[h].at \in Live
           /\ \E d \in Fragments : Replace(toNode[h], d)
           /\ gen' = gen + 1 /\ replaced' = TRUE
           /\ UNCHANGED <<root, focus, jsVars, items, scripts, pc, refocused>>
  BY DEF SetInnerHTML
<1>2. CASE toNode[h].at \notin Live /\ Undefined
  BY <1>2, DeadHandle, UndefinedIInv
<1>3. CASE /\ toNode[h].at \in Live
           /\ \E d \in Fragments : Replace(toNode[h], d)
           /\ gen' = gen + 1 /\ replaced' = TRUE
           /\ UNCHANGED <<root, focus, jsVars, items, scripts, pc, refocused>>
  <2> DEFINE top == toNode[h].at
             freed(a) == a \in Live /\ a # top /\ top \in Ancestors[a]
             tree == [a \in Addresses |-> IF freed(a) THEN None ELSE node[a]]
  <2>1. PICK d \in Fragments : \E f \in Allocations(d) :
          node' = Grown(tree, d, f, top, gen + 1)
    BY <1>3 DEF Replace
  <2>2. PICK f \in Allocations(d) : node' = Grown(tree, d, f, top, gen + 1)
    BY <2>1
  <2>3. f \in [DOMAIN d -> Addresses]
    BY DEF Allocations, Injection, Live
  <2>4. tree \in [Addresses -> Node \cup {None}]
    <3>1. node \in [Addresses -> Node \cup {None}]
      BY DEF IInv, Typed
    <3> HIDE DEF freed
    <3>2. QED
      BY <3>1
  <2>5. top \in Addresses \cup {None} /\ gen + 1 \in Nat /\ d \in Pages \cup Fragments
    BY <1>3 DEF IInv, Typed, Live
  <2> HIDE DEF tree, top
  <2>6. node' \in [Addresses -> Node \cup {None}]
    <3>1. Grown(tree, d, f, top, gen + 1) \in [Addresses -> Node \cup {None}]
      BY <2>3, <2>4, <2>5, GrownNodes
    <3>2. QED
      BY <2>2, <3>1
  <2>7. /\ gen' = gen + 1 /\ replaced' = TRUE
        /\ UNCHANGED <<toHandle, toNode, focus, pc, refocused>>
    BY <1>3 DEF jsVars
  <2>8. Typed'
    BY <2>5, <2>6, <2>7 DEF IInv, Typed, At
  <2>9. HandlesAgree' /\ Blurred'
    BY <2>7 DEF IInv, HandlesAgree, Blurred, At
  <2>10. Sound' /\ Focused' /\ StaleUseExplained'
    BY <2>7 DEF Sound, Focused, StaleUseExplained
  <2>11. QED
    BY <2>8, <2>9, <2>10 DEF IInv
<1>4. QED
  BY <1>1, <1>2, <1>3

LEMMA ScriptIInv ==
  ASSUME IInv, Script
  PROVE  IInv'
<1>1. CASE GetAttribute
  <2>1. PICK h \in DOMAIN toNode : toNode[h].at \notin Live /\ Undefined
    BY <1>1 DEF GetAttribute
  <2>2. QED
    BY <2>1, DeadHandle, UndefinedIInv
<1>2. QED
  BY <1>1, QueryIInv, ListenIInv, SetInnerHTMLIInv, LoadStepsIInv DEF Script

-----------------------------------------------------------------------------
(* Events *)

\* What a handler finds freed is explained.
LEMMA StaleElt ==
  ASSUME IInv, pc.at \notin EmptyHanded, ~IsLive(pc.elt)
  PROVE  replaced \/ refocused
BY DEF IInv, Focused

LEMMA StaleFocus ==
  ASSUME IInv, focus # None, ~IsLive(focus)
  PROVE  replaced \/ refocused
BY DEF IInv, Focused

LEMMA Handling ==
  ASSUME NEW w \in Defaults \cup {"listener", "bubble"}, pc.at = w
  PROVE  pc.at \notin EmptyHanded /\ pc.at \notin Unrendered
BY DEF EmptyHanded, Unrendered, Defaults

\* Tab::blur: nothing has the focus; from here a click or a load goes on.
LEMMA BlurredOn ==
  ASSUME IInv, At("idle"), Blur, refocused' = FALSE,
         UNCHANGED <<treeVars, jsVars, items, scripts, gen, replaced>>,
         pc'.at \in {"idle", "bubble", "load"},
         pc'.at = "bubble" => pc'.elt \in layout
  PROVE  IInv'
<1>1. /\ UNCHANGED <<node, toHandle, toNode, gen, replaced, items, scripts>>
      /\ focus' = None /\ layout' \in {layout, LiveItems}
  BY DEF treeVars, jsVars, Blur
<1>2. pc.at \notin Unrendered
  BY DEF At, Unrendered
<1>3. ~replaced => \A p \in layout : IsLive(p)
  BY <1>2 DEF IInv, Sound
<1>4. /\ pc'.at \in Places /\ pc'.at \notin {"listener", "undefined"}
      /\ pc'.at \notin EmptyHanded => pc'.at = "bubble"
  BY DEF Places, EmptyHanded, Unrendered
<1>5. ~replaced => (pc'.at \notin EmptyHanded => IsLive(pc'.elt))
  BY <1>3, <1>4
<1>6. QED
  BY <1>1, <1>2, <1>4, <1>5, Going

LEMMA InputIInv ==
  ASSUME IInv, Click \/ Chrome \/ Key
  PROVE  IInv'
<1>1. CASE Click \/ Chrome
  <2>1. At("idle")
    BY <1>1 DEF Click, Chrome
  <2>2. CASE focus # None /\ ~IsLive(focus)
    <3>1. Undefined
      BY <1>1, <2>2 DEF Click, Chrome
    <3>2. QED
      BY <2>2, <3>1, StaleFocus, UndefinedIInv
  <2>3. CASE ~(focus # None /\ ~IsLive(focus))
    <3>1. /\ Blur /\ refocused' = FALSE
          /\ UNCHANGED <<treeVars, jsVars, items, scripts, gen, replaced>>
          /\ \/ Idle
             \/ \E p \in layout : Goto("bubble", p, "")
             \/ Goto("load", None, "")
      BY <1>1, <2>3 DEF Click, Chrome
    <3>2. CASE Idle \/ Goto("load", None, "")
      <4>1. pc'.at \in {"idle", "load"}
        BY <3>2, Goes DEF Idle
      <4>2. QED
        BY <2>1, <3>1, <4>1, BlurredOn
    <3>3. CASE \E p \in layout : Goto("bubble", p, "")
      <4>1. pc'.at = "bubble" /\ pc'.elt \in layout
        BY <3>3, Goes
      <4>2. QED
        BY <2>1, <3>1, <4>1, BlurredOn
    <3>4. QED
      BY <3>1, <3>2, <3>3
  <2>4. QED
    BY <2>2, <2>3
<1>2. CASE Key
  <2>1. /\ At("idle") /\ focus # None /\ Dispatch("keydown", focus, "edit")
        /\ UNCHANGED <<treeVars, layout, focus, jsVars, items, scripts, history>>
    BY <1>2 DEF Key
  <2>2. "edit" \in Defaults
    BY DEF Defaults
  <2>3. /\ pc'.elt = focus
        /\ pc'.at = "edit" \/ (pc'.at = "listener" /\ pc'.then = "edit")
    BY <2>1, <2>2, DispatchGoes
  <2>4. IsLive(pc'.elt) \/ replaced \/ refocused
    BY <2>1, <2>3, StaleFocus
  <2>5. pc.at \notin Unrendered
    BY <2>1 DEF At, Unrendered
  <2>6. QED
    BY <2>1, <2>2, <2>3, <2>4, <2>5, OnWith
<1>3. QED
  BY <1>1, <1>2

\* Every handler stops at a freed item or goes on from a live one.
LEMMA HandlersIInv ==
  ASSUME IInv, NEW w \in Defaults \cup {"listener", "bubble"}, pc.at = w,
         ~IsLive(pc.elt), Undefined
  PROVE  IInv'
BY Handling, StaleElt, UndefinedIInv

LEMMA BubbleIInv ==
  ASSUME IInv, Bubble
  PROVE  IInv'
<1> DEFINE kind == node[pc.elt.at].kind
<1>1. pc.at = "bubble"
  BY DEF Bubble, At
<1>2. CASE ~IsLive(pc.elt) /\ Undefined
  BY <1>1, <1>2, HandlersIInv
<1>3. CASE /\ IsLive(pc.elt)
           /\ CASE kind = "a" -> Dispatch("click", pc.elt, "follow")
                [] kind = "input" -> Dispatch("click", pc.elt, "focus")
                [] kind = "button" -> Dispatch("click", pc.elt, "press")
                [] OTHER -> Up(pc.elt)
           /\ UNCHANGED <<treeVars, layout, focus, jsVars, items, scripts, history>>
  <2>1. \/ \E then \in Defaults : Dispatch("click", pc.elt, then)
        \/ Up(pc.elt)
    BY <1>3 DEF Defaults
  <2>2. CASE \E then \in Defaults : Dispatch("click", pc.elt, then)
    <3>1. PICK then \in Defaults : Dispatch("click", pc.elt, then)
      BY <2>2
    <3>2. /\ pc'.elt = pc.elt
          /\ pc'.at = then \/ (pc'.at = "listener" /\ pc'.then = then)
      BY <3>1, DispatchGoes
    <3>3. QED
      BY <1>1, <1>3, <3>2, Handling, OnWith
  <2>3. CASE Up(pc.elt)
    <3>1. pc'.at = "idle" \/ (pc'.at = "bubble" /\ Parent(pc.elt) # None /\ pc'.elt = Parent(pc.elt))
      BY <2>3, UpGoes
    <3>2. pc'.at = "bubble" => IsLive(pc'.elt) \/ replaced
      BY <1>3, <3>1, LiveParent
    <3>3. pc'.at \in {"idle", "bubble"} /\ "idle" \in EmptyHanded
      BY <3>1 DEF EmptyHanded
    <3>4. QED
      BY <1>1, <1>3, <3>2, <3>3, Handling, OnWith
  <2>4. QED
    BY <2>1, <2>2, <2>3
<1>4. QED
  BY <1>2, <1>3 DEF Bubble

LEMMA EndListenerIInv ==
  ASSUME IInv, EndListener
  PROVE  IInv'
<1>1. pc.at = "listener" /\ pc.then \in Defaults
  BY DEF EndListener, At, IInv, Typed
<1>2. CASE ~IsLive(pc.elt) /\ Undefined
  BY <1>1, <1>2, HandlersIInv
<1>3. CASE /\ Goto(pc.then, pc.elt, "") \/ Idle
           /\ UNCHANGED <<treeVars, layout, focus, jsVars, items, scripts, history>>
  <2>1. (pc'.at = pc.then /\ pc'.elt = pc.elt) \/ pc'.at = "idle"
    BY <1>3, Goes DEF Idle
  <2>2. pc.at \notin EmptyHanded /\ pc.at \notin Unrendered /\ "idle" \in EmptyHanded
    BY <1>1, Handling DEF EmptyHanded
  <2>3. IsLive(pc.elt) \/ replaced \/ refocused
    BY <2>2, StaleElt
  <2>4. QED
    BY <1>1, <1>3, <2>1, <2>2, <2>3, OnWith
<1>4. QED
  BY <1>2, <1>3 DEF EndListener

LEMMA EditIInv ==
  ASSUME IInv, Edit \/ Follow \/ Send
  PROVE  IInv'
<1>1. pc.at \in {"edit", "follow", "send"} /\ pc.at \in Defaults
  BY DEF Edit, Follow, Send, At, Defaults
<1>2. CASE ~IsLive(pc.elt) /\ Undefined
  BY <1>1, <1>2, HandlersIInv
<1>3. CASE /\ layout' \in {layout, LiveItems}
           /\ Idle \/ Goto("load", None, "clicked")
           /\ UNCHANGED <<treeVars, focus, jsVars, items, scripts, history>>
  <2>1. pc'.at = "idle" \/ (pc'.at = "load" /\ pc'.then = "clicked")
    BY <1>3, Goes DEF Idle
  <2>2. {"idle", "load"} \subseteq EmptyHanded
    BY DEF EmptyHanded, Unrendered
  <2>3. QED
    BY <1>1, <1>3, <2>1, <2>2, Handling, OnWith
<1>4. QED
  BY <1>2, <1>3 DEF Edit, Follow, Send

LEMMA FocusIInv ==
  ASSUME IInv, Focus
  PROVE  IInv'
<1>1. pc.at = "focus" /\ pc.at \in Defaults
  BY DEF Focus, At, Defaults
<1>2. CASE ~IsLive(pc.elt) /\ Undefined
  BY <1>1, <1>2, HandlersIInv
<1>3. CASE /\ IsLive(pc.elt)
           /\ focus' = pc.elt /\ layout' = LiveItems
           /\ Up(pc.elt)
           /\ UNCHANGED <<treeVars, jsVars, items, scripts, history>>
  <2>1. pc'.at = "idle" \/ (pc'.at = "bubble" /\ Parent(pc.elt) # None /\ pc'.elt = Parent(pc.elt))
    BY <1>3, UpGoes
  <2>2. pc'.at = "bubble" => IsLive(pc'.elt) \/ replaced
    BY <1>3, <2>1, LiveParent
  <2>3. /\ pc'.at \in Places /\ pc'.at \notin {"listener", "load", "undefined"}
        /\ pc'.at \notin EmptyHanded => pc'.at = "bubble"
    BY <2>1 DEF Places, EmptyHanded
  <2>4. /\ UNCHANGED <<node, toHandle, toNode, gen, replaced, refocused, items, scripts>>
        /\ IsLive(focus') /\ layout' = LiveItems
    BY <1>3 DEF treeVars, jsVars, history
  <2>5. refocused' \in BOOLEAN
    BY <2>4 DEF IInv, Typed
  <2>6. QED
    BY <2>2, <2>3, <2>4, <2>5, Going
<1>4. QED
  BY <1>2, <1>3 DEF Focus

LEMMA PressIInv ==
  ASSUME IInv, Press
  PROVE  IInv'
<1>1. pc.at = "press" /\ pc.at \in Defaults
  BY DEF Press, At, Defaults
<1>2. CASE ~IsLive(pc.elt) /\ Undefined
  BY <1>1, <1>2, HandlersIInv
<1>3. CASE /\ IsLive(pc.elt)
           /\ \/ Dispatch("submit", pc.elt, "send")
              \/ IF Parent(pc.elt) = None THEN Idle ELSE Goto("press", Parent(pc.elt), "")
           /\ UNCHANGED <<treeVars, layout, focus, jsVars, items, scripts, history>>
  <2>1. CASE Dispatch("submit", pc.elt, "send")
    <3>1. "send" \in Defaults
      BY DEF Defaults
    <3>2. /\ pc'.elt = pc.elt
          /\ pc'.at = "send" \/ (pc'.at = "listener" /\ pc'.then = "send")
      BY <2>1, <3>1, DispatchGoes
    <3>3. QED
      BY <1>1, <1>3, <3>1, <3>2, Handling, OnWith
  <2>2. CASE Parent(pc.elt) = None /\ Idle
    <3>1. pc'.at = "idle" /\ "idle" \in EmptyHanded
      BY <2>2, Goes DEF Idle, EmptyHanded
    <3>2. QED
      BY <1>1, <1>3, <3>1, Handling, OnWith
  <2>3. CASE Parent(pc.elt) # None /\ Goto("press", Parent(pc.elt), "")
    <3>1. pc'.at = "press" /\ pc'.elt = Parent(pc.elt)
      BY <2>3, Goes
    <3>2. IsLive(pc'.elt) \/ replaced
      BY <1>3, <2>3, <3>1, LiveParent
    <3>3. QED
      BY <1>1, <1>3, <3>1, <3>2, Handling, OnWith
  <2>4. QED
    BY <1>3, <2>1, <2>2, <2>3
<1>4. QED
  BY <1>2, <1>3 DEF Press

-----------------------------------------------------------------------------
(* The tree in one piece *)

\* The items hang from the root: ranks that fall on the way up.
Descends(rank) ==
  \A a \in Live : IF a = root THEN node[a].up = None
                  ELSE node[a].up \in Live /\ rank[node[a].up] < rank[a]

OneTree == IsFiniteSet(Live) /\ \E rank \in [Addresses -> Nat] : Descends(rank)

\* Where the page is rendered, what is laid out is the tree.
Rendered == pc.at \notin Unrendered => layout = LiveItems

FreshInv == OneTree /\ Rendered

\* Items and their parents.
Raised(s) == s \cup ({node[a].up : a \in s} \ {None})

\* Ancestors is a climb of Cardinality(Live) turns.
Climbs(g, p, N) ==
  /\ g \in [0..N -> SUBSET Live]
  /\ g[0] = {p}
  /\ \A n \in 1..N : g[n] = Raised(g[n - 1])
  /\ Ancestors[p] = g[N]

LEMMA AncestorsClimb ==
  ASSUME Cardinality(Live) \in Nat, \A a \in Live : node[a].up \in Live \cup {None},
         NEW p \in Live
  PROVE  \E g : Climbs(g, p, Cardinality(Live))
<1> DEFINE N == Cardinality(Live)
           Body(u) == [n \in 0..N |-> IF n = 0 THEN {p}
                                      ELSE u[n - 1] \cup ({node[a].up : a \in u[n - 1]} \ {None})]
           g == CHOOSE u : u = Body(u)
           step == [q \in Nat \X SUBSET Live |-> Raised(q[2])]
<1>1. Ancestors[p] = g[N]
  BY DEF Ancestors
<1>2. step \in [Nat \X SUBSET Live -> SUBSET Live]
  BY DEF Raised
<1>3. PICK h \in [Nat -> SUBSET Live] : h[0] = {p} /\ \A n \in Nat : h[n + 1] = step[<<n, h[n]>>]
  <2> DEFINE S == SUBSET Live
             s == {p}
  <2>1. s \in S /\ step \in [Nat \X S -> S]
    BY <1>2
  <2> HIDE DEF step, S, s
  <2>2. \E h \in [Nat -> S] : Recurs(h, s, step)
    BY <2>1, Recursion
  <2>3. QED
    BY <2>2 DEF S, s, Recurs
<1>4. \A n \in Nat : h[n + 1] = Raised(h[n])
  BY <1>3
<1> HIDE DEF step, N
<1> DEFINE k == [n \in 0..N |-> h[n]]
<1>5. k = Body(k)
  <2>1. ASSUME NEW n \in 0..N PROVE k[n] = Body(k)[n]
    <3>1. CASE n = 0
      BY <1>3, <3>1
    <3>2. CASE n # 0
      <4>1. n - 1 \in 0..N /\ n - 1 \in Nat /\ (n - 1) + 1 = n
        BY <3>2 DEF N
      <4>2. k[n] = Raised(k[n - 1])
        BY <1>4, <4>1
      <4>3. QED
        BY <4>2, <3>2 DEF Raised
    <3>3. QED
      BY <3>1, <3>2
  <2>2. QED
    BY <2>1
<1>6. g = Body(g)
  <2> HIDE DEF Body, k
  <2>1. QED
    BY <1>5
<1>7. g[0] = {p} /\ \A n \in 1..N : g[n] = Raised(g[n - 1])
  <2> HIDE DEF g
  <2>1. 0 \in 0..N /\ \A n \in 1..N : n \in 0..N /\ n # 0
    BY DEF N
  <2>2. QED
  BY <1>6, <2>1 DEF Raised
<1>8. g \in [0..N -> SUBSET Live]
  <2> DEFINE T == {n \in Nat : n <= N => g[n] \in SUBSET Live}
  <2> HIDE DEF g
  <2>1. 0 \in T
    BY <1>7
  <2>2. ASSUME NEW n \in Nat, n \in T PROVE n + 1 \in T
    <3>1. CASE n + 1 <= N
      <4>1. n + 1 \in 1..N /\ (n + 1) - 1 = n /\ g[n] \in SUBSET Live
        BY <2>2, <3>1 DEF N
      <4>2. g[n + 1] = Raised(g[n])
        BY <4>1, <1>7
      <4>3. QED
        BY <4>1, <4>2 DEF Raised
    <3>2. QED
      BY <3>1
  <2> HIDE DEF T
  <2>3. Nat \subseteq T
    BY <2>1, <2>2, NatAll
  <2>4. \A n \in 0..N : g[n] \in SUBSET Live
    BY <2>3 DEF N, T
  <2>5. g = [n \in 0..N |-> g[n]]
    BY <1>6
  <2>6. QED
    BY <2>4, <2>5
<1>9. QED
  BY <1>1, <1>7, <1>8 DEF N, Climbs

\* With every item a set has its parent.
UpClosed(s) == \A a \in s : node[a].up \in s \cup {None}

\* The ancestors of an item are no more than any set that has it and is closed.
LEMMA AncestorsLeast ==
  ASSUME Cardinality(Live) \in Nat, \A a \in Live : node[a].up \in Live \cup {None},
         NEW p \in Live, NEW C, p \in C, UpClosed(C)
  PROVE  Ancestors[p] \subseteq C
<1> DEFINE N == Cardinality(Live)
<1>1. PICK g : Climbs(g, p, N)
  BY AncestorsClimb
<1> DEFINE T == {n \in Nat : n <= N => g[n] \subseteq C}
<1>2. 0 \in T
  BY <1>1 DEF Climbs
<1>3. ASSUME NEW n \in Nat, n \in T PROVE n + 1 \in T
  <2>1. CASE n + 1 <= N
    <3>1. n + 1 \in 1..N /\ (n + 1) - 1 = n /\ g[n] \subseteq C
      BY <1>3, <2>1
    <3>2. g[n + 1] = Raised(g[n])
      BY <1>1, <3>1 DEF Climbs
    <3>3. QED
      BY <3>1, <3>2 DEF Raised, UpClosed
  <2>2. QED
    BY <2>1
<1> HIDE DEF T
<1>4. N \in T
  BY <1>2, <1>3, NatAll
<1>5. QED
  BY <1>1, <1>4 DEF T, Climbs

\* They are closed themselves: a climb that still finds items after
\* Cardinality(Live) turns would have found more than there are.
LEMMA AncestorsClosed ==
  ASSUME IsFiniteSet(Live), \A a \in Live : node[a].up \in Live \cup {None}, NEW p \in Live
  PROVE  p \in Ancestors[p] /\ Ancestors[p] \subseteq Live /\ UpClosed(Ancestors[p])
<1> DEFINE N == Cardinality(Live)
<1>1. N \in Nat
  BY FS_CardinalityType
<1>2. PICK g : Climbs(g, p, N)
  BY <1>1, AncestorsClimb
<1> HIDE DEF N
<1>3. \A n \in 0..N : g[n] \subseteq Live
  BY <1>2 DEF Climbs
<1>4. \A n \in 0..(N - 1) : g[n + 1] = Raised(g[n])
  <2>1. \A n \in 0..(N - 1) : n + 1 \in 1..N /\ (n + 1) - 1 = n
    BY <1>1
  <2>2. QED
    BY <1>2, <2>1 DEF Climbs
<1>5. \A n \in 0..(N - 1) : g[n] \subseteq g[n + 1]
  BY <1>4 DEF Raised
<1>6. p \in Ancestors[p]
  <2> DEFINE T == {n \in Nat : n <= N => p \in g[n]}
  <2>1. 0 \in T
    BY <1>2 DEF Climbs
  <2>2. \A n \in Nat : n \in T => n + 1 \in T
    BY <1>1, <1>5
  <2> HIDE DEF T
  <2>3. N \in T
    BY <1>1, <2>1, <2>2, NatAll
  <2>4. QED
    BY <1>1, <1>2, <2>3 DEF T, Climbs
<1>7. \E n \in 0..(N - 1) : g[n + 1] = g[n]
  <2>1. SUFFICES ASSUME \A n \in 0..(N - 1) : g[n + 1] # g[n] PROVE FALSE
    OBVIOUS
  <2> DEFINE T == {n \in Nat : n <= N => IsFiniteSet(g[n]) /\ Cardinality(g[n]) > n}
  <2>2. 0 \in T
    <3>1. g[0] = {p} /\ IsFiniteSet({p}) /\ Cardinality({p}) = 1
      BY <1>2, FS_Singleton DEF Climbs
    <3>2. QED
      BY <3>1
  <2>3. ASSUME NEW n \in Nat, n \in T PROVE n + 1 \in T
    <3>1. CASE n + 1 <= N
      <4>1. n \in 0..(N - 1) /\ n + 1 \in 0..N
        BY <1>1, <3>1
      <4>2. IsFiniteSet(g[n]) /\ Cardinality(g[n]) > n /\ Cardinality(g[n]) \in Nat
        BY <2>3, <4>1, <1>1, FS_CardinalityType
      <4>3. g[n] \subseteq g[n + 1] /\ g[n + 1] # g[n] /\ g[n + 1] \subseteq Live
        BY <1>3, <1>5, <2>1, <4>1
      <4>4. IsFiniteSet(g[n + 1]) /\ Cardinality(g[n + 1]) \in Nat
        BY <4>3, FS_Subset, FS_CardinalityType
      <4>5. Cardinality(g[n]) <= Cardinality(g[n + 1]) /\ Cardinality(g[n]) # Cardinality(g[n + 1])
        BY <4>3, <4>4, FS_Subset
      <4>6. QED
        BY <4>2, <4>4, <4>5
    <3>2. QED
      BY <3>1
  <2> HIDE DEF T
  <2>4. N \in T
    BY <1>1, <2>2, <2>3, NatAll
  <2>5. IsFiniteSet(g[N]) /\ Cardinality(g[N]) > N /\ g[N] \subseteq Live
    BY <1>1, <1>3, <2>4 DEF T
  <2>6. Cardinality(g[N]) <= N /\ Cardinality(g[N]) \in Nat
    BY <2>5, FS_Subset, FS_CardinalityType DEF N
  <2>7. QED
    BY <1>1, <2>5, <2>6
<1>8. PICK m \in 0..(N - 1) : g[m + 1] = g[m]
  BY <1>7
<1>9. g[N] = g[m]
  <2> DEFINE T == {n \in Nat : m <= n /\ n <= N => g[n] = g[m]}
  <2>1. 0 \in T
    BY <1>1
  <2>2. ASSUME NEW n \in Nat, n \in T PROVE n + 1 \in T
    <3>1. CASE m <= n /\ n + 1 <= N
      <4>1. g[n] = g[m] /\ n \in 0..(N - 1)
        BY <1>1, <2>2, <3>1
      <4>2. g[n + 1] = Raised(g[m]) /\ g[m + 1] = Raised(g[m])
        BY <1>4, <4>1
      <4>3. QED
        BY <1>8, <4>2
    <3>2. CASE m = n + 1
      BY <3>2
    <3>3. QED
      BY <1>1, <3>1, <3>2
  <2> HIDE DEF T
  <2>3. N \in T
    BY <1>1, <2>1, <2>2, NatAll
  <2>4. QED
    BY <1>1, <2>3 DEF T
<1>10. UpClosed(g[N])
  <2>1. g[m] = Raised(g[m])
    BY <1>4, <1>8
  <2>2. QED
    BY <1>9, <2>1 DEF UpClosed, Raised
<1>11. g[N] \subseteq Live
  BY <1>1, <1>3
<1>12. Ancestors[p] = g[N]
  BY <1>2 DEF Climbs
<1>13. QED
  BY <1>6, <1>10, <1>11, <1>12

LEMMA ParentsLive ==
  ASSUME NEW rank, Descends(rank)
  PROVE  \A a \in Live : node[a].up \in Live \cup {None}
BY DEF Descends

\* In one tree every item has the root among its ancestors.
LEMMA OneTreeRooted == OneTree => Rooted
<1> SUFFICES ASSUME OneTree, NEW a \in Live PROVE root \in Ancestors[a]
  BY DEF Rooted
<1>1. PICK rank \in [Addresses -> Nat] : Descends(rank)
  BY DEF OneTree
<1>2. \A b \in Live : node[b].up \in Live \cup {None}
  BY <1>1, ParentsLive
<1>3. a \in Ancestors[a] /\ Ancestors[a] \subseteq Live /\ UpClosed(Ancestors[a])
  BY <1>2, AncestorsClosed DEF OneTree
<1> DEFINE T == {rank[b] : b \in Ancestors[a]}
<1>4. T \subseteq Nat /\ T # {}
  BY <1>1, <1>3 DEF Live
<1> HIDE DEF T
<1>5. PICK n \in T : \A k \in T : n <= k
  BY <1>4, NatMin
<1>6. PICK b \in Ancestors[a] : n = rank[b]
  BY DEF T
<1>7. \A c \in Ancestors[a] : rank[b] <= rank[c]
  BY <1>5, <1>6 DEF T
<1>8. CASE b # root
  <2>1. node[b].up \in Live /\ rank[node[b].up] < rank[b]
    BY <1>1, <1>3, <1>6, <1>8 DEF Descends
  <2>2. node[b].up \in Ancestors[a]
    BY <1>3, <2>1, NoneAssumption DEF UpClosed, Live
  <2>3. rank[b] \in Nat /\ rank[node[b].up] \in Nat
    BY <1>1, <1>3, <2>1 DEF Live
  <2>4. QED
    BY <1>7, <2>1, <2>2, <2>3
<1>9. QED
  BY <1>8

\* Ancestors rank lower.
LEMMA AncestorsRank ==
  ASSUME OneTree, NEW rank \in [Addresses -> Nat], Descends(rank), NEW a \in Live, NEW b \in Ancestors[a]
  PROVE  b = a \/ rank[b] < rank[a]
<1> DEFINE C == {a} \cup {c \in Live : rank[c] < rank[a]}
<1>1. UpClosed(C)
  <2>1. ASSUME NEW c \in C PROVE node[c].up \in C \cup {None}
    <3>1. c \in Live /\ (c = a \/ rank[c] < rank[a])
      BY <2>1
    <3>2. CASE c = root
      BY <3>1, <3>2 DEF Descends
    <3>3. CASE c # root
      <4>1. node[c].up \in Live /\ rank[node[c].up] < rank[c]
        BY <3>1, <3>3 DEF Descends
      <4>2. rank[c] \in Nat /\ rank[a] \in Nat /\ rank[node[c].up] \in Nat
        BY <3>1, <4>1 DEF Live
      <4>3. QED
        BY <3>1, <4>1, <4>2
    <3>4. QED
      BY <3>2, <3>3
  <2>2. QED
    BY <2>1 DEF UpClosed
<1>2. Cardinality(Live) \in Nat
  BY FS_CardinalityType DEF OneTree
<1>3. a \in C
  OBVIOUS
<1> HIDE DEF C
<1>4. Ancestors[a] \subseteq C
  BY <1>1, <1>2, <1>3, ParentsLive, AncestorsLeast
<1>5. QED
  BY <1>4 DEF C

\* The ancestors of a parent are ancestors.
LEMMA AncestorsUp ==
  ASSUME IsFiniteSet(Live), \A a \in Live : node[a].up \in Live \cup {None},
         NEW a \in Live, node[a].up \in Live
  PROVE  Ancestors[node[a].up] \subseteq Ancestors[a]
<1>1. a \in Ancestors[a] /\ UpClosed(Ancestors[a])
  BY AncestorsClosed
<1>2. node[a].up \in Ancestors[a]
  BY <1>1, NoneAssumption DEF UpClosed, Live
<1>3. Cardinality(Live) \in Nat
  BY FS_CardinalityType
<1>4. QED
  BY <1>1, <1>2, <1>3, AncestorsLeast

\* Where new items hang: each under an earlier one, or under the top.
LEMMA GrownParents ==
  ASSUME NEW d \in Pages \cup Fragments, NEW tree, NEW f \in [DOMAIN d -> Addresses],
         IsInjective(f), NEW top, NEW g, NEW i \in DOMAIN d
  PROVE  /\ i \in Nat
         /\ d[i].up = 0 => Grown(tree, d, f, top, g)[f[i]].up = top
         /\ d[i].up # 0 => /\ d[i].up \in DOMAIN d /\ d[i].up < i
                           /\ Grown(tree, d, f, top, g)[f[i]].up = f[d[i].up]
<1>1. d \in Seq([kind : Kinds, up : Nat]) /\ d[i].up < i
  BY PagesAssumption
<1>2. DOMAIN d = 1..Len(d) /\ Len(d) \in Nat
  BY <1>1
<1>3. d[i].up \in Nat
  <2>1. \A j \in 1..Len(d) : d[j] \in [kind : Kinds, up : Nat]
    BY <1>1, ElementOfSeq
  <2>2. QED
    BY <1>2, <2>1
<1>4. (CHOOSE j \in DOMAIN d : f[j] = f[i]) = i
  BY DEF IsInjective
<1>5. f[i] \in Range(f) /\ f[i] \in Addresses
  BY DEF Range
<1>6. Grown(tree, d, f, top, g)[f[i]] =
        [kind |-> d[i].kind, up |-> IF d[i].up = 0 THEN top ELSE f[d[i].up], gen |-> g]
  BY <1>4, <1>5 DEF Grown
<1>7. QED
  BY <1>1, <1>2, <1>3, <1>6

\* As many addresses as items.
LEMMA FiniteRange ==
  ASSUME NEW d \in Pages \cup Fragments, NEW f \in [DOMAIN d -> Addresses]
  PROVE  IsFiniteSet(Range(f))
<1>1. DOMAIN d = 1..Len(d) /\ Len(d) \in Nat
  BY PagesAssumption
<1>2. IsFiniteSet(DOMAIN d)
  BY <1>1, FS_Interval
<1>3. f \in Surjection(DOMAIN d, Range(f))
  BY DEF Surjection, Range
<1>4. QED
  BY <1>2, <1>3, FS_Surjection

\* The ranks an item had, and above base one more for each new item.
Reranked(rank, d, f, base) ==
  [a \in Addresses |->
     IF a \in Range(f) THEN base + (CHOOSE j \in DOMAIN d : f[j] = a) ELSE rank[a]]

LEMMA RerankedNew ==
  ASSUME NEW d \in Pages \cup Fragments, NEW f \in [DOMAIN d -> Addresses], IsInjective(f),
         NEW rank \in [Addresses -> Nat], NEW base \in Nat
  PROVE  /\ Reranked(rank, d, f, base) \in [Addresses -> Nat]
         /\ \A i \in DOMAIN d : i \in Nat /\ i > 0 /\ Reranked(rank, d, f, base)[f[i]] = base + i
         /\ \A a \in Addresses \ Range(f) : Reranked(rank, d, f, base)[a] = rank[a]
<1> DEFINE first(a) == CHOOSE j \in DOMAIN d : f[j] = a
<1>1. DOMAIN d = 1..Len(d) /\ Len(d) \in Nat
  BY PagesAssumption
<1>2. \A i \in DOMAIN d : first(f[i]) = i /\ f[i] \in Range(f) /\ f[i] \in Addresses
  BY DEF IsInjective, Range
<1>3. \A a \in Range(f) : first(a) \in DOMAIN d
  BY DEF Range
<1> HIDE DEF first
<1>4. Reranked(rank, d, f, base) =
        [a \in Addresses |-> IF a \in Range(f) THEN base + first(a) ELSE rank[a]]
  BY DEF Reranked, first
<1>5. \A i \in DOMAIN d : i \in Nat /\ i > 0
  BY <1>1
<1>6. QED
  BY <1>2, <1>3, <1>4, <1>5

\* Tab::load: the new page is one tree.
LEMMA LoadOneTree ==
  ASSUME IInv, Load
  PROVE  OneTree'
<1> DEFINE Bare == [a \in Addresses |-> None]
           zero == [a \in Addresses |-> 0]
<1>1. PICK d \in Pages : \E f \in Allocations(d) :
        node' = Grown(Bare, d, f, None, gen + 1) /\ root' = f[1]
  BY DEF Load
<1>2. PICK f \in Allocations(d) :
        node' = Grown(Bare, d, f, None, gen + 1) /\ root' = f[1]
  BY <1>1
<1>3. f \in [DOMAIN d -> Addresses] /\ IsInjective(f) /\ d \in Pages \cup Fragments
  BY DEF Allocations, Injection, Live
<1>4. gen + 1 \in Nat
  BY DEF IInv, Typed
<1>5. Bare \in [Addresses -> Node \cup {None}] /\ \A a \in Addresses : Bare[a] = None
  OBVIOUS
<1>6. zero \in [Addresses -> Nat]
  OBVIOUS
<1> HIDE DEF Bare, zero
<1>7. /\ \A i \in DOMAIN d : node'[f[i]] \in Node
      /\ \A a \in Addresses \ Range(f) : node'[a] = None
  <2>1. LET q == Grown(Bare, d, f, None, gen + 1)
        IN /\ q \in [Addresses -> Node \cup {None}]
           /\ \A a \in Addresses : a \notin Range(f) => q[a] = Bare[a]
           /\ \A i \in DOMAIN d :
                /\ q[f[i]] \in Node /\ q[f[i]].gen = gen + 1
                /\ q[f[i]].up \in Range(f) \cup {None}
    BY <1>3, <1>4, <1>5, GrownNodes
  <2>2. QED
    BY <1>2, <1>5, <2>1
<1>8. Live' = Range(f)
  <2>1. \A a \in Range(f) : \E i \in DOMAIN d : f[i] = a
    BY <1>3 DEF Range
  <2>2. \A a \in Range(f) : a \in Addresses /\ node'[a] # None
    BY <1>3, <1>7, <2>1, NoneAssumption
  <2>3. QED
    BY <1>7, <2>2 DEF Live
<1> DEFINE rank == Reranked(zero, d, f, 0)
<1>9. rank \in [Addresses -> Nat] /\ \A i \in DOMAIN d : i \in Nat /\ rank[f[i]] = 0 + i
  BY <1>3, <1>6, RerankedNew
<1> HIDE DEF rank
<1>10. ASSUME NEW a \in Live'
       PROVE  IF a = root' THEN node'[a].up = None
              ELSE node'[a].up \in Live' /\ rank[node'[a].up] < rank[a]
  <2>1. PICK i \in DOMAIN d : a = f[i]
    BY <1>3, <1>8, <1>10 DEF Range
  <2>2. /\ i \in Nat
        /\ d[i].up = 0 => node'[a].up = None
        /\ d[i].up # 0 => d[i].up \in DOMAIN d /\ d[i].up < i /\ node'[a].up = f[d[i].up]
    BY <1>2, <1>3, <2>1, GrownParents
  <2>3. CASE i = 1
    <3>1. d[i].up = 0
      BY <1>9, <2>2, <2>3, PagesAssumption
    <3>2. QED
      BY <1>2, <2>1, <2>2, <2>3, <3>1
  <2>4. CASE i # 1
    <3>1. d[i].up # 0
      BY <2>4, PagesAssumption
    <3>2. a # root'
      <4>1. 1 \in DOMAIN d
        <5>1. d # <<>> /\ d \in Seq([kind : Kinds, up : Nat])
          BY PagesAssumption
        <5>2. QED
          BY <5>1, EmptySeq
      <4>2. QED
        BY <1>2, <1>3, <2>1, <2>4, <4>1 DEF IsInjective
    <3>3. f[d[i].up] \in Range(f) /\ rank[f[d[i].up]] = d[i].up /\ rank[a] = i /\ d[i].up \in Nat
      BY <1>3, <1>9, <2>1, <2>2, <3>1 DEF Range
    <3>4. QED
      BY <1>8, <2>2, <3>1, <3>2, <3>3
  <2>5. QED
    BY <2>3, <2>4
<1>11. Descends(rank)'
  BY <1>10 DEF Descends
<1>12. QED
  BY <1>3, <1>8, <1>9, <1>11, FiniteRange DEF OneTree

\* JSBindings::innerHTML_set: what stays hangs where it hung, and the fragment
\* hangs from the item.
LEMMA ReplaceOneTree ==
  ASSUME IInv, OneTree, NEW p, p.at \in Live, NEW d \in Fragments, Replace(p, d),
         UNCHANGED root
  PROVE  OneTree'
<1> DEFINE top == p.at
           freed(a) == a \in Live /\ a # top /\ top \in Ancestors[a]
           tree == [a \in Addresses |-> IF freed(a) THEN None ELSE node[a]]
           kept == {a \in Live : ~freed(a)}
<1>1. PICK f \in Allocations(d) : node' = Grown(tree, d, f, top, gen + 1)
  BY DEF Replace
<1>2. f \in [DOMAIN d -> Addresses \ Live] /\ IsInjective(f) /\ d \in Pages \cup Fragments
  BY DEF Allocations, Injection
<1>3. f \in [DOMAIN d -> Addresses] /\ Range(f) \subseteq Addresses \ Live
  BY <1>2 DEF Range
<1>4. PICK rank \in [Addresses -> Nat] : Descends(rank)
  BY DEF OneTree
<1>5. IsFiniteSet(Live) /\ \A a \in Live : node[a].up \in Live \cup {None}
  BY <1>4, ParentsLive DEF OneTree
<1>6. top \in kept
  OBVIOUS
<1>7. root \in Live => root \in kept
  <2>1. SUFFICES ASSUME root \in Live, top \in Ancestors[root], root # top PROVE FALSE
    OBVIOUS
  <2>2. node[root].up = None
    BY <1>4, <2>1 DEF Descends
  <2>3. UpClosed({root})
    BY <2>2 DEF UpClosed
  <2>4. Cardinality(Live) \in Nat
    BY <1>5, FS_CardinalityType
  <2>5. Ancestors[root] \subseteq {root}
    BY <1>5, <2>1, <2>3, <2>4, AncestorsLeast
  <2>6. QED
    BY <2>1, <2>5
<1>8. ASSUME NEW a \in kept, a # root PROVE node[a].up \in kept
  <2>1. a \in Live /\ node[a].up \in Live /\ rank[node[a].up] < rank[a]
    BY <1>4, <1>8 DEF Descends
  <2>2. SUFFICES ASSUME freed(node[a].up) PROVE FALSE
    BY <2>1
  <2>3. top \in Ancestors[a]
    BY <1>5, <2>1, <2>2, AncestorsUp
  <2>4. a = top
    BY <1>8, <2>1, <2>3
  <2>5. top \in Ancestors[node[top].up] /\ node[top].up # top
    BY <2>2, <2>4
  <2>6. rank[top] < rank[node[top].up]
    BY <1>4, <2>1, <2>4, <2>5, AncestorsRank
  <2>7. rank[top] \in Nat /\ rank[node[top].up] \in Nat
    BY <1>4, <2>1, <2>4 DEF Live
  <2>8. QED
    BY <2>1, <2>4, <2>6, <2>7
<1>9. kept \subseteq Live /\ top \in Live /\ Live \subseteq Addresses
  BY DEF Live
<1>10. /\ tree \in [Addresses -> Node \cup {None}]
       /\ \A a \in kept : tree[a] = node[a]
       /\ \A a \in Addresses \ kept : tree[a] = None
  <2>1. node \in [Addresses -> Node \cup {None}]
    BY DEF IInv, Typed
  <2>2. \A a \in Addresses : a \notin Live => node[a] = None
    BY DEF Live
  <2>3. \A a \in Addresses : tree[a] = IF freed(a) THEN None ELSE node[a]
    OBVIOUS
  <2>4. \A a \in kept : a \in Addresses /\ ~freed(a)
    BY <1>9
  <2>5. \A a \in Addresses \ kept : freed(a) \/ a \notin Live
    OBVIOUS
  <2>6. tree \in [Addresses -> Node \cup {None}]
    <3> HIDE DEF freed
    <3>1. QED
      BY <2>1
  <2> HIDE DEF freed, tree, kept
  <2>7. QED
    BY <2>2, <2>3, <2>4, <2>5, <2>6
<1> HIDE DEF freed, tree, kept, top
<1>11. gen + 1 \in Nat /\ top \in Addresses \cup {None}
  BY <1>9 DEF IInv, Typed
<1>12. /\ \A i \in DOMAIN d : node'[f[i]] \in Node
       /\ \A a \in Addresses \ Range(f) : node'[a] = tree[a]
  <2>1. LET q == Grown(tree, d, f, top, gen + 1)
        IN /\ q \in [Addresses -> Node \cup {None}]
           /\ \A a \in Addresses : a \notin Range(f) => q[a] = tree[a]
           /\ \A i \in DOMAIN d :
                /\ q[f[i]] \in Node /\ q[f[i]].gen = gen + 1
                /\ q[f[i]].up \in Range(f) \cup {top}
    BY <1>2, <1>3, <1>10, <1>11, GrownNodes
  <2>2. QED
    BY <1>1, <2>1
<1>13. \A a \in kept : a \in Addresses \ Range(f) /\ node'[a] = node[a]
  BY <1>3, <1>9, <1>10, <1>12
<1>14. Live' = kept \cup Range(f)
  <2>1. \A a \in Range(f) : \E i \in DOMAIN d : f[i] = a
    BY <1>3 DEF Range
  <2>2. \A a \in Range(f) : a \in Addresses /\ node'[a] # None
    BY <1>3, <1>12, <2>1, NoneAssumption
  <2>3. \A a \in kept : a \in Addresses /\ node'[a] # None
    BY <1>9, <1>13 DEF Live
  <2>4. \A a \in Addresses : a \notin Range(f) /\ a \notin kept => node'[a] = None
    BY <1>10, <1>12
  <2>5. QED
    BY <2>2, <2>3, <2>4 DEF Live
<1> DEFINE new == Reranked(rank, d, f, rank[top])
<1>15. rank[top] \in Nat
  BY <1>4, <1>9
<1>16. /\ new \in [Addresses -> Nat]
       /\ \A i \in DOMAIN d : i \in Nat /\ i > 0 /\ new[f[i]] = rank[top] + i
       /\ \A a \in Addresses \ Range(f) : new[a] = rank[a]
  BY <1>2, <1>3, <1>4, <1>15, RerankedNew
<1> HIDE DEF new
<1>17. ASSUME NEW a \in Live'
       PROVE  IF a = root' THEN node'[a].up = None
              ELSE node'[a].up \in Live' /\ new[node'[a].up] < new[a]
  <2>1. CASE a \in kept
    <3>1. node'[a] = node[a] /\ a \in Live /\ new[a] = rank[a] /\ root' = root
      BY <1>9, <1>13, <1>16, <2>1
    <3>2. CASE a = root
      BY <1>4, <3>1, <3>2 DEF Descends
    <3>3. CASE a # root
      <4>1. node[a].up \in kept /\ rank[node[a].up] < rank[a]
        BY <1>4, <1>8, <2>1, <3>1, <3>3 DEF Descends
      <4>2. new[node[a].up] = rank[node[a].up]
        BY <1>13, <1>16, <4>1
      <4>3. QED
        BY <1>14, <3>1, <3>3, <4>1, <4>2
    <3>4. QED
      BY <3>2, <3>3
  <2>2. CASE a \in Range(f)
    <3>1. PICK i \in DOMAIN d : a = f[i]
      BY <1>3, <2>2 DEF Range
    <3>2. /\ i \in Nat
          /\ d[i].up = 0 => node'[a].up = top
          /\ d[i].up # 0 => d[i].up \in DOMAIN d /\ d[i].up < i /\ node'[a].up = f[d[i].up]
      BY <1>1, <1>2, <1>3, <3>1, GrownParents
    <3>3. a # root'
      <4>1. a \notin kept /\ a \notin Live
        BY <1>3, <1>9, <2>2
      <4>2. root \in Live
        BY <1>9, OneTreeRooted, <1>5, AncestorsClosed DEF Rooted
      <4>3. QED
        BY <4>1, <4>2
    <3>4. new[a] = rank[top] + i /\ i > 0
      BY <1>16, <3>1
    <3>5. CASE d[i].up = 0
      <4>1. node'[a].up = top /\ top \in Live' /\ new[top] = rank[top]
        BY <1>6, <1>13, <1>14, <1>16, <3>2, <3>5
      <4>2. QED
        BY <1>15, <3>2, <3>3, <3>4, <4>1
    <3>6. CASE d[i].up # 0
      <4>1. /\ node'[a].up = f[d[i].up] /\ f[d[i].up] \in Range(f)
            /\ new[f[d[i].up]] = rank[top] + d[i].up /\ d[i].up \in Nat /\ d[i].up < i
        BY <1>3, <1>16, <3>2, <3>6 DEF Range
      <4>2. QED
        BY <1>14, <1>15, <3>2, <3>3, <3>4, <4>1
    <3>7. QED
      BY <3>5, <3>6
  <2>3. QED
    BY <1>14, <1>17, <2>1, <2>2
<1>18. Descends(new)'
  BY <1>17 DEF Descends
<1>19. IsFiniteSet(Live')
  <2>1. IsFiniteSet(kept) /\ IsFiniteSet(Range(f))
    BY <1>2, <1>3, <1>5, <1>9, FS_Subset, FiniteRange
  <2>2. QED
    BY <1>14, <2>1, FS_Union
<1>20. QED
  BY <1>16, <1>18, <1>19 DEF OneTree

\* What is laid out after an assignment to innerHTML is the new tree.
LEMMA ReplaceRenders ==
  ASSUME NEW p, NEW d, Replace(p, d)
  PROVE  layout' = LiveItems'
BY DEF Replace, LiveItems, PointerTo, Live

\* A step that leaves the tree, and lays it out anew or leaves the layout too.
LEMMA SameTree ==
  ASSUME FreshInv, UNCHANGED treeVars,
         pc'.at \notin Unrendered =>
           layout' = LiveItems \/ (UNCHANGED layout /\ pc.at \notin Unrendered)
  PROVE  FreshInv'
<1>1. UNCHANGED <<node, root>> /\ Live' = Live /\ LiveItems' = LiveItems
  BY DEF treeVars, Live, LiveItems, PointerTo
<1>2. OneTree'
  BY <1>1 DEF FreshInv, OneTree, Descends
<1>3. Rendered'
  BY <1>1 DEF FreshInv, Rendered
<1>4. QED
  BY <1>2, <1>3 DEF FreshInv

LEMMA InitFresh == Init => FreshInv
<1> SUFFICES ASSUME Init PROVE FreshInv
  OBVIOUS
<1>1. Live = {} /\ pc.at = "load"
  BY DEF Init, Live
<1>2. [a \in Addresses |-> 0] \in [Addresses -> Nat] /\ Descends([a \in Addresses |-> 0])
  BY <1>1 DEF Descends
<1>3. OneTree
  BY <1>1, <1>2, FS_EmptySet DEF OneTree
<1>4. Rendered
  BY <1>1 DEF Rendered, Unrendered
<1>5. QED
  BY <1>3, <1>4 DEF FreshInv

LEMMA StepFresh == IInv /\ FreshInv /\ [Next]_vars => FreshInv'
<1> SUFFICES ASSUME IInv, FreshInv, [Next]_vars PROVE FreshInv'
  OBVIOUS
<1> USE DEF Unrendered
<1>1. CASE Load
  <2>1. pc'.at = "scripts"
    BY <1>1, Goes DEF Load
  <2>2. QED
    BY <1>1, <2>1, LoadOneTree DEF FreshInv, Rendered
<1>2. CASE Undefined
  BY <1>2, Goes, SameTree DEF Undefined
<1>3. CASE SetInnerHTML
  <2>1. PICK h \in DOMAIN toNode :
          \/ Undefined
          \/ /\ toNode[h].at \in Live
             /\ \E d \in Fragments : Replace(toNode[h], d)
             /\ UNCHANGED <<root, pc>>
    BY <1>3 DEF SetInnerHTML
  <2>2. CASE toNode[h].at \in Live /\ UNCHANGED root
             /\ \E d \in Fragments : Replace(toNode[h], d)
    BY <2>2, ReplaceOneTree, ReplaceRenders DEF FreshInv, Rendered
  <2>3. QED
    BY <1>2, <2>1, <2>2
<1>4. CASE LoadFails \/ EndScript \/ RequestThrows \/ UseOwnNode
  <2>1. UNCHANGED treeVars
    BY <1>4 DEF LoadFails, EndScript, RequestThrows, UseOwnNode
  <2>2. Goto("dead", None, "") \/ Goto("scripts", None, "")
    BY <1>4 DEF LoadFails, EndScript, RequestThrows, UseOwnNode
  <2>3. pc'.at \in {"dead", "scripts"}
    BY <2>2, Goes
  <2>4. QED
    BY <2>1, <2>3, SameTree
<1>5. CASE NextScript /\ ~Undefined
  <2>1. UNCHANGED treeVars
    BY <1>5 DEF NextScript
  <2>2. \E next \in {"dead", "scripts", "script"} : Goto(next, None, "")
    BY <1>5 DEF NextScript
  <2>3. pc'.at \in {"dead", "scripts", "script"}
    BY <2>2, Goes
  <2>4. QED
    BY <2>1, <2>3, SameTree
<1>6. CASE Styles /\ ~Undefined
  <2>1. UNCHANGED treeVars
    BY <1>6 DEF Styles
  <2>2. layout' = LiveItems \/ Goto("dead", None, "")
    BY <1>6 DEF Styles
  <2>3. layout' = LiveItems \/ pc'.at = "dead"
    BY <2>2, Goes
  <2>4. QED
    BY <2>1, <2>3, SameTree
<1>7. CASE Query \/ Listen \/ UNCHANGED vars
  BY <1>7, SameTree DEF Query, Listen, vars
<1>8. CASE GetAttribute
  BY <1>2, <1>8 DEF GetAttribute
<1>9. CASE (Click \/ Chrome) /\ ~Undefined
  BY <1>9, SameTree DEF Click, Chrome, Blur, At
<1>10. CASE Key
  BY <1>10, SameTree DEF Key, At
<1>11. CASE (EndListener \/ Edit \/ Bubble \/ Follow \/ Focus \/ Press \/ Send) /\ ~Undefined
  <2>1. pc.at \notin Unrendered
    BY <1>11 DEF EndListener, Edit, Bubble, Follow, Focus, Press, Send, At
  <2>2. UNCHANGED treeVars
    BY <1>11 DEF EndListener, Edit, Bubble, Follow, Focus, Press, Send
  <2>3. layout' = LiveItems \/ UNCHANGED layout
    BY <1>11 DEF EndListener, Edit, Bubble, Follow, Focus, Press, Send
  <2>4. QED
    BY <2>1, <2>2, <2>3, SameTree
<1>12. QED
  BY <1>1, <1>2, <1>3, <1>4, <1>5, <1>6, <1>7, <1>8, <1>9, <1>10, <1>11
  DEF Next, Continue, Script

-----------------------------------------------------------------------------
(* The theorems *)

LEMMA StepIInv == IInv /\ [Next]_vars => IInv'
<1> SUFFICES ASSUME IInv, [Next]_vars PROVE IInv'
  OBVIOUS
<1>1. CASE Continue
  BY <1>1, LoadIInv, LoadStepsIInv, StylesIInv, EndListenerIInv, EditIInv, BubbleIInv,
     FocusIInv, PressIInv DEF Continue
<1>2. CASE Script
  BY <1>2, ScriptIInv
<1>3. CASE Click \/ Chrome \/ Key
  BY <1>3, InputIInv
<1>4. CASE UNCHANGED vars
  <2>1. /\ UNCHANGED <<node, toHandle, toNode, gen, replaced, refocused>>
        /\ UNCHANGED <<layout, focus, items, scripts, pc>>
    BY <1>4 DEF vars, treeVars, jsVars, history
  <2>2. Typed' /\ HandlesAgree' /\ Blurred' /\ StaleUseExplained'
    BY <2>1 DEF IInv, Typed, HandlesAgree, Blurred, StaleUseExplained, At
  <2>3. Sound' /\ Focused'
    BY <2>1 DEF IInv, Sound, Focused, IsLive, Live
  <2>4. QED
    BY <2>2, <2>3 DEF IInv
<1>5. QED
  BY <1>1, <1>2, <1>3, <1>4 DEF Next

LEMMA Invariance == Spec => []IInv
  BY InitIInv, StepIInv, PTL DEF Spec

LEMMA Handles == IInv => HandlesSound
  BY DEF IInv, Sound, HandlesSound

LEMMA Explained == IInv => StaleUseExplained
  BY DEF IInv

LEMMA FreshInvariance == Spec => []FreshInv
  BY InitFresh, StepFresh, Invariance, PTL DEF Spec

LEMMA Fresh == FreshInv => LayoutFresh
  BY OneTreeRooted DEF FreshInv, Rendered, LayoutFresh, At, Unrendered

\* JSBindings::get_handler and innerHTML_set: no handle ever stands for another
\* item than the one it was given to, unless scripts assign to innerHTML.
THEOREM SoundHandles == Spec => []HandlesSound
  BY Invariance, Handles, PTL

\* Tab and JSContext: a freed item is used on a page whose scripts assigned to
\* innerHTML, or after a click that left the page with the focus, and in no
\* other way.
THEOREM ExplainedUse == Spec => []StaleUseExplained
  BY Invariance, Explained, PTL

\* Tab::render and innerHTML_set: the items are one tree that hangs from the
\* root, and while the program waits for the user all of it is laid out, and
\* nothing else, whatever scripts did to the page.
THEOREM FreshLayout == Spec => []LayoutFresh
  BY FreshInvariance, Fresh, PTL
=============================================================================
