--------------------------------- MODULE Page ---------------------------------
(***************************************************************************)
(* One tab's page (src/Tab.cpp) and its scripts (src/jsContext.cpp,        *)
(* js/Browser.js).  The page is a tree of items owned from its root; the   *)
(* layout, the focus, the handle maps of the scripts and the lists load    *)
(* works through hold plain pointers into it.  A load or an assignment to  *)
(* innerHTML frees items, and scripts run in the middle of clicks, keys    *)
(* and loads.                                                              *)
(*                                                                         *)
(* A pointer is an address and the generation of the item it was taken to, *)
(* which the program does not have: it tells when a pointer is stale.  The *)
(* allocator gives out any free address.  Using a stale pointer is         *)
(* undefined behaviour; the model marks it and ends there.                 *)
(***************************************************************************)
EXTENDS Naturals, Sequences, FiniteSets, Functions

CONSTANTS Addresses, None,
          Pages,       \* documents: sequences of [kind, up], up the index of the parent
          Fragments,   \* what scripts assign to innerHTML, likewise, up 0 for the top
          MaxGen       \* bound on loads and assignments

Kinds == {"plain", "a", "input", "button", "form", "script"}

\* An item in memory.
Node == [kind : Kinds, up : Addresses \cup {None}, gen : Nat]

\* None is no address, no handle and no item.
ASSUME NoneAssumption == None \notin Addresses /\ None \notin Nat /\ None \notin Node

ASSUME PagesAssumption ==
  /\ MaxGen \in Nat
  /\ Pages \cup Fragments \subseteq Seq([kind : Kinds, up : Nat])
  /\ \A d \in Pages \cup Fragments : \A i \in DOMAIN d : d[i].up < i
  /\ \A d \in Pages : d # <<>> /\ \A i \in DOMAIN d : d[i].up = 0 => i = 1

VARIABLES
  node,       \* node[a]: the item at a, [kind, up, gen], or None
  root,       \* m_rootNode
  layout,     \* the items m_document was built from
  focus,      \* m_focus
  toHandle,   \* node_to_handler
  toNode,     \* handler_to_node, handle h at index h + 1; only the address counts
  listeners,  \* LISTENERS: handles and event types somebody listens to
  items,      \* load's itemList
  scripts,    \* the items its js_links point into, those not run yet, by place
  pc,         \* what the program does: [at, elt, then]
  gen,        \* the last generation
  replaced,   \* innerHTML was assigned to on this page
  refocused   \* the page was left by the click that set the focus

treeVars == <<node, root>>
jsVars == <<toHandle, toNode, listeners>>
history == <<gen, replaced, refocused>>
vars == <<treeVars, layout, focus, jsVars, items, scripts, pc, history>>

Live == {a \in Addresses : node[a] # None}
PointerTo(a) == [at |-> a, gen |-> node[a].gen]
IsLive(p) == p.at \in Live /\ node[p.at].gen = p.gen
LiveItems == {PointerTo(a) : a \in Live}
Parent(p) == IF node[p.at].up = None THEN None ELSE PointerTo(node[p.at].up)

At(where) == pc.at = where
Goto(where, elt, then) == pc' = [at |-> where, elt |-> elt, then |-> then]
Idle == Goto("idle", None, "")

\* new, sequence d of items, at addresses f under top.
Grown(tree, d, f, top, g) ==
  [a \in Addresses |->
     IF a \in Range(f)
     THEN LET i == CHOOSE j \in DOMAIN d : f[j] = a
          IN [kind |-> d[i].kind, up |-> IF d[i].up = 0 THEN top ELSE f[d[i].up], gen |-> g]
     ELSE tree[a]]

Allocations(d) == Injection(DOMAIN d, Addresses \ Live)

Undefined ==
  /\ Goto("undefined", None, "")
  /\ UNCHANGED <<treeVars, layout, focus, jsVars, items, scripts, history>>

\* A blank tab: nothing is laid out before the first load.
Init ==
  /\ node = [a \in Addresses |-> None] /\ root = None
  /\ layout = {} /\ focus = None
  /\ toHandle = [a \in Addresses |-> None] /\ toNode = <<>> /\ listeners = {}
  /\ items = {} /\ scripts = <<>>
  /\ pc = [at |-> "load", elt |-> None, then |-> ""]
  /\ gen = 0 /\ replaced = FALSE /\ refocused = FALSE

-----------------------------------------------------------------------------
(* Loading *)

BugLoadKeepsScripts ==
  /\ At("load") /\ gen < MaxGen
  /\ \E d \in Pages : \E f \in Allocations(d) :
       /\ node' = Grown([a \in Addresses |-> None], d, f, None, gen + 1) /\ root' = f[1]
       /\ items' = {[at |-> f[i], gen |-> gen + 1] : i \in DOMAIN d}
       /\ scripts' = [i \in {j \in DOMAIN d : d[j].kind = "script"} |->
                        [at |-> f[i], gen |-> gen + 1]]
  /\ gen' = gen + 1 /\ replaced' = FALSE
  /\ refocused' = (refocused \/ (pc.then = "clicked" /\ focus # None))
  /\ Goto("scripts", None, "")
  /\ UNCHANGED <<layout, focus, jsVars>>

\* The response is here: the new tree is parsed before the old one is freed, the
\* scripts get a new world, and load lists the items.
Load ==
  /\ At("load") /\ gen < MaxGen
  /\ \E d \in Pages : \E f \in Allocations(d) :
       /\ node' = Grown([a \in Addresses |-> None], d, f, None, gen + 1) /\ root' = f[1]
       /\ items' = {[at |-> f[i], gen |-> gen + 1] : i \in DOMAIN d}
       /\ scripts' = [i \in {j \in DOMAIN d : d[j].kind = "script"} |->
                        [at |-> f[i], gen |-> gen + 1]]
  /\ toHandle' = [a \in Addresses |-> None] /\ toNode' = <<>> /\ listeners' = {}
  /\ gen' = gen + 1 /\ replaced' = FALSE
  /\ refocused' = (refocused \/ (pc.then = "clicked" /\ focus # None))
  /\ Goto("scripts", None, "")
  /\ UNCHANGED <<layout, focus>>

\* The request throws, past every caller.
LoadFails ==
  /\ At("load")
  /\ Goto("dead", None, "")
  /\ UNCHANGED <<treeVars, layout, focus, jsVars, items, scripts, history>>

\* The next script's address is read where it stands in the tree; it does not
\* parse, past every caller, the policy forbids it, or its request fails, or it runs.
NextScript ==
  /\ At("scripts")
  /\ \E i \in DOMAIN scripts :
       /\ \A j \in DOMAIN scripts : i <= j
       /\ \/ ~IsLive(scripts[i]) /\ Undefined
          \/ /\ IsLive(scripts[i])
             /\ scripts' = Restrict(scripts, DOMAIN scripts \ {i})
             /\ \E next \in {"dead", "scripts", "script"} : Goto(next, None, "")
             /\ UNCHANGED <<treeVars, layout, focus, jsVars, items, history>>

\* get_css_links reads every item of the list; then the page is rendered, unless
\* the address of a sheet does not parse, past every caller.
Styles ==
  /\ At("scripts") /\ DOMAIN scripts = {}
  /\ \/ (\E p \in items : ~IsLive(p)) /\ Undefined
     \/ /\ \A p \in items : IsLive(p)
        /\ items' = {} /\ layout' = LiveItems
        /\ Idle
        /\ UNCHANGED <<treeVars, focus, jsVars, scripts, history>>
     \/ /\ \A p \in items : IsLive(p)
        /\ Goto("dead", None, "")
        /\ UNCHANGED <<treeVars, layout, focus, jsVars, items, scripts, history>>

EndScript ==
  /\ At("script")
  /\ Goto("scripts", None, "")
  /\ UNCHANGED <<treeVars, layout, focus, jsVars, items, scripts, history>>

-----------------------------------------------------------------------------
(* What a script does, from load or from a listener *)

InScript == At("script") \/ At("listener")

BugHandleNotStored(a) ==
  /\ toHandle' = [toHandle EXCEPT ![a] = Len(toNode)]
  /\ UNCHANGED toNode

\* get_handler: the handle an address was given before, or a new one.
GetHandler(a) ==
  IF toHandle[a] # None
  THEN UNCHANGED <<toHandle, toNode>>
  ELSE /\ toHandle' = [toHandle EXCEPT ![a] = Len(toNode)]
       /\ toNode' = Append(toNode, PointerTo(a))

\* document.querySelectorAll walks the tree.
Query ==
  /\ InScript
  /\ \E a \in Live : GetHandler(a)
  /\ UNCHANGED <<treeVars, layout, focus, listeners, items, scripts, pc, history>>

Listen ==
  /\ InScript
  /\ \E h \in DOMAIN toNode, type \in {"click", "keydown", "submit"} :
       listeners' = listeners \cup {<<h - 1, type>>}
  /\ UNCHANGED <<treeVars, layout, focus, toHandle, toNode, items, scripts, pc, history>>

\* getAttribute of any node a script still holds.
GetAttribute ==
  /\ InScript
  /\ \E h \in DOMAIN toNode : toNode[h].at \notin Live /\ Undefined

\* A Node that a script makes itself, of a number not given out yet, has no item:
\* getAttribute and innerHTML_set find a null pointer, and the program ends.
UseOwnNode ==
  /\ InScript
  /\ Goto("dead", None, "")
  /\ UNCHANGED <<treeVars, layout, focus, jsVars, items, scripts, history>>

Ancestors == [p \in Live |->
  LET up[n \in 0..Cardinality(Live)] ==
        IF n = 0 THEN {p}
        ELSE up[n - 1] \cup ({node[a].up : a \in up[n - 1]} \ {None})
  IN up[Cardinality(Live)]]

BugReplaceOrphans(p, d) ==
  /\ \E f \in Allocations(d) :
       node' = Grown([a \in Addresses |->
                        IF a \in Live /\ a # p.at /\ p.at \in Ancestors[a]
                        THEN None ELSE node[a]], d, f, None, gen + 1)
  /\ layout' = {[at |-> a, gen |-> node'[a].gen] : a \in {b \in Addresses : node'[b] # None}}

BugReplaceUnrendered(p, d) ==
  /\ \E f \in Allocations(d) :
       node' = Grown([a \in Addresses |->
                        IF a \in Live /\ a # p.at /\ p.at \in Ancestors[a]
                        THEN None ELSE node[a]], d, f, p.at, gen + 1)
  /\ UNCHANGED layout

\* innerHTML_set: the fragment is parsed, the children of the item are freed, the
\* new ones moved under it, and the page is rendered.
Replace(p, d) ==
  /\ \E f \in Allocations(d) :
       node' = Grown([a \in Addresses |->
                        IF a \in Live /\ a # p.at /\ p.at \in Ancestors[a]
                        THEN None ELSE node[a]], d, f, p.at, gen + 1)
  /\ layout' = {[at |-> a, gen |-> node'[a].gen] : a \in {b \in Addresses : node'[b] # None}}

SetInnerHTML ==
  /\ InScript
  /\ \E h \in DOMAIN toNode :
       \/ toNode[h].at \notin Live /\ Undefined
       \/ /\ toNode[h].at \in Live /\ gen < MaxGen
          /\ \E d \in Fragments : Replace(toNode[h], d)
          /\ gen' = gen + 1 /\ replaced' = TRUE
          /\ UNCHANGED <<root, focus, jsVars, items, scripts, pc, refocused>>

\* XMLHttpRequest of another origin, or one that fails, throws: run catches
\* that, dispatch_event does not.
RequestThrows ==
  /\ InScript
  /\ IF At("script") THEN Goto("scripts", None, "") ELSE Goto("dead", None, "")
  /\ UNCHANGED <<treeVars, layout, focus, jsVars, items, scripts, history>>

-----------------------------------------------------------------------------
(* Events *)

\* dispatch_event: the listeners of the handle the address has, if any, run.
Dispatch(type, p, then) ==
  IF toHandle[p.at] # None /\ <<toHandle[p.at], type>> \in listeners
  THEN Goto("listener", p, then)
  ELSE Goto(then, p, "")

\* The listeners return: the default action follows, or was prevented.  One that
\* fails prevents it too, and the report names the item.
EndListener ==
  /\ At("listener")
  /\ \/ /\ Goto(pc.then, pc.elt, "") \/ Idle
        /\ UNCHANGED <<treeVars, layout, focus, jsVars, items, scripts, history>>
     \/ ~IsLive(pc.elt) /\ Undefined

BugNoBlur == UNCHANGED <<focus, layout>>

\* Tab::blur writes to the item that has the focus and renders.
Blur ==
  /\ focus' = None
  /\ layout' = IF focus = None THEN layout ELSE LiveItems

\* A click on the page, where an item is laid out or nothing is.
Click ==
  /\ At("idle")
  /\ IF focus # None /\ ~IsLive(focus) THEN Undefined
     ELSE /\ Blur
          /\ Idle \/ \E p \in layout : Goto("bubble", p, "")
          /\ refocused' = FALSE
          /\ UNCHANGED <<treeVars, jsVars, items, scripts, gen, replaced>>

\* The address bar, the back button and a click on the chrome: blur, and perhaps
\* a load.
Chrome ==
  /\ At("idle")
  /\ IF focus # None /\ ~IsLive(focus) THEN Undefined
     ELSE /\ Blur
          /\ Idle \/ Goto("load", None, "")
          /\ refocused' = FALSE
          /\ UNCHANGED <<treeVars, jsVars, items, scripts, gen, replaced>>

\* A key or text for the input with the focus.
Key ==
  /\ At("idle") /\ focus # None
  /\ Dispatch("keydown", focus, "edit")
  /\ UNCHANGED <<treeVars, layout, focus, jsVars, items, scripts, history>>

Edit ==
  /\ At("edit")
  /\ \/ ~IsLive(pc.elt) /\ Undefined
     \/ /\ IsLive(pc.elt)
        /\ layout' = LiveItems
        /\ Idle
        /\ UNCHANGED <<treeVars, focus, jsVars, items, scripts, history>>

BugUp(p) == Goto("bubble", p, "")

Up(p) == IF Parent(p) = None THEN Idle ELSE Goto("bubble", Parent(p), "")

\* One turn of click's loop: links, inputs and buttons are told first.
Bubble ==
  /\ At("bubble")
  /\ \/ ~IsLive(pc.elt) /\ Undefined
     \/ /\ IsLive(pc.elt)
        /\ CASE node[pc.elt.at].kind = "a" -> Dispatch("click", pc.elt, "follow")
             [] node[pc.elt.at].kind = "input" -> Dispatch("click", pc.elt, "focus")
             [] node[pc.elt.at].kind = "button" -> Dispatch("click", pc.elt, "press")
             [] OTHER -> Up(pc.elt)
        /\ UNCHANGED <<treeVars, layout, focus, jsVars, items, scripts, history>>

\* The link's address is read after its listeners have run.
Follow ==
  /\ At("follow")
  /\ \/ ~IsLive(pc.elt) /\ Undefined
     \/ /\ IsLive(pc.elt)
        /\ Goto("load", None, "clicked")
        /\ UNCHANGED <<treeVars, layout, focus, jsVars, items, scripts, history>>

\* The input gets the focus; the click goes on to what the input is in.
Focus ==
  /\ At("focus")
  /\ \/ ~IsLive(pc.elt) /\ Undefined
     \/ /\ IsLive(pc.elt)
        /\ focus' = pc.elt /\ layout' = LiveItems
        /\ Up(pc.elt)
        /\ UNCHANGED <<treeVars, jsVars, items, scripts, history>>

\* From a button up to its form.
Press ==
  /\ At("press")
  /\ \/ ~IsLive(pc.elt) /\ Undefined
     \/ /\ IsLive(pc.elt)
        /\ \/ node[pc.elt.at].kind = "form" /\ Dispatch("submit", pc.elt, "send")
           \/ /\ node[pc.elt.at].kind # "form"
              /\ IF Parent(pc.elt) = None THEN Idle ELSE Goto("press", Parent(pc.elt), "")
        /\ UNCHANGED <<treeVars, layout, focus, jsVars, items, scripts, history>>

Send ==
  /\ At("send")
  /\ \/ ~IsLive(pc.elt) /\ Undefined
     \/ /\ IsLive(pc.elt)
        /\ Goto("load", None, "clicked")
        /\ UNCHANGED <<treeVars, layout, focus, jsVars, items, scripts, history>>

Script == Query \/ Listen \/ GetAttribute \/ UseOwnNode \/ SetInnerHTML \/ RequestThrows

Continue ==
  \/ Load \/ LoadFails \/ NextScript \/ Styles \/ EndScript \/ EndListener
  \/ Edit \/ Bubble \/ Follow \/ Focus \/ Press \/ Send

Next == Continue \/ Script \/ Click \/ Chrome \/ Key

Spec == Init /\ [][Next]_vars

\* The program goes on, and scripts end.
FairSpec == Spec /\ WF_vars(Continue)

-----------------------------------------------------------------------------
(* Properties *)

\* Every live item hangs from the root.
Rooted == \A a \in Live : root \in Ancestors[a]

\* Whenever the program waits for the user, what is laid out, and so what a click
\* finds, is the tree as it is, in one piece: every script that changed it has
\* left nothing behind and has rendered.
LayoutFresh == Rooted /\ (At("idle") => layout = LiveItems)

\* The two handle maps are inverse to each other.
HandlesAgree ==
  /\ \A h \in DOMAIN toNode : toHandle[toNode[h].at] = h - 1
  /\ \A a \in Addresses :
       toHandle[a] # None => toHandle[a] + 1 \in DOMAIN toNode /\ toNode[toHandle[a] + 1].at = a

\* The handle maps agree, whatever was freed since; and on a page whose scripts
\* do not assign to innerHTML a handle stands for the item it was given to: no
\* listener of another item, or page, can answer to it.
HandlesSound ==
  /\ HandlesAgree
  /\ ~replaced /\ ~At("undefined") => \A h \in DOMAIN toNode : IsLive(toNode[h])

\* Freed items are used only in two ways: a script of this page assigned to
\* innerHTML, or the click that set the focus to an input went on to leave the
\* page.
StaleUseExplained == At("undefined") => replaced \/ refocused

\* Every click, key and load ends: the tab waits for the user again, or has died.
ComesBack == []<>(pc.at \in {"idle", "dead", "undefined"})
=============================================================================
