------------------------------- MODULE Manifest -------------------------------
(* The manifest of an app as a JSON tree, and the three readers of it: the  *)
(* validator a submission passes, the compatibility check against the       *)
(* runtime contract of the shell, and the renderer of the preview.  Each    *)
(* walks the tree by rules of its own; what they agree on is the property.  *)
EXTENDS Integers, Sequences, FiniteSets

CONSTANTS
    Frames,          \* what is around the screens: version, form, navigation
    Skeletons,       \* trees an author starts from
    Shapes,          \* nodes an author adds
    MaxNodes,        \* bound: nodes of the tree
    SupportedTypes,  \* component types the shell renders
    SupportedCapabilities,
    Limits,          \* RUNTIME_LIMITS, and the depths the walks stop at
    Assets           \* ids of media

VARIABLES
    frame,       \* the manifest without its screens
    tree,        \* objects, arrays and telling scalars below screens, by id
    media        \* the media rows that exist: "own", "foreign" or "template"

manifestVars == <<frame, tree, media>>

\* A node has the key it is found under ("item" in an array), the node above
\* it (0 is screens), a kind, a type ("none" without one), the plain fields it
\* has, the asset it refers to and whether its payload names a destination.
Nodes == DOMAIN tree
Key(n) == tree[n].key
IsObject(n) == tree[n].kind = "object"
Below(n) == {m \in Nodes : tree[m].up = n}
At(n, key) == {m \in Below(n) : Key(m) = key}
Has(n, key) == key \in tree[n].has \/ At(n, key) # {}
ItemsAt(n, key) == UNION {Below(a) : a \in {b \in At(n, key) : tree[b].kind = "array"}}
Screens == Below(0)

\* A node and all above it.
Line == LET line[n \in 0..Len(tree)] ==
              IF n = 0 THEN {} ELSE {n} \cup line[tree[n].up]
        IN  line
Depth(n) == Cardinality(Line[n]) - 1
\* The key an object is visited with: an item has the key of its array.
VisitKey == LET key[n \in 0..Len(tree)] ==
                  IF n = 0 THEN "none" ELSE IF Key(n) = "item" THEN key[tree[n].up] ELSE Key(n)
            IN  key

-----------------------------------------------------------------------------
(* The compatibility check *)

SupportedVersions == {"none", "1.0.0", "1.0"}

NonNodeKeys ==
    {"actions", "tapAction", "props", "style", "fills", "strokes", "effects", "state",
     "config", "payload", "theme", "metadata", "identity", "meta", "branding",
     "runtime", "localization", "permissions", "assets", "capabilities"}
\* walkNodes: below the screens, out of what is no node.
Walked(n) == \A a \in Line[n] \ Screens : Key(a) \notin NonNodeKeys
IsNodeShape(n) ==
    /\ IsObject(n) /\ tree[n].type # "none"
    /\ Has(n, "payload") =>
         \E key \in {"props", "children", "layout", "key", "config", "blocks"} : Has(n, key)
Components == {n \in Nodes : IsNodeShape(n) /\ Walked(n)}

\* walkAll: everything down to a depth, except inside actions.
IsAction(key) == key \in {"tapAction", "actions"}
Visited == {n \in Nodes :
               /\ IsObject(n) /\ Depth(n) <= Limits.walk
               /\ \A a \in Line[n] \ {n} :
                    ~IsAction(VisitKey[a]) \/ tree[a].kind = "array"}
AssetReferences == {tree[n].asset : n \in Visited} \ {"none"}

\* readCapabilities: an entry without type is optional.
MissingCapabilities ==
    {c \in frame.capabilities : c.enabled /\ c.id \notin SupportedCapabilities}

Incompatibilities ==
    {e \in {"schema", "screens", "component", "depth", "components", "capability",
            "assets", "asset"} :
       \/ e = "schema" /\ frame.version \notin SupportedVersions
       \/ e = "screens" /\ Cardinality(Screens) > Limits.screens
       \/ e = "component" /\ \E n \in Components : tree[n].type \notin SupportedTypes
       \/ e = "depth" /\ \E n \in Nodes : /\ tree[n].kind \in {"object", "array"}
                                          /\ Walked(n) /\ Depth(n) > Limits.depth
       \/ e = "components" /\ Cardinality(Components) > Limits.components
       \/ e = "capability" /\ \E c \in MissingCapabilities : c.required
       \/ e = "assets" /\ Cardinality(AssetReferences) > Limits.assets
       \/ e = "asset" /\ \E a \in AssetReferences : media[a] \notin {"own", "template"}}
Compatible == Incompatibilities = {}

-----------------------------------------------------------------------------
(* The validator *)

\* validateScreenNode reaches a screen of a map, and the children of what it
\* reaches, its own and those of its layout, to a depth.
Reached ==
    LET parent(n) == LET holder == tree[tree[n].up].up
                     IN  IF Key(holder) = "layout" THEN tree[holder].up ELSE holder
        reached[n \in Nodes] ==
            IF tree[n].up = 0
            THEN IF frame.form = "map" /\ tree[n].kind \in {"object", "array"} THEN 0 ELSE -1
            ELSE IF \/ Key(n) # "item" \/ Key(tree[n].up) # "children"
                    \/ tree[tree[n].up].up = 0
            THEN -1
            ELSE IF parent(n) \notin Nodes \/ reached[parent(n)] < 0 THEN -1
            ELSE reached[parent(n)] + 1
    IN  reached
Validated == {n \in Nodes : Reached[n] \in 0..Limits.validator
                              /\ tree[n].kind \in {"object", "array"}}

ListKeys == {"cats", "categories", "items", "offers", "orders", "rows"}
ListItems(n) ==
    UNION {IF Has(n, key) THEN ItemsAt(n, key)
           ELSE UNION {ItemsAt(p, key) : p \in At(n, "props")} : key \in ListKeys}
ActionErrors(n) ==
    \/ \E t \in At(n, "tapAction") : tree[t].kind = "scalar"
    \/ \E a \in At(n, "actions") :
         \/ tree[a].kind = "scalar"
         \/ \E event \in Below(a) :
              \/ tree[event].kind = "scalar"
              \/ tree[event].type = "navigate" /\ ~tree[event].dest
    \/ \E item \in ListItems(n) : \E t \in At(item, "tapAction") : tree[t].kind = "scalar"

ScreenErrors ==
    CASE frame.form \in {"none", "string"} -> TRUE
      [] frame.form = "list" ->
           \/ Screens = {}
           \/ \E s \in Screens : tree[s].kind \notin {"object", "array"} \/ "id" \notin tree[s].has
      [] OTHER ->
           \/ Screens = {}
           \/ \E n \in Validated : ActionErrors(n)
           \/ \E n \in Nodes : Reached[n] > Limits.validator
NavigationErrors ==
    \/ frame.navigation = "scalar"
    \/ frame.navigation = "object" /\ frame.tabs = "without screen"
    \/ frame.navigation = "object" /\ frame.initial = "unknown" /\ frame.form = "map"
Valid ==
    /\ frame.version \in SupportedVersions
    /\ ~ScreenErrors /\ ~NavigationErrors
    /\ frame.splash # "scalar" /\ frame.identity # "scalar"

-----------------------------------------------------------------------------
(* The renderer of the preview *)

\* publishedScreenSections: the blocks, or else the children of the layout.
Sections(s) ==
    IF \E b \in At(s, "blocks") : tree[b].kind = "array" THEN ItemsAt(s, "blocks")
    ELSE UNION {ItemsAt(l, "children") : l \in At(s, "layout")}
First(choices) ==
    IF \A i \in DOMAIN choices : choices[i] = {} THEN {}
    ELSE choices[CHOOSE i \in DOMAIN choices :
                   choices[i] # {} /\ \A j \in 1..(i - 1) : choices[j] = {}]
InLayout(n) == UNION {ItemsAt(l, "children") : l \in At(n, "layout")}
Lists(s, section) ==
    IF Key(tree[section].up) = "blocks"
    THEN First(<<ItemsAt(section, "components"), ItemsAt(section, "children")>>)
    ELSE First(<<InLayout(section), ItemsAt(section, "components"),
                 ItemsAt(section, "children"),
                 IF tree[section].type \notin {"none", "layout"} THEN {section} ELSE {}>>)
Starts ==
    UNION {ItemsAt(s, "fixedTop") \cup ItemsAt(s, "fixedBottom")
             \cup UNION {Lists(s, section) : section \in Sections(s)} : s \in Screens}
\* renderComponent draws its children and those of its layout; a node comes
\* after the nodes above it.
Drawn ==
    LET drawn[n \in Nodes] ==
          \/ n \in Starts
          \/ \E m \in 1..(n - 1) : n \in ItemsAt(m, "children") \cup InLayout(m) /\ drawn[m]
    IN  drawn
Rendered == {n \in Nodes : Drawn[n]}

-----------------------------------------------------------------------------
(* Authoring *)

\* A key is taken once in an object; items go into arrays.  Nodes are listed
\* in the order of the nodes above them, so that a tree is built in one way.
AddNode(up, shape) ==
    /\ Len(tree) < MaxNodes
    /\ tree # <<>> => up >= tree[Len(tree)].up
    /\ IF up = 0 THEN shape.key = "screen"
       ELSE CASE tree[up].kind = "array" -> shape.key = "item"
              [] tree[up].kind = "object" -> /\ shape.key \notin {"item", "screen"}
                                             /\ ~Has(up, shape.key)
              [] OTHER -> FALSE
    /\ tree' = Append(tree, [shape EXCEPT !.up = up])
    /\ UNCHANGED <<frame, media>>
\* A media row goes, whatever refers to it.
DeleteAsset(a) ==
    /\ media[a] # "gone"
    /\ media' = [media EXCEPT ![a] = "gone"]
    /\ UNCHANGED <<frame, tree>>

Init ==
    /\ frame \in Frames /\ tree \in Skeletons
    /\ media \in [Assets -> {"own", "foreign", "template"}]

Next ==
    \/ \E up \in 0..Len(tree) : \E shape \in Shapes : AddNode(up, shape)
    \/ \E a \in Assets : DeleteAsset(a)

Spec == Init /\ [][Next]_manifestVars

-----------------------------------------------------------------------------
(* Correctness *)

\* A tree in the order of its nodes: screens at the top, items in arrays, keys
\* in objects, nothing in a scalar; only objects refer to assets.
WellFormed(t) ==
    /\ t \in Seq({t[n] : n \in DOMAIN t})
    /\ \A n \in DOMAIN t :
         /\ t[n].up \in 0..(n - 1)
         /\ t[n].kind \in {"object", "array", "scalar"}
         /\ t[n].kind # "object" => t[n].asset = "none"
         /\ t[n].up = 0 => t[n].key = "screen"
         /\ t[n].up # 0 => \/ t[t[n].up].kind = "array" /\ t[n].key = "item"
                           \/ t[t[n].up].kind = "object" /\ t[n].key \notin {"item", "screen"}

\* Types.
TypeOK ==
    /\ frame \in Frames
    /\ \A n \in Nodes : /\ tree[n].up \in 0..(n - 1)
                        /\ tree[n].kind \in {"object", "array", "scalar"}
    /\ \A a \in Assets : media[a] \in {"own", "foreign", "template", "gone"}

\* The three walks agree on an accepted manifest: whatever the preview draws
\* as a component is of a type the shell renders, its objects are within the
\* depth, and the assets it refers to exist ("Never activates an app the target
\* shell cannot render", compatibility.service.ts:57).  A node that looks like
\* an action, a type with a payload and nothing else, is drawn and checked by
\* neither.
AcceptedIsRenderable ==
    Compatible => \A n \in Rendered :
        /\ IsNodeShape(n) => tree[n].type \in SupportedTypes
        /\ tree[n].kind # "scalar" => Depth(n) <= Limits.depth
        /\ Depth(n) <= Limits.walk /\ tree[n].asset # "none" =>
             media[tree[n].asset] \in {"own", "template"}

\* An action of a component the preview draws from the layout of a valid
\* manifest leads somewhere (manifest-validator.service.ts:140-196).
ValidActionsLead ==
    Valid /\ frame.form = "map" => \A n \in Rendered :
        (\A a \in Line[n] \ Screens : Key(a) \in {"layout", "children", "item"}) =>
            \A a \in At(n, "actions") : \A event \in Below(a) :
                tree[event].type = "navigate" => tree[event].dest
=============================================================================
