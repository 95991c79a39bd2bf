------------------------------- MODULE MCStudio -------------------------------
(* A small instance of what a merchant makes and shows: two requests in      *)
(* flight, one or two rows of each table, the overlaps the properties tell   *)
(* apart, one template, and manifests to start from; the publishing pipeline *)
(* with every operation while no two requests overlap.                       *)
EXTENDS Studio, TLC

MCQuestions == {[required |-> TRUE, email |-> TRUE, ruled |-> TRUE, low |-> 2, high |-> 0]}
MCAnswers ==
    {[kind |-> "missing", size |-> 0, address |-> FALSE],
     [kind |-> "text", size |-> 3, address |-> TRUE]}

Page(s) == [slug |-> s, complete |-> TRUE]
MCTemplate ==
    [pages |-> <<Page("home"), Page("shop"), Page("home")>>, color |-> TRUE,
     logo |-> TRUE, navigation |-> TRUE, media |-> <<"h1", "h1">>]

Capability(id, required, enabled) == [id |-> id, required |-> required, enabled |-> enabled]
Frame(v, shape, nav, initial, splash, identity, capabilities) ==
    [version |-> v, form |-> shape, navigation |-> nav, initial |-> initial,
     tabs |-> "ok", splash |-> splash, identity |-> identity,
     capabilities |-> capabilities]
MCFrames ==
    {Frame("1.0.0", "map", "none", "none", "none", "none",
           {Capability("cart", TRUE, TRUE), Capability("x", FALSE, TRUE)}),
     Frame("none", "list", "array", "none", "object", "none", {}),
     Frame("1.0", "map", "object", "known", "none", "object",
           {Capability("x", TRUE, FALSE)})}

Node(up, key, kind, type, fields, ref, dest) ==
    [up |-> up, key |-> key, kind |-> kind, type |-> type, has |-> fields,
     asset |-> ref, dest |-> dest]
Holder(up, key, kind) == Node(up, key, kind, "none", {}, "none", FALSE)
Item(up, type) == Node(up, "item", "object", type, {"key"}, "none", FALSE)
Screen == Node(0, "screen", "object", "none", {"id"}, "none", FALSE)
MCSkeletons ==
    {<<Screen, Holder(1, "layout", "object"), Holder(2, "children", "array"),
       Item(3, "button"), Holder(4, "actions", "object"), Holder(4, "children", "array")>>,
     <<Screen, Holder(1, "layout", "object"), Holder(2, "children", "array"),
       Item(3, "layout"), Holder(4, "layout", "object"), Holder(5, "children", "array")>>,
     <<Screen, Holder(1, "blocks", "array"), Item(2, "button"),
       Holder(3, "components", "array"), Item(4, "button"), Holder(5, "children", "array")>>,
     <<Screen, Holder(1, "fixedTop", "array"), Item(2, "button"),
       Holder(3, "layout", "object"), Holder(4, "children", "array"), Item(5, "button")>>,
     <<Screen, Holder(1, "props", "object"), Holder(1, "children", "array"),
       Holder(2, "rows", "array"), Item(3, "none"), Item(4, "none")>>,
     <<Screen, Screen, Holder(2, "layout", "object"), Holder(3, "children", "array"),
       Item(4, "button"), Holder(5, "layout", "object")>>}
MCShapes ==
    {Holder(0, "children", "array"), Holder(0, "layout", "object"),
     Holder(0, "props", "object"), Holder(0, "actions", "object"),
     Node(0, "item", "object", "button", {"key"}, "a1", FALSE),
     Node(0, "item", "object", "weird", {"key"}, "none", FALSE),
     Node(0, "item", "object", "weird", {"payload"}, "none", FALSE),
     Node(0, "tap", "object", "navigate", {"payload"}, "none", FALSE),
     Node(0, "tap", "object", "navigate", {"payload"}, "none", TRUE),
     Node(0, "tapAction", "scalar", "none", {}, "none", FALSE)}

MCLimits ==
    [screens |-> 1, depth |-> 6, components |-> 2, assets |-> 2, walk |-> 10, validator |-> 2]
MCFormRivals == {{}, {"update", "submit", "fail"}, {"approve"}}
MCThemeRivals ==
    {{}, {"read", "update"}, {"update", "restore"}, {"update"}, {"crash"}, {"reset", "update"},
     {"edit", "read"}}
MCDraftRivals ==
    {{}, {"copy"}, {"copy", "discard"}, {"deletePage", "addSection"},
     {"deleteSection", "addComponent"}}

Symmetry == Permutations(Requests)
=============================================================================
