-------------------------------- MODULE Drafts --------------------------------
(* The builder's drafts of one tenant: pages with sections with components, *)
(* copied from the live app row by row, edited row by row, and discarded    *)
(* table by table.  No operation holds a transaction: copies, edits and     *)
(* discards overlap, and one that fails leaves what it wrote.               *)
EXTENDS Integers, FiniteSets, FiniteSetsExt

CONSTANTS
    Requests,    \* requests in flight at most
    Slugs,       \* slugs of pages
    Live,        \* the pages of the live app: each has a section, with a component
    Sections,    \* ids of draft sections
    Parts,       \* ids of draft components
    DraftRivals, \* sets of operations that may overlap in a behaviour
    MaxVersion   \* bound: increments of draftVersion

VARIABLES
    page,        \* DraftPage rows by slug: "none", "active" or "hidden"
    section,     \* DraftSection rows: the page, and whether it is active
    part,        \* DraftComponent rows: the section, and whether it is active
    version,     \* Tenant.draftVersion
    edited,      \* the drafts were changed since they were copied
    fault,       \* a statement failed or the process died
    rival,       \* the operations that may overlap in this behaviour
    call         \* what each request read and has still to write

draftVars == <<page, section, part, version, edited, fault>>

Idle == [op |-> "idle"]
Busy == {call[r].op : r \in Requests} \ {"idle"}
Begin(q, c) ==
    /\ call[q] = Idle /\ (Busy # {} => Busy \cup {c.op} \subseteq rival)
    /\ call' = [call EXCEPT ![q] = c]
Go(q, pc) == call' = [call EXCEPT ![q].pc = pc]
End(q) == call' = [call EXCEPT ![q] = Idle]
At(q, op, pc) == call[q].op = op /\ call[q].pc = pc

\* A new row has a new id: none that a request still holds.
Gone == [of |-> "none", active |-> FALSE]
PagesThere == {p \in Slugs : page[p] # "none"}
SectionsOf(p) == {s \in Sections : section[s].of = p}
PartsOf(s) == {c \in Parts : part[c].of = s}
Held(r) == \E q \in Requests :
             call[q] # Idle /\ r \in {call[q][f] : f \in DOMAIN call[q] \cap {"id", "section"}}
Spare(rows) == {r \in DOMAIN rows : rows[r] = Gone /\ ~Held(r)}
Fresh(rows) == CHOOSE r \in Spare(rows) : TRUE

\* The cascade of the schema.
WithoutSections(gone) ==
    /\ section' = [s \in Sections |-> IF s \in gone THEN Gone ELSE section[s]]
    /\ part' = [c \in Parts |-> IF part[c].of \in gone THEN Gone ELSE part[c]]

-----------------------------------------------------------------------------
(* Copying the live app *)

\* initializeDrafts, unless a draft page is found.
InitializeDrafts(q) ==
    /\ PagesThere = {}
    /\ Begin(q, [op |-> "copy", pc |-> "page", left |-> Live, page |-> "none", section |-> "none"])
    /\ UNCHANGED draftVars
\* A page whose slug was taken meanwhile fails the request where it stands.
CopyPage(q, p) ==
    /\ At(q, "copy", "page") /\ p \in call[q].left
    /\ IF page[p] = "none"
       THEN /\ page' = [page EXCEPT ![p] = "active"]
            /\ call' = [call EXCEPT ![q] = [call[q] EXCEPT !.pc = "section", !.page = p,
                                                       !.left = @ \ {p}]]
            /\ UNCHANGED fault
       ELSE End(q) /\ fault' = TRUE /\ UNCHANGED page
    /\ UNCHANGED <<section, part, version, edited>>
CopySection(q) ==
    /\ At(q, "copy", "section") /\ page[call[q].page] # "none" /\ Spare(section) # {}
    /\ LET s == Fresh(section)
       IN  /\ section' = [section EXCEPT ![s] = [of |-> call[q].page, active |-> TRUE]]
           /\ call' = [call EXCEPT ![q] = [@ EXCEPT !.pc = "part", !.section = s]]
    /\ UNCHANGED <<page, part, version, edited, fault>>
CopyPart(q) ==
    /\ At(q, "copy", "part") /\ section[call[q].section] # Gone /\ Spare(part) # {}
    /\ part' = [part EXCEPT ![Fresh(part)] = [of |-> call[q].section, active |-> TRUE]]
    /\ Go(q, IF call[q].left = {} THEN "version" ELSE "page")
    /\ UNCHANGED <<page, section, version, edited, fault>>
\* The row above was deleted meanwhile, or any statement fails.
CopyFails(q) ==
    /\ call[q].op = "copy" /\ End(q) /\ fault' = TRUE
    /\ UNCHANGED <<page, section, part, version, edited>>
CountVersion(q) ==
    /\ At(q, "copy", "version") /\ version < MaxVersion
    /\ version' = version + 1 /\ edited' = FALSE /\ End(q)
    /\ UNCHANGED <<page, section, part, fault>>

-----------------------------------------------------------------------------
(* Discarding *)

DiscardDrafts(q) ==
    /\ Begin(q, [op |-> "discard", pc |-> "parts"])
    /\ UNCHANGED draftVars
DiscardStep(q) ==
    /\ call[q].op = "discard"
    /\ CASE call[q].pc = "parts" ->
              /\ part' = [c \in Parts |-> Gone]
              /\ Go(q, "sections") /\ UNCHANGED <<page, section, version>>
         [] call[q].pc = "sections" ->
              /\ WithoutSections(Sections)
              /\ Go(q, "pages") /\ UNCHANGED <<page, version>>
         [] call[q].pc = "pages" ->
              /\ WithoutSections(Sections)
              /\ page' = [p \in Slugs |-> "none"]
              /\ Go(q, "version") /\ UNCHANGED version
         [] call[q].pc = "version" ->
              /\ version' = 0 /\ End(q) /\ UNCHANGED <<page, section, part>>
    /\ edited' = FALSE /\ UNCHANGED fault
DiscardFails(q) ==
    /\ call[q].op = "discard" /\ End(q) /\ fault' = TRUE
    /\ UNCHANGED <<page, section, part, version, edited>>

-----------------------------------------------------------------------------
(* Editing *)

\* Each edit finds its row, then writes it; what is gone by then fails.
Edit(q, op, id) ==
    /\ CASE op \in {"updatePage", "deletePage", "addSection"} -> id \in PagesThere
         [] op \in {"updateSection", "deleteSection", "addComponent"} ->
              id \in Sections /\ section[id].of \in Slugs
         [] OTHER -> id \in Parts /\ part[id].of \in Sections
    /\ Begin(q, [op |-> op, pc |-> "write", id |-> id])
    /\ UNCHANGED draftVars
UpdatePage(q, state) ==
    /\ call[q].op = "updatePage" /\ page[call[q].id] # "none"
    /\ page' = [page EXCEPT ![call[q].id] = state]
    /\ edited' = TRUE /\ End(q)
    /\ UNCHANGED <<section, part, version, fault>>
AddSection(q) ==
    /\ call[q].op = "addSection" /\ page[call[q].id] # "none" /\ Spare(section) # {}
    /\ section' = [section EXCEPT ![Fresh(section)] = [of |-> call[q].id, active |-> TRUE]]
    /\ edited' = TRUE /\ End(q)
    /\ UNCHANGED <<page, part, version, fault>>
UpdateSection(q, active) ==
    /\ call[q].op = "updateSection" /\ section[call[q].id] # Gone
    /\ section' = [section EXCEPT ![call[q].id].active = active]
    /\ edited' = TRUE /\ End(q)
    /\ UNCHANGED <<page, part, version, fault>>
AddComponent(q) ==
    /\ call[q].op = "addComponent" /\ section[call[q].id] # Gone /\ Spare(part) # {}
    /\ part' = [part EXCEPT ![Fresh(part)] = [of |-> call[q].id, active |-> TRUE]]
    /\ edited' = TRUE /\ End(q)
    /\ UNCHANGED <<page, section, version, fault>>
UpdateComponent(q, active) ==
    /\ call[q].op = "updateComponent" /\ part[call[q].id] # Gone
    /\ part' = [part EXCEPT ![call[q].id].active = active]
    /\ edited' = TRUE /\ End(q)
    /\ UNCHANGED <<page, section, version, fault>>
DeleteComponent(q) ==
    /\ call[q].op = "deleteComponent" /\ part[call[q].id] # Gone
    /\ part' = [part EXCEPT ![call[q].id] = Gone]
    /\ edited' = TRUE /\ End(q)
    /\ UNCHANGED <<page, section, version, fault>>
\* The rows below first, then the row, with what was added in between.
DeleteSection(q) ==
    LET s == call[q].id
    IN  /\ call[q].op = "deleteSection" /\ section[s] # Gone
        /\ IF call[q].pc = "write"
           THEN /\ part' = [c \in Parts |-> IF part[c].of = s THEN Gone ELSE part[c]]
                /\ Go(q, "row") /\ UNCHANGED section
           ELSE WithoutSections({s}) /\ End(q)
        /\ edited' = TRUE
        /\ UNCHANGED <<page, version, fault>>
DeletePage(q) ==
    LET p == call[q].id
    IN  /\ call[q].op = "deletePage" /\ page[p] # "none"
        /\ CASE call[q].pc = "write" ->
                  /\ part' = [c \in Parts |-> IF part[c].of \in SectionsOf(p) THEN Gone ELSE part[c]]
                  /\ Go(q, "sections") /\ UNCHANGED <<page, section>>
             [] call[q].pc = "sections" ->
                  WithoutSections(SectionsOf(p)) /\ Go(q, "row") /\ UNCHANGED page
             [] OTHER -> /\ WithoutSections(SectionsOf(p))
                         /\ page' = [page EXCEPT ![p] = "none"] /\ End(q)
        /\ edited' = TRUE
        /\ UNCHANGED <<version, fault>>
Edits == {"updatePage", "deletePage", "addSection", "updateSection", "deleteSection",
          "addComponent", "updateComponent", "deleteComponent"}
EditFails(q) ==
    /\ call[q].op \in Edits
    /\ \/ call[q].id \in Slugs /\ page[call[q].id] = "none"
       \/ call[q].id \in Sections /\ section[call[q].id] = Gone
       \/ call[q].id \in Parts /\ part[call[q].id] = Gone
    /\ End(q)
    /\ UNCHANGED draftVars

-----------------------------------------------------------------------------
\* What the compiler and the preview take: the active rows of active rows.
Compiled == {t \in Slugs \X Sections \X Parts :
                /\ page[t[1]] = "active"
                /\ section[t[2]] = [of |-> t[1], active |-> TRUE]
                /\ part[t[3]] = [of |-> t[2], active |-> TRUE]}

Init ==
    /\ page = [p \in Slugs |-> "none"]
    /\ section = [s \in Sections |-> Gone] /\ part = [c \in Parts |-> Gone]
    /\ version = 0 /\ edited = FALSE /\ fault = FALSE
    /\ rival \in DraftRivals
    /\ call = [q \in Requests |-> Idle]

BuilderNext ==
    \E q \in Requests :
        \/ InitializeDrafts(q)
        \/ \E p \in Slugs : CopyPage(q, p)
        \/ CopySection(q) \/ CopyPart(q) \/ CopyFails(q) \/ CountVersion(q)
        \/ DiscardDrafts(q) \/ DiscardStep(q) \/ DiscardFails(q)
        \/ \E op \in Edits : \E id \in Slugs \cup Sections \cup Parts : Edit(q, op, id)
        \/ \E state \in {"active", "hidden"} : UpdatePage(q, state)
        \/ AddSection(q) \/ AddComponent(q) \/ DeleteComponent(q)
        \/ \E active \in BOOLEAN : UpdateSection(q, active) \/ UpdateComponent(q, active)
        \/ DeleteSection(q) \/ DeletePage(q) \/ EditFails(q)
Next == BuilderNext /\ UNCHANGED rival

Spec == Init /\ [][Next]_<<draftVars, rival, call>>

-----------------------------------------------------------------------------
(* Correctness *)

\* Types.
TypeOK ==
    /\ \A p \in Slugs : page[p] \in {"none", "active", "hidden"}
    /\ \A s \in Sections : section[s].of \in Slugs \cup {"none"}
    /\ \A c \in Parts : part[c].of \in Sections \cup {"none"}
    /\ version \in 0..MaxVersion

\* Where nothing failed and no two requests overlapped, drafts nobody edited
\* since the copy show the whole live app, and none are left of discarded
\* ones; a copy that fails half way is never completed, since a draft page
\* is all it takes for the drafts to count as initialized
\* (builder.service.ts:40-109, 126-143).
DraftsWhole ==
    rival = {} /\ ~fault /\ ~edited /\ (\A q \in Requests : call[q] = Idle) =>
        /\ version > 0 => {t[1] : t \in Compiled} = Live
        /\ version = 0 => Compiled = {} /\ PagesThere = {}

\* No row outlives the row above it, whatever overlaps (the foreign keys of
\* DraftSection and DraftComponent).
NoOrphans ==
    /\ \A s \in Sections : section[s].of \in Slugs => page[section[s].of] # "none"
    /\ \A c \in Parts : part[c].of \in Sections => section[part[c].of].of \in Slugs
=============================================================================
