-------------------------------- MODULE Studio --------------------------------
(* What a merchant makes and shows: forms, theme, drafts, media, library,   *)
(* manifest, plugins and templates, reports; and the publishing pipeline.   *)
(* A behaviour takes the steps of one part of one of them, named by focus;  *)
(* the others stay as they were created.  Where two of them write one row,  *)
(* each has the other's writes as an action of its own: the theme is edited *)
(* in place by templates (Theme), pages and theme change while a template   *)
(* is applied (Marketplace), reports read what the shop books (Reports).    *)
EXTENDS Publishing, Sequences

CONSTANTS
    Requests,      \* requests in flight at most
    \* Forms: submissions, questions, answers, overlaps, bounds
    Sent, Questions, Answers, FormRivals, MaxSteps, MaxEdits, MaxApprovals,
    \* Theme: overlaps, versions
    ThemeRivals, MaxThemes,
    \* Drafts: slugs, those of the live app, rows, overlaps, copies counted
    DraftPages, Live, DraftSections, DraftParts, DraftRivals, MaxDrafts,
    \* Media: compliance submissions
    Documents,
    \* Assets: folders, collections, providers, files, the limit of a share
    Folders, Collections, Providers, Files, MaxDownloads, Horizon,
    \* Manifest: what surrounds the screens, trees, nodes to add, the contract
    Frames, Skeletons, Shapes, MaxNodes, SupportedTypes, SupportedCapabilities,
    Limits, AssetIds,
    \* Marketplace: tenants, the template
    Tenants, Template, MaxListings,
    \* Reports: rows, totals, days, what a summary reads
    Orders, Bookings, Widgets, Amounts, Days, Month, Take

VARIABLES
    focus,         \* the part whose steps this behaviour takes
    solo,          \* its requests do not overlap
    form, field, questions, submission, approval, formRival, filling,
    theme, snapshot, was, stored, cache, themeRival, styling,
    page, section, part, version, edited, failed, draftRival, building,
    s3, object, media, document, moving, uploaded, missing, stopped, uploading,
    folder, place, collection, vendor, share, served, filing,
    frame, tree, asset,
    listing, released, installation, slug, style, navigation, copies, applied,
    installing,
    today, order, earned, booking, dashboard, widget, reporting

foVars == <<form, field, questions, submission, approval, formRival, filling>>
thVars == <<theme, snapshot, was, stored, cache, themeRival, styling>>
drVars == <<page, section, part, version, edited, failed, draftRival, building>>
mdVars == <<s3, object, media, document, moving, uploaded, missing, stopped, uploading>>
asVars == <<folder, place, collection, vendor, share, served, filing>>
mnVars == <<frame, tree, asset>>
mkVars == <<listing, released, installation, slug, style, navigation, copies, applied,
            installing>>
reVars == <<today, order, earned, booking, dashboard, widget, reporting>>

-----------------------------------------------------------------------------
FO == INSTANCE Forms WITH
        Submissions <- Sent, rival <- formRival, asked <- questions, call <- filling
TH == INSTANCE Theme WITH
        MaxVersion <- MaxThemes, rival <- themeRival, call <- styling
DR == INSTANCE Drafts WITH
        Slugs <- DraftPages, Sections <- DraftSections, Parts <- DraftParts,
        MaxVersion <- MaxDrafts, rival <- draftRival,
        fault <- failed, call <- building
MD == INSTANCE Media WITH
        Submissions <- Documents, row <- media, broken <- missing,
        cut <- stopped, call <- uploading
AS == INSTANCE Assets WITH provider <- vendor, call <- filing
MN == INSTANCE Manifest WITH Assets <- AssetIds, media <- asset
MK == INSTANCE Marketplace WITH page <- slug, theme <- style, call <- installing
RE == INSTANCE Reports WITH event <- earned, call <- reporting

-----------------------------------------------------------------------------
(* What the bounds and the data given are *)

ASSUME ThemeAssumption == MaxThemes \in Nat \ {0}
ASSUME FormsAssumption ==
    MaxEdits \in Nat \ {0} /\ MaxSteps \in Nat /\ MaxApprovals \in Nat
\* "none" stands for no page or section.
ASSUME DraftsAssumption ==
    Live \subseteq DraftPages /\ "none" \notin DraftPages \cup DraftSections /\ MaxDrafts \in Nat
ASSUME MarketAssumption ==
    /\ MaxListings \in Nat /\ IsFiniteSet(Requests)
    /\ Template.pages \in Seq({Template.pages[i] : i \in DOMAIN Template.pages})
    /\ Template.media \in Seq({Template.media[i] : i \in DOMAIN Template.media})
ASSUME AssetsAssumption == MaxDownloads \in Nat /\ Horizon \in Nat /\ IsFiniteSet(Requests)
\* What an author starts from is a tree; what is added to it is a node.
ASSUME ManifestAssumption ==
    /\ \A t \in Skeletons : MN!WellFormed(t)
    /\ \A s \in Shapes :
         /\ s = [up |-> s.up, key |-> s.key, kind |-> s.kind, type |-> s.type, has |-> s.has,
                 asset |-> s.asset, dest |-> s.dest]
         /\ s.kind \in {"object", "array", "scalar"}
         /\ s.kind # "object" => s.asset = "none"
    /\ Limits.depth \in Nat /\ Limits.walk \in Nat /\ Limits.validator \in Nat
\* Days are numbered and amounts are whole.
ASSUME ReportsAssumption ==
    /\ IsFiniteSet(Days) /\ Days # {} /\ Days \subseteq Nat
    /\ Amounts \subseteq Nat /\ Take \in Nat
    /\ IsFiniteSet(Orders) /\ IsFiniteSet(Bookings)

-----------------------------------------------------------------------------
Areas ==
    {"publishing", "forms", "theme", "drafts", "media", "folders", "library", "shares",
     "manifest", "plugins", "templates", "history", "dashboard"}
\* The areas whose requests may be made to wait for each other.
Paced == {"media", "folders", "library", "shares", "plugins", "templates"}

StudioInit ==
    /\ focus \in Areas
    /\ solo \in BOOLEAN /\ (solo => focus \in Paced)
    /\ Init
    /\ FO!Init /\ (formRival # {} => focus = "forms")
    /\ TH!Init /\ (themeRival # {} => focus = "theme")
    /\ DR!Init /\ (draftRival # {} => focus = "drafts")
    /\ MD!Init /\ (s3 \/ uploaded => focus = "media")
    /\ AS!Init
    /\ MN!Init
    /\ focus # "manifest" =>
          /\ frame = CHOOSE f \in Frames : TRUE
          /\ tree = CHOOSE t \in Skeletons : TRUE
          /\ asset = [a \in AssetIds |-> "own"]
    /\ MK!Init /\ RE!Init

FOStep ==
    /\ focus = "forms" /\ FO!FormNext
    /\ UNCHANGED <<thVars, drVars, mdVars, asVars, mnVars, mkVars, reVars>>
THStep ==
    /\ focus = "theme" /\ TH!ThemeNext
    /\ UNCHANGED <<foVars, drVars, mdVars, asVars, mnVars, mkVars, reVars>>
DRStep ==
    /\ focus = "drafts" /\ DR!BuilderNext /\ UNCHANGED draftRival
    /\ UNCHANGED <<foVars, thVars, mdVars, asVars, mnVars, mkVars, reVars>>
MDStep ==
    /\ focus = "media" /\ MD!MediaNext
    /\ UNCHANGED <<foVars, thVars, drVars, asVars, mnVars, mkVars, reVars>>
ASStep ==
    /\ \/ focus = "folders" /\ AS!FolderNext
       \/ focus = "library" /\ AS!LibraryNext
       \/ focus = "shares" /\ AS!ShareNext
    /\ UNCHANGED <<foVars, thVars, drVars, mdVars, mnVars, mkVars, reVars>>
MNStep ==
    /\ focus = "manifest" /\ MN!Next
    /\ UNCHANGED <<foVars, thVars, drVars, mdVars, asVars, mkVars, reVars>>
MKStep ==
    /\ \/ focus = "plugins" /\ MK!PluginNext
       \/ focus = "templates" /\ MK!TemplateNext
    /\ UNCHANGED <<foVars, thVars, drVars, mdVars, asVars, mnVars, reVars>>
REStep ==
    /\ \/ focus = "history" /\ RE!HistoryNext
       \/ focus = "dashboard" /\ RE!DashboardNext
    /\ UNCHANGED <<foVars, thVars, drVars, mdVars, asVars, mnVars, mkVars>>
PublishingStep ==
    /\ focus = "publishing" /\ Next
    /\ UNCHANGED <<foVars, thVars, drVars, mdVars, asVars, mnVars, mkVars, reVars>>
ContentStep ==
    /\ FOStep \/ THStep \/ DRStep \/ MDStep \/ ASStep \/ MNStep \/ MKStep \/ REStep
    /\ UNCHANGED vars

StudioNext ==
    \/ PublishingStep /\ UNCHANGED <<focus, solo>>
    \/ ContentStep /\ UNCHANGED <<focus, solo>>
studioVars == <<vars, focus, solo, foVars, thVars, drVars, mdVars, asVars, mnVars,
                mkVars, reVars>>
StudioSpec == StudioInit /\ [][StudioNext]_studioVars

-----------------------------------------------------------------------------
\* The rows of every part have their types.
ContentTyped ==
    /\ focus = "forms" => FO!TypeOK
    /\ focus = "theme" => TH!TypeOK
    /\ focus = "drafts" => DR!TypeOK
    /\ focus = "media" => MD!TypeOK
    /\ focus \in {"folders", "library", "shares"} => AS!TypeOK
    /\ focus = "manifest" => MN!TypeOK
    /\ focus \in {"plugins", "templates"} => MK!TypeOK
    /\ focus \in {"history", "dashboard"} => RE!TypeOK

\* Nothing a merchant made is lost half way: submissions were checked against
\* the fields of their form and a decision stands (forms.service.ts), restored
\* versions are the ones that were saved (theme.service.ts), copied drafts show
\* the whole app and leave no row without its parent (builder.service.ts),
\* compliance documents keep an address that can be read (media.service.ts),
\* what is installed was published, a template that was answered is applied in
\* full and never replaces the merchant's own logo (templates.service.ts).
ContentWhole ==
    /\ [](focus = "forms" => FO!SubmissionsChecked /\ FO!DecisionStands)
    /\ [](focus = "theme" => TH!HistoryKept)
    /\ [](focus = "drafts" => DR!DraftsWhole /\ DR!NoOrphans)
    /\ [](focus = "media" => MD!DocumentsKept)
    /\ [](focus \in {"plugins", "templates"} =>
             MK!InstalledWasPublished /\ MK!TemplateApplied)
    /\ MK!OwnLogoKept

\* What is shown agrees with what is stored: the theme's cache with its row
\* (theme.service.ts:63-90), public storage with private documents
\* (media.service.ts:369-394), folders, collections and shares with the files
\* (assets-enhanced.service.ts), an accepted manifest with what the renderer
\* draws (manifest-validator.service.ts, compatibility.service.ts), and the
\* reports and pages with each other (analytics, dashboards and BFFs).
ViewsAgree ==
    /\ focus = "theme" => TH!CacheAgrees
    /\ focus = "media" => MD!NoPublicCopy
    /\ focus \in {"folders", "library", "shares"} => AS!LibraryConsistent
    /\ focus = "manifest" => MN!AcceptedIsRenderable /\ MN!ValidActionsLead
    /\ focus \in {"history", "dashboard"} => RE!ReportsAgree /\ RE!PagesCoverTheList
=============================================================================
