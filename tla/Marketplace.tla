----------------------------- MODULE Marketplace -----------------------------
(* The plugin marketplace (marketplace.service.ts) and the application of a *)
(* template to a tenant (templates.service.ts): pages one by one, the theme *)
(* merged with what the tenant had, the navigation, and the media by hash.  *)
EXTENDS Integers, Sequences, FiniteSets

CONSTANTS
    Requests,      \* requests in flight at most
    Tenants,       \* tenants that install the plugin
    Template,      \* [pages, color, logo, navigation, media]: a template's config
    MaxListings    \* bound: listings created, versions and downloads of one

VARIABLES
    listing,       \* the MarketplaceListing row of one slug
    released,      \* <<id, version>> pairs that were published at some time
    installation,  \* PluginInstallation rows, one per tenant and listing
    page,          \* who wrote the tenant's page of each slug
    theme,         \* the tenant's theme: who set its colour and its logo
    navigation,    \* who wrote the navigation
    copies,        \* media rows of the tenant per hash
    applied,       \* the template was applied; "dropped" once a copy was deleted
    solo,          \* requests do not overlap in this behaviour
    call           \* what each request read and has still to write

pluginVars == <<listing, released, installation>>
templateVars == <<page, theme, navigation, copies, applied>>

Idle == [op |-> "idle"]
Free(q) == call[q] = Idle /\ (solo => \A r \in Requests : call[r] = Idle)
Begin(q, c) == Free(q) /\ call' = [call EXCEPT ![q] = c]
Go(q, c) == call' = [call EXCEPT ![q] = c]
End(q) == call' = [call EXCEPT ![q] = Idle]
Is(q, op) == call[q].op = op

-----------------------------------------------------------------------------
(* Listings and installations *)

NoListing(id) == [there |-> FALSE, id |-> id, version |-> 0, published |-> FALSE,
                  downloads |-> 0]
NotInstalled == [there |-> FALSE, id |-> 0, version |-> 0, active |-> FALSE,
                 configured |-> FALSE]
Publish(l) == IF l.published THEN released \cup {<<l.id, l.version>>} ELSE released

CreateListing(published) ==
    /\ ~listing.there /\ listing.id < MaxListings
    /\ listing' = [there |-> TRUE, id |-> listing.id + 1, version |-> 1,
                   published |-> published, downloads |-> 0]
    /\ released' = Publish(listing')
    /\ UNCHANGED <<installation, call>>
UpdateListing(version, published) ==
    /\ listing.there
    /\ listing' = [listing EXCEPT !.version = version, !.published = published]
    /\ released' = Publish(listing')
    /\ UNCHANGED <<installation, call>>
\* Deleting the listing cascades to its installations.
DeleteListing ==
    /\ listing.there
    /\ listing' = NoListing(listing.id)
    /\ installation' = [t \in Tenants |-> NotInstalled]
    /\ UNCHANGED <<released, call>>
RecordDownload ==
    /\ listing.there /\ listing.downloads < MaxListings
    /\ listing' = [listing EXCEPT !.downloads = @ + 1]
    /\ UNCHANGED <<released, installation, call>>

\* installPlugin stores the version of the listing it read.
ReadPublished(q, t) ==
    /\ listing.there /\ listing.published
    /\ ~installation[t].there
    /\ Begin(q, [op |-> "install", t |-> t, id |-> listing.id,
                 version |-> listing.version])
    /\ UNCHANGED pluginVars
InstallPlugin(q) ==
    LET t == call[q].t IN
    /\ installation' =
         IF listing.there /\ listing.id = call[q].id /\ ~installation[t].there
         THEN [installation EXCEPT ![t] =
                 [there |-> TRUE, id |-> call[q].id, version |-> call[q].version,
                  active |-> TRUE, configured |-> FALSE]]
         ELSE installation
    /\ End(q)
    /\ UNCHANGED <<listing, released>>
UpdatePluginConfig(t) ==
    /\ installation[t].there
    /\ installation' = [installation EXCEPT ![t].configured = TRUE]
    /\ UNCHANGED <<listing, released, call>>
TogglePlugin(t, active) ==
    /\ installation[t].there
    /\ installation' = [installation EXCEPT ![t].active = active]
    /\ UNCHANGED <<listing, released, call>>
UninstallPlugin(t) ==
    /\ installation[t].there
    /\ installation' = [installation EXCEPT ![t] = NotInstalled]
    /\ UNCHANGED <<listing, released, call>>

PublishedListings == IF listing.there /\ listing.published THEN {listing} ELSE {}
InstalledPlugins(t) == IF installation[t].there THEN {installation[t]} ELSE {}
PluginStats ==
    [listings |-> IF listing.there THEN 1 ELSE 0,
     installs |-> Cardinality({t \in Tenants : installation[t].there}),
     downloads |-> listing.downloads]

PluginNext ==
    /\ \/ \E published \in BOOLEAN : CreateListing(published)
       \/ \E v \in 1..MaxListings : \E published \in BOOLEAN :
             UpdateListing(v, published)
       \/ DeleteListing \/ RecordDownload
       \/ \E q \in Requests : \E t \in Tenants : ReadPublished(q, t)
       \/ \E q \in Requests : Is(q, "install") /\ InstallPlugin(q)
       \/ \E t \in Tenants : UpdatePluginConfig(t) \/ UninstallPlugin(t)
       \/ \E t \in Tenants : \E active \in BOOLEAN : TogglePlugin(t, active)
    /\ UNCHANGED <<templateVars, solo>>

-----------------------------------------------------------------------------
(* Templates.  Who wrote a value: "none", "own" (the tenant) or "template". *)

Slugs == {Template.pages[i].slug : i \in DOMAIN Template.pages}
Hashes == {Template.media[i] : i \in DOMAIN Template.media}
Writers == {"none", "own", "template"}
NoTheme == [there |-> FALSE, color |-> "none", logo |-> "none"]
Given(x) == IF x THEN "template" ELSE "none"
Or(a, b) == IF a # "none" THEN a ELSE b

\* What happens to the tenant's rows meanwhile.  Pages are seeded when the
\* merchant signs up, and no code deletes one.
SeedPage(slug) ==
    /\ page[slug] = "none" /\ page' = [page EXCEPT ![slug] = "own"]
    /\ UNCHANGED <<theme, navigation, copies, applied>>
\* The merchant edits its theme, clears its logo or restores a version that
\* had another one.
EditTheme ==
    /\ \E logo \in Writers : theme' = [there |-> TRUE, color |-> "own", logo |-> logo]
    /\ UNCHANGED <<page, navigation, copies, applied>>
EditNavigation ==
    /\ navigation' = "own"
    /\ UNCHANGED <<page, theme, copies, applied>>
DeleteAsset(hash) ==
    /\ copies[hash] > 0 /\ copies' = [copies EXCEPT ![hash] = @ - 1]
    /\ applied' = "dropped"
    /\ UNCHANGED <<page, theme, navigation>>

Progress(op, at, kept) == [op |-> op, at |-> at, kept |-> kept]
\* useTemplate reads the theme first and writes it after the pages.  A template
\* without pages is refused.
UseTemplate(q) ==
    /\ Template.pages # <<>>
    /\ Begin(q, Progress("pages", 1, theme))
    /\ UNCHANGED templateVars
FindPage(q) ==
    LET at == call[q].at IN
    /\ at <= Len(Template.pages)
    /\ IF ~Template.pages[at].complete
       THEN End(q)
       ELSE IF page[Template.pages[at].slug] # "none"
       THEN Go(q, [call[q] EXCEPT !.at = @ + 1])
       ELSE Go(q, [call[q] EXCEPT !.op = "page"])
    /\ UNCHANGED templateVars
\* A page that appeared since is refused by the key on tenant and slug, and
\* the request fails with what it had written.
CreatePage(q) ==
    LET slug == Template.pages[call[q].at].slug IN
    /\ IF page[slug] # "none"
       THEN End(q) /\ UNCHANGED page
       ELSE /\ page' = [page EXCEPT ![slug] = "template"]
            /\ Go(q, Progress("pages", call[q].at + 1, call[q].kept))
    /\ UNCHANGED <<theme, navigation, copies, applied>>

Merged(kept) ==
    IF ~kept.there
    THEN [there |-> TRUE, color |-> Given(Template.color), logo |-> Given(Template.logo)]
    ELSE [there |-> TRUE, color |-> Or(Given(Template.color), kept.color),
          logo |-> Or(kept.logo, Given(Template.logo))]
\* The update leaves alone what the merged theme does not name.
ApplyTheme(q) ==
    /\ call[q].at > Len(Template.pages)
    /\ theme' = LET new == Merged(call[q].kept) IN
                IF ~(Template.color \/ Template.logo)
                THEN theme
                ELSE IF ~theme.there
                THEN Merged(NoTheme)
                ELSE [there |-> TRUE, color |-> Or(new.color, theme.color),
                      logo |-> Or(new.logo, theme.logo)]
    /\ Go(q, Progress("navigation", 1, NoTheme))
    /\ UNCHANGED <<page, navigation, copies, applied>>
ApplyNavigation(q) ==
    /\ navigation' = IF Template.navigation THEN "template" ELSE navigation
    /\ Go(q, Progress("media", 1, NoTheme))
    /\ UNCHANGED <<page, theme, copies, applied>>
FindAsset(q) ==
    LET at == call[q].at IN
    /\ IF at > Len(Template.media)
       THEN End(q) /\ applied' = IF applied = "no" THEN "yes" ELSE applied
       ELSE /\ IF copies[Template.media[at]] > 0
               THEN Go(q, Progress("media", at + 1, NoTheme))
               ELSE Go(q, Progress("copy", at, NoTheme))
            /\ UNCHANGED applied
    /\ UNCHANGED <<page, theme, navigation, copies>>
CopyAsset(q) ==
    /\ copies' = [copies EXCEPT ![Template.media[call[q].at]] = @ + 1]
    /\ Go(q, Progress("media", call[q].at + 1, NoTheme))
    /\ UNCHANGED <<page, theme, navigation, applied>>

TemplateNext ==
    /\ \/ /\ \/ \E slug \in Slugs : SeedPage(slug)
             \/ EditTheme \/ EditNavigation
             \/ \E hash \in Hashes : DeleteAsset(hash)
          /\ \A q \in Requests : solo => call[q] = Idle
          /\ UNCHANGED call
       \/ \E q \in Requests : UseTemplate(q)
       \/ \E q \in Requests : Is(q, "pages") /\ (FindPage(q) \/ ApplyTheme(q))
       \/ \E q \in Requests : Is(q, "page") /\ CreatePage(q)
       \/ \E q \in Requests : Is(q, "navigation") /\ ApplyNavigation(q)
       \/ \E q \in Requests : Is(q, "media") /\ FindAsset(q)
       \/ \E q \in Requests : Is(q, "copy") /\ CopyAsset(q)
    /\ UNCHANGED <<pluginVars, solo>>

-----------------------------------------------------------------------------
Init ==
    /\ listing = NoListing(0) /\ released = {}
    /\ installation = [t \in Tenants |-> NotInstalled]
    /\ page = [s \in Slugs |-> "none"]
    /\ theme = NoTheme /\ navigation = "none"
    /\ copies = [h \in Hashes |-> 0]
    /\ applied = "no"
    /\ solo \in BOOLEAN
    /\ call = [q \in Requests |-> Idle]

MarketplaceNext == PluginNext \/ TemplateNext
Spec == Init /\ [][MarketplaceNext]_<<pluginVars, templateVars, solo, call>>

-----------------------------------------------------------------------------
TypeOK ==
    /\ listing.version \in 0..MaxListings /\ listing.downloads \in 0..MaxListings
    /\ released \subseteq (1..MaxListings) \X (1..MaxListings)
    /\ \A t \in Tenants : InstalledPlugins(t) # {} <=> installation[t] # NotInstalled
    /\ page \in [Slugs -> Writers]
    /\ theme \in [there : BOOLEAN, color : Writers, logo : Writers]
    /\ navigation \in Writers
    /\ copies \in [Hashes -> 0..Cardinality(Requests)]
    /\ applied \in {"no", "yes", "dropped"}

\* A plugin is installed in a version that was published, of the listing that
\* exists now, whatever the author unpublishes, deletes or creates again
\* meanwhile (marketplace.service.ts:79-96).
InstalledWasPublished ==
    /\ \A t \in Tenants : installation[t].there =>
          /\ <<installation[t].id, installation[t].version>> \in released
          /\ listing.there /\ installation[t].id = listing.id
    /\ PluginStats.installs > 0 => PluginStats.listings = 1
    /\ \A l \in PublishedListings : <<l.id, l.version>> \in released

\* "Template applied successfully" means that every page of the template has
\* its slug in the tenant, every asset a copy unless one was deleted since, and
\* that there is a navigation.  While requests do not overlap, an asset is
\* copied once (templates.service.ts:99-156).
TemplateApplied ==
    /\ applied = "yes" =>
         /\ \A s \in Slugs : page[s] # "none"
         /\ \A h \in Hashes : copies[h] > 0
         /\ Template.navigation => navigation # "none"
    /\ solo => \A h \in Hashes : copies[h] <= 1

\* While a template is applied and nothing overlaps, the tenant's own logo
\* stays (templates.service.ts:99-111).
OwnLogoKept == [][(/\ solo /\ theme.logo = "own"
                   /\ \E q \in Requests : call[q] # Idle) => theme'.logo = "own"]_theme
=============================================================================
