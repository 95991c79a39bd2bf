-------------------------------- MODULE Assets --------------------------------
(* What surrounds the files of the media library: folders, collections,     *)
(* share links with a download limit and the storage providers of a tenant. *)
EXTENDS Integers, FiniteSets

CONSTANTS
    Requests,      \* requests in flight at most
    Folders,       \* ids of folders
    Collections,   \* ids of collections
    Providers,     \* ids of storage providers
    Files,         \* media rows
    MaxDownloads,  \* AssetShare.maxDownloads; 0: no limit
    Horizon        \* bound: the clock, and the downloads counted

VARIABLES
    folder,        \* AssetFolder rows: name and parent
    place,         \* the folder of each file
    collection,    \* AssetCollection rows and their items
    provider,      \* StorageProvider rows
    share,         \* one AssetShare row
    served,        \* downloads answered
    solo,          \* requests do not overlap in this behaviour
    call           \* what each request read and has still to write

folderVars == <<folder, place>>
shareVars == <<share, served>>
assetVars == <<folderVars, collection, provider, shareVars>>

Idle == [op |-> "idle"]
Free(q) == call[q] = Idle /\ (solo => \A r \in Requests : call[r] = Idle)
Begin(q, c) == Free(q) /\ call' = [call EXCEPT ![q] = c]
End(q) == call' = [call EXCEPT ![q] = Idle]
Is(q, op) == call[q].op = op

-----------------------------------------------------------------------------
(* Folders *)

NoFolder == [there |-> FALSE, named |-> FALSE, parent |-> "none"]
Root == "none"

\* resolveFolderId finds a folder by its name, or creates it later; uploads
\* name the folder they want.
ResolveFolder(q, f) ==
    /\ \E file \in Files :
         LET found == {g \in Folders : folder[g].there /\ folder[g].named}
         IN  IF found # {}
             THEN /\ \E g \in found : place' = [place EXCEPT ![file] = g]
                  /\ UNCHANGED call
             ELSE /\ ~folder[f].there
                  /\ Begin(q, [op |-> "resolve", id |-> f, file |-> file])
                  /\ UNCHANGED place
    /\ UNCHANGED folder
CreateNamed(q) ==
    LET f == call[q].id IN
    /\ ~folder[f].there
    /\ folder' = [folder EXCEPT ![f] = [there |-> TRUE, named |-> TRUE,
                                        parent |-> Root]]
    /\ place' = [place EXCEPT ![call[q].file] = f]
    /\ End(q)
\* createFolder makes another folder, of another name here.
CreateFolder(f, p) ==
    /\ ~folder[f].there
    /\ p # Root => folder[p].there
    /\ folder' = [folder EXCEPT ![f] = [there |-> TRUE, named |-> FALSE,
                                        parent |-> p]]
    /\ UNCHANGED <<place, call>>
\* updateFolder: any existing parent is accepted, the folder itself included.
MoveFolder(f, p) ==
    /\ folder[f].there
    /\ p # Root => folder[p].there
    /\ folder' = [folder EXCEPT ![f].parent = p]
    /\ UNCHANGED <<place, call>>
ReadForDelete(q, f) ==
    /\ folder[f].there
    /\ \A g \in Folders : folder[g].parent # f
    /\ \A file \in Files : place[file] # f
    /\ Begin(q, [op |-> "delete", id |-> f])
    /\ UNCHANGED folderVars
\* What came into the folder meanwhile falls back to the root.
DeleteFolder(q) ==
    LET f == call[q].id IN
    /\ folder' = [g \in Folders |->
                    IF g = f THEN NoFolder
                    ELSE IF folder[g].parent = f
                         THEN [folder[g] EXCEPT !.parent = Root]
                         ELSE folder[g]]
    /\ place' = [file \in Files |-> IF place[file] = f THEN Root ELSE place[file]]
    /\ End(q)

FolderNext ==
    /\ \/ \E q \in Requests : \E f \in Folders : ResolveFolder(q, f)
       \/ \E q \in Requests : Is(q, "resolve") /\ CreateNamed(q)
       \/ \E f \in Folders : \E p \in Folders \cup {Root} : CreateFolder(f, p)
       \/ \E f \in Folders : \E p \in Folders \cup {Root} : MoveFolder(f, p)
       \/ \E q \in Requests : \E f \in Folders : ReadForDelete(q, f)
       \/ \E q \in Requests : Is(q, "delete") /\ DeleteFolder(q)
    /\ UNCHANGED <<collection, provider, shareVars, solo>>

-----------------------------------------------------------------------------
(* Collections *)

NoCollection == [there |-> FALSE, items |-> {}]
CreateCollection(c) ==
    /\ ~collection[c].there
    /\ collection' = [collection EXCEPT ![c].there = TRUE]
DeleteCollection(c) ==
    /\ collection[c].there
    /\ collection' = [collection EXCEPT ![c] = NoCollection]
\* A second row of the same item is refused by its key.
AddItem(c, file) ==
    /\ collection[c].there /\ file \notin collection[c].items
    /\ collection' = [collection EXCEPT ![c].items = @ \cup {file}]
RemoveItem(c, file) ==
    /\ file \in collection[c].items
    /\ collection' = [collection EXCEPT ![c].items = @ \ {file}]

-----------------------------------------------------------------------------
(* Storage providers.  Making one the default clears the others first. *)

NoProvider == [there |-> FALSE, isDefault |-> FALSE]
SaveProvider(q, p) ==
    \E default \in BOOLEAN :
      IF default
      THEN /\ provider' = [x \in Providers |->
                             [provider[x] EXCEPT !.isDefault = FALSE]]
           /\ Begin(q, [op |-> "provider", id |-> p])
      ELSE /\ provider' = [provider EXCEPT ![p] =
                             [there |-> TRUE, isDefault |-> FALSE]]
           /\ UNCHANGED call
MakeDefault(q) ==
    /\ provider' = [provider EXCEPT ![call[q].id] =
                      [there |-> TRUE, isDefault |-> TRUE]]
    /\ End(q)

LibraryNext ==
    /\ \/ /\ \/ \E c \in Collections : CreateCollection(c)
             \/ \E c \in Collections : DeleteCollection(c)
             \/ \E c \in Collections : \E file \in Files : AddItem(c, file)
             \/ \E c \in Collections : \E file \in Files : RemoveItem(c, file)
          /\ UNCHANGED <<provider, call>>
       \/ /\ \/ \E q \in Requests : \E p \in Providers : SaveProvider(q, p)
             \/ \E q \in Requests : Is(q, "provider") /\ MakeDefault(q)
          /\ UNCHANGED collection
    /\ UNCHANGED <<folderVars, shareVars, solo>>

-----------------------------------------------------------------------------
(* A share link *)

NoShare == [active |-> FALSE, downloads |-> 0, expired |-> FALSE]
CreateShare ==
    /\ share = NoShare /\ served = 0
    /\ share' = [NoShare EXCEPT !.active = TRUE]
    /\ UNCHANGED <<served, call>>
ExpireShare ==
    /\ share.active /\ ~share.expired
    /\ share' = [share EXCEPT !.expired = TRUE]
    /\ UNCHANGED <<served, call>>
DeactivateShare ==
    /\ share # NoShare
    /\ share' = [share EXCEPT !.active = FALSE]
    /\ UNCHANGED <<served, call>>

\* resolveShareToken checks, counts, and closes the link by what it had read.
ReadShare(q) ==
    /\ share.active /\ ~share.expired
    /\ MaxDownloads > 0 => share.downloads < MaxDownloads
    /\ share.downloads < Horizon
    /\ Begin(q, [op |-> "count", read |-> share.downloads])
    /\ UNCHANGED shareVars
CountDownload(q) ==
    LET full == MaxDownloads > 0 /\ call[q].read + 1 >= MaxDownloads IN
    /\ share' = [share EXCEPT !.downloads = @ + 1]
    /\ IF full THEN call' = [call EXCEPT ![q] = [op |-> "close"]]
                    /\ UNCHANGED served
       ELSE End(q) /\ served' = served + 1
CloseShare(q) ==
    /\ share' = [share EXCEPT !.active = FALSE]
    /\ served' = served + 1
    /\ End(q)

ShareNext ==
    /\ \/ CreateShare \/ ExpireShare \/ DeactivateShare
       \/ \E q \in Requests : ReadShare(q)
       \/ \E q \in Requests : Is(q, "count") /\ CountDownload(q)
       \/ \E q \in Requests : Is(q, "close") /\ CloseShare(q)
    /\ UNCHANGED <<folderVars, collection, provider, solo>>

-----------------------------------------------------------------------------
Init ==
    /\ folder = [f \in Folders |-> NoFolder]
    /\ place = [file \in Files |-> Root]
    /\ collection = [c \in Collections |-> NoCollection]
    /\ provider = [p \in Providers |-> NoProvider]
    /\ share = NoShare /\ served = 0
    /\ solo \in BOOLEAN
    /\ call = [q \in Requests |-> Idle]

AssetNext == FolderNext \/ LibraryNext \/ ShareNext
Spec == Init /\ [][AssetNext]_<<assetVars, solo, call>>

-----------------------------------------------------------------------------
TypeOK ==
    /\ folder \in [Folders -> [there : BOOLEAN, named : BOOLEAN,
                               parent : Folders \cup {Root}]]
    /\ place \in [Files -> Folders \cup {Root}]
    /\ collection \in [Collections -> [there : BOOLEAN, items : SUBSET Files]]
    /\ provider \in [Providers -> [there : BOOLEAN, isDefault : BOOLEAN]]
    /\ share.active \in BOOLEAN /\ share.downloads \in Nat
    /\ served \in 0..share.downloads
    /\ \A q \in Requests :
          call[q].op \in {"idle", "resolve", "delete", "provider", "count", "close"}

\* Whatever overlaps, files and folders are in folders that exist.  While
\* requests do not overlap, a named folder is found again instead of created
\* twice ("find-or-create (idempotent, tenant-scoped)"), a link serves at most
\* its limit and a tenant has at most one default provider.
LibraryConsistent ==
    /\ \A file \in Files : place[file] # Root => folder[place[file]].there
    /\ \A f \in Folders : folder[f].parent # Root => folder[folder[f].parent].there
    /\ solo =>
         /\ Cardinality({f \in Folders : folder[f].there /\ folder[f].named}) <= 1
         /\ MaxDownloads > 0 => served <= MaxDownloads
         /\ Cardinality({p \in Providers : provider[p].isDefault}) <= 1
=============================================================================
