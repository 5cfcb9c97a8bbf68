------------------------------ MODULE Catalog -------------------------------
(***************************************************************************)
(* The file catalog: how files become rows that a suggestion may name and   *)
(* a confirmation may send. Files reach the resource root by the owner's    *)
(* hand or by an upload through the dashboard; requests to the API register *)
(* one or scan all of them; the media worker promotes what contacts sent.   *)
(* The live worker offers a contact a registered name and later sends the   *)
(* file that is behind that name then. All of this runs concurrently, each  *)
(* statement on its own: the handlers open no transaction.                  *)
(***************************************************************************)
EXTENDS Integers, Sequences

CONSTANTS
    Paths,       \* files there may be
    Media,       \* those of them under the media root, outside the resource root
    Candidates,  \* names writeUniqueFile tries in the staged directory
    Names,       \* registered file names
    NameOf,      \* the name each path is registered under
    Contacts,
    Askers,      \* those of them whose conversations are followed
    Owner,       \* who sent a media file, Unknown if the sender has no contact
    Unknown,
    Requests,    \* concurrent requests of the API
    Uploads,     \* uploads of files of one name
    MaxVersion,  \* bound: versions of a file
    MaxAborts    \* bound: requests and uploads that die

ASSUME CatalogAssumption ==
    /\ Media \subseteq Paths /\ "none" \notin Paths
    /\ Candidates \in Seq(Paths \ Media)
    /\ NameOf \in [Paths -> Names]
    /\ Owner \in [Media -> Contacts \cup {Unknown}]
    /\ Unknown \notin Contacts /\ Askers \subseteq Contacts
    /\ MaxVersion \in Nat \ {0} /\ MaxAborts \in Nat

\* The name of a promoted file contains the id of its message.
ASSUME MediaNamesAreUnique ==
    \A m \in Media : \A p \in Paths : NameOf[p] = NameOf[m] => p = m

VARIABLES
    disk,     \* version of each file, Missing, or Empty while it is written
    asset,    \* res_file_assets: the version whose checksum the row has
    row,      \* res_resources by registered name: file and allowed contacts
    drafts,   \* registrations under way in the API
    upload,   \* uploads through the dashboard
    offer,    \* for each asker the name it is offered and the file it is sent
    aborts    \* counts aborts, up to MaxAborts

rows == <<asset, row>>
vars == <<disk, rows, drafts, upload, offer, aborts>>

Missing == -1
Empty == 0
Versions == 1..MaxVersion
NoRow == [path |-> "none", allowed |-> {}]
NoOffer == [step |-> "none", name |-> "none", sends |-> "none"]
NoUpload == [step |-> "idle", path |-> "none"]

Root == Paths \ Media

Init ==
    /\ disk \in [Paths -> {Missing, 1}]
    /\ \A p \in Media : disk[p] = Missing
    /\ asset = [p \in Paths |-> Missing]
    /\ row = [n \in Names |-> NoRow]
    /\ drafts = {}
    /\ upload = [u \in Uploads |-> NoUpload]
    /\ offer = [c \in Askers |-> NoOffer]
    /\ aborts = 0

\* The owner adds, replaces or removes a file outside the staged directory.
EditFile(p) ==
    /\ p \in Root /\ \A i \in DOMAIN Candidates : p # Candidates[i]
    /\ \/ disk[p] < MaxVersion /\ disk' = [disk EXCEPT ![p] = IF @ = Missing THEN 1 ELSE @ + 1]
       \/ disk[p] = MaxVersion /\ disk' = [disk EXCEPT ![p] = Missing]
    /\ UNCHANGED <<rows, drafts, upload, offer, aborts>>
-----------------------------------------------------------------------------
(* saveDashboardResourceUpload *)

\* Mutant: the name is tested, and the file opened later without "wx".
OpenUploadMutant(u) ==
    /\ upload[u].step = "idle"
    /\ \E i \in DOMAIN Candidates :
          /\ disk[Candidates[i]] \in {Missing, Empty}
          /\ \A j \in 1..i - 1 : disk[Candidates[j]] \notin {Missing, Empty}
          /\ disk' = [disk EXCEPT ![Candidates[i]] = Empty]
          /\ upload' = [upload EXCEPT ![u] = [step |-> "opened", path |-> Candidates[i]]]
    /\ UNCHANGED <<rows, drafts, offer, aborts>>

\* The first name that is free is created, exclusively.
OpenUpload(u) ==
    /\ upload[u].step = "idle"
    /\ \E i \in DOMAIN Candidates :
          /\ disk[Candidates[i]] = Missing
          /\ \A j \in 1..i - 1 : disk[Candidates[j]] # Missing
          /\ disk' = [disk EXCEPT ![Candidates[i]] = Empty]
          /\ upload' = [upload EXCEPT ![u] = [step |-> "opened", path |-> Candidates[i]]]
    /\ UNCHANGED <<rows, drafts, offer, aborts>>

WriteUpload(u) ==
    /\ upload[u].step = "opened"
    /\ disk' = [disk EXCEPT ![upload[u].path] = 1]
    /\ upload' = [upload EXCEPT ![u].step = "written"]
    /\ UNCHANGED <<rows, drafts, offer, aborts>>

\* The dashboard dies, or the disk is full, between creating and registering.
AbortUpload(u) ==
    /\ upload[u].step \in {"opened", "written"} /\ aborts < MaxAborts
    /\ upload' = [upload EXCEPT ![u].step = "done"]
    /\ aborts' = aborts + 1
    /\ UNCHANGED <<disk, rows, drafts, offer>>
-----------------------------------------------------------------------------
(* POST /resources/register and POST /resources/index *)

\* Mutant: the scan also goes through the media.
DraftsOfMutant(r, S) ==
    {[request |-> r, path |-> p, seen |-> disk[p], step |-> "asset"] :
        p \in {q \in S \cup Media : disk[q] # Missing}}

\* buildFileResourceRegistration reads and hashes a file of the resource root.
DraftsOf(r, S) ==
    {[request |-> r, path |-> p, seen |-> disk[p], step |-> "asset"] :
        p \in {q \in S : disk[q] # Missing}}

Free(r) == \A d \in drafts : d.request # r

Register(r, u) ==
    /\ Free(r)
    /\ upload[u].step = "written"
    /\ drafts' = drafts \cup DraftsOf(r, {upload[u].path})
    /\ upload' = [upload EXCEPT ![u].step = "done"]
    /\ UNCHANGED <<disk, rows, offer, aborts>>

\* All files found are registered concurrently; which ones a limit leaves out is
\* the order of their names, here any.
Index(r) ==
    /\ Free(r)
    /\ \E S \in SUBSET Root : drafts' = drafts \cup DraftsOf(r, S)
    /\ UNCHANGED <<disk, rows, upload, offer, aborts>>

\* upsertFileAsset, then createFileResourceForAsset: two statements.
UpsertFileAsset(d) ==
    /\ d \in drafts /\ d.step = "asset"
    /\ asset' = [asset EXCEPT ![d.path] = d.seen]
    /\ drafts' = (drafts \ {d}) \cup {[d EXCEPT !.step = "row"]}
    /\ UNCHANGED <<disk, row, upload, offer, aborts>>

\* Mutant: a registration may name the contacts, and leaves others out.
CreateFileResourceNarrowing(d) ==
    /\ d \in drafts /\ d.step = "row"
    /\ \E C \in SUBSET Contacts :
         row' = [row EXCEPT ![NameOf[d.path]] = [path |-> d.path, allowed |-> C]]
    /\ drafts' = drafts \ {d}
    /\ UNCHANGED <<disk, asset, upload, offer, aborts>>

\* Mutant: the row is written without waiting for its asset.
CreateFileResourceUnbacked(d) ==
    /\ d \in drafts /\ d.step = "row"
    /\ row' = [row EXCEPT ![NameOf[d.path]] = [path |-> "none", allowed |-> Contacts]]
    /\ drafts' = drafts \ {d}
    /\ UNCHANGED <<disk, asset, upload, offer, aborts>>

\* A row of that name is taken over, whatever file it stood for; no allowed
\* contacts means all of them.
CreateFileResource(d) ==
    /\ d \in drafts /\ d.step = "row"
    /\ row' = [row EXCEPT ![NameOf[d.path]] = [path |-> d.path, allowed |-> Contacts]]
    /\ drafts' = drafts \ {d}
    /\ UNCHANGED <<disk, asset, upload, offer, aborts>>

AbortRequest(r) ==
    /\ ~Free(r) /\ aborts < MaxAborts
    /\ drafts' = {d \in drafts : d.request # r}
    /\ aborts' = aborts + 1
    /\ UNCHANGED <<disk, rows, upload, offer>>
-----------------------------------------------------------------------------
(* The media worker; see module Media for what a download is made of. *)

Download(m) ==
    /\ disk[m] = Missing
    /\ disk' = [disk EXCEPT ![m] = 1]
    /\ asset' = [asset EXCEPT ![m] = 1]
    /\ UNCHANGED <<row, drafts, upload, offer, aborts>>

\* Only its sender may have it back; if that is nobody known, everybody may.
Promote(m) ==
    /\ asset[m] # Missing /\ row[NameOf[m]] = NoRow
    /\ row' = [row EXCEPT ![NameOf[m]] =
                 [path |-> m,
                  allowed |-> IF Owner[m] = Unknown THEN Contacts ELSE {Owner[m]}]]
    /\ UNCHANGED <<disk, asset, drafts, upload, offer, aborts>>
-----------------------------------------------------------------------------
(* The live worker *)

\* listSearchableFileResources
Searchable(c) == {n \in Names : row[n] # NoRow /\ c \in row[n].allowed}

\* Which of the listed names is offered is the matter of rankResourceCandidates.
Suggest(c) ==
    /\ offer[c].step \in {"none", "sent"}
    /\ \E n \in Searchable(c) :
         offer' = [offer EXCEPT ![c] = [step |-> "listed", name |-> n, sends |-> "none"]]
    /\ UNCHANGED <<disk, rows, drafts, upload, aborts>>

\* The requester confirms, or lets it be; see module Automation.
Confirm(c) ==
    /\ offer[c].step = "listed"
    /\ \/ offer' = [offer EXCEPT ![c].step = "queued"]
       \/ offer' = [offer EXCEPT ![c] = NoOffer]
    /\ UNCHANGED <<disk, rows, drafts, upload, aborts>>

\* findFileResourceForSend and existsSync: the file behind the row at this time,
\* without a look at the allowed contacts or the checksum.
FindFile(c) ==
    /\ offer[c].step = "queued"
    /\ disk[row[offer[c].name].path] # Missing
    /\ offer' = [offer EXCEPT ![c].step = "found", ![c].sends = row[offer[c].name].path]
    /\ UNCHANGED <<disk, rows, drafts, upload, aborts>>

\* wacli reads the file, or fails if it is gone and is called again.
SendFile(c) ==
    /\ offer[c].step = "found"
    /\ offer' = [offer EXCEPT ![c].step =
                   IF disk[offer[c].sends] = Missing THEN "queued" ELSE "sent"]
    /\ UNCHANGED <<disk, rows, drafts, upload, aborts>>

Api ==
    \/ \E r \in Requests : Index(r) \/ AbortRequest(r)
    \/ \E r \in Requests, u \in Uploads : Register(r, u)
    \/ \E d \in drafts : UpsertFileAsset(d) \/ CreateFileResource(d)
Dashboard == \E u \in Uploads : OpenUpload(u) \/ WriteUpload(u) \/ AbortUpload(u)
MediaWorker == \E m \in Media : Download(m) \/ Promote(m)
LiveWorker == \E c \in Askers : Suggest(c) \/ Confirm(c) \/ FindFile(c) \/ SendFile(c)

Next ==
    \/ \E p \in Paths : EditFile(p)
    \/ Api \/ Dashboard \/ MediaWorker \/ LiveWorker

Spec == Init /\ [][Next]_vars
-----------------------------------------------------------------------------
(* Properties *)

Drafts == [request : Requests, path : Paths, seen : Versions \cup {Empty},
           step : {"asset", "row"}]

Offers == [step : {"none", "listed", "queued", "found", "sent"},
           name : Names \cup {"none"},
           sends : Paths \cup {"none"}]

\* The state is what the tables and the code's types say.
TypeOK ==
    /\ disk \in [Paths -> Versions \cup {Empty, Missing}]
    /\ asset \in [Paths -> Versions \cup {Empty, Missing}]
    /\ row \in [Names -> [path : Paths, allowed : SUBSET Contacts] \cup {NoRow}]
    /\ drafts \subseteq Drafts
    /\ upload \in [Uploads -> [step : {"idle", "opened", "written", "done"},
                               path : Paths \cup {"none"}]]
    /\ offer \in [Askers -> Offers]
    /\ aborts \in 0..MaxAborts

\* What one contact sent is never sent to another one, whatever is registered,
\* scanned, uploaded or promoted between the suggestion and the sending.
MediaStaysPrivate ==
    \A c \in Askers :
        offer[c].sends \in Media => Owner[offer[c].sends] \in {c, Unknown}

\* The dispatcher asks for no permission, and needs none: whoever was allowed a
\* name when it was offered still is when the file is looked up.
SentWithPermission ==
    [][\A c \in Askers :
         offer'[c].step = "found" => c \in row[offer'[c].name].allowed]_vars

\* Uploads of one name at the same time do not write into each other's file, nor
\* register it.
UploadsKeepApart ==
    \A u, v \in Uploads :
        u # v /\ upload[u].path # "none" => upload[u].path # upload[v].path

=============================================================================
