---------------------------- MODULE CatalogProofs ----------------------------
(***************************************************************************)
(* Theorems about Catalog, for every set of files, names, contacts,         *)
(* requests and uploads, and every bound.                                   *)
(***************************************************************************)
EXTENDS Catalog, SequenceTheorems, TLAPS

\* What is stored or under way is only of files that may be there.
InRoot ==
    /\ \A d \in drafts : d.path \in Root
    /\ \A u \in Uploads : upload[u].path = "none" <=> upload[u].step = "idle"

\* A received file is offered to nobody but its sender.
RowsArePrivate ==
    \A n \in Names :
        row[n].path \in Media /\ Owner[row[n].path] # Unknown =>
            row[n].allowed \subseteq {Owner[row[n].path]}

\* Whoever is being offered a name is allowed it, as long as the offer lasts.
OffersAreAllowed ==
    \A c \in Askers :
        offer[c].step \in {"listed", "queued", "found"} =>
            /\ offer[c].name \in Names
            /\ row[offer[c].name] # NoRow
            /\ c \in row[offer[c].name].allowed

\* A name an upload has taken stays taken.
UploadsExist ==
    \A u \in Uploads :
        upload[u].path # "none" =>
            /\ disk[upload[u].path] # Missing
            /\ \E i \in DOMAIN Candidates : upload[u].path = Candidates[i]

IInv ==
    /\ TypeOK /\ InRoot
    /\ RowsArePrivate /\ OffersAreAllowed /\ MediaStaysPrivate
    /\ UploadsExist /\ UploadsKeepApart

LEMMA CandidatesAreStaged ==
    ASSUME NEW i \in DOMAIN Candidates PROVE Candidates[i] \in Root
  BY CatalogAssumption, ElementOfSeq DEF CatalogAssumption, Root

LEMMA InitEstablishes == Init => IInv
<1> SUFFICES ASSUME Init PROVE IInv
  OBVIOUS
<1> USE CatalogAssumption DEF CatalogAssumption
<1>1. TypeOK
  BY DEF Init, TypeOK, Versions, Missing, Empty, NoRow, NoUpload, NoOffer, Offers
<1>2. InRoot /\ UploadsExist /\ UploadsKeepApart
  BY DEF Init, InRoot, UploadsExist, UploadsKeepApart, NoUpload
<1>3. RowsArePrivate /\ OffersAreAllowed /\ MediaStaysPrivate
  BY DEF Init, RowsArePrivate, OffersAreAllowed, MediaStaysPrivate, NoRow, NoOffer
<1> QED
  BY <1>1, <1>2, <1>3 DEF IInv
-----------------------------------------------------------------------------
(* Each part of the invariant, action by action *)

LEMMA TypeStep == ASSUME IInv, [Next]_vars PROVE TypeOK' /\ InRoot'
<1> USE CatalogAssumption DEF CatalogAssumption, IInv, TypeOK, InRoot, rows, Root
<1>1. ASSUME NEW p \in Paths, EditFile(p) PROVE TypeOK' /\ InRoot'
  BY <1>1 DEF EditFile, Versions, Empty, Missing
<1>2. ASSUME NEW u \in Uploads, OpenUpload(u) PROVE TypeOK' /\ InRoot'
  BY <1>2, CandidatesAreStaged DEF OpenUpload, Versions, Empty, Missing
<1>3. ASSUME NEW u \in Uploads, WriteUpload(u) PROVE TypeOK' /\ InRoot'
  BY <1>3 DEF WriteUpload, Versions, Empty, Missing
<1>4. ASSUME NEW u \in Uploads, AbortUpload(u) PROVE TypeOK' /\ InRoot'
  BY <1>4 DEF AbortUpload
<1>5. ASSUME NEW r \in Requests, NEW S \in SUBSET Root
      PROVE  /\ DraftsOf(r, S) \subseteq Drafts
             /\ \A d \in DraftsOf(r, S) : d.path \in Root
  BY DEF DraftsOf, Drafts, Versions, Empty, Missing
<1>6. ASSUME NEW r \in Requests, NEW u \in Uploads, Register(r, u) PROVE TypeOK' /\ InRoot'
  <2>1. upload[u].path \in Root
    BY <1>6, CandidatesAreStaged DEF Register, UploadsExist
  <2>2. /\ drafts' = drafts \cup DraftsOf(r, {upload[u].path})
        /\ upload' = [upload EXCEPT ![u].step = "done"]
        /\ UNCHANGED <<disk, rows, offer, aborts>>
    BY <1>6 DEF Register
  <2>3. {upload[u].path} \in SUBSET Root
    BY <2>1
  <2>4. /\ DraftsOf(r, {upload[u].path}) \subseteq Drafts
        /\ \A d \in DraftsOf(r, {upload[u].path}) : d.path \in Root
    BY <1>5, <2>3
  <2>5. upload[u].step = "written"
    BY <1>6 DEF Register
  <2>6. upload' \in [Uploads -> [step : {"idle", "opened", "written", "done"},
                                path : Paths \cup {"none"}]]
        /\ \A v \in Uploads : upload'[v].path = "none" <=> upload'[v].step = "idle"
    BY <2>2, <2>5
  <2> QED
    BY <2>2, <2>4, <2>6
<1>7. ASSUME NEW r \in Requests, Index(r) PROVE TypeOK' /\ InRoot'
  BY <1>7, <1>5 DEF Index
<1>8. ASSUME NEW d \in drafts, UpsertFileAsset(d) PROVE TypeOK' /\ InRoot'
  BY <1>8 DEF UpsertFileAsset, Drafts
<1>9. ASSUME NEW d \in drafts, CreateFileResource(d) PROVE TypeOK' /\ InRoot'
  BY <1>9 DEF CreateFileResource, Drafts
<1>10. ASSUME NEW r \in Requests, AbortRequest(r) PROVE TypeOK' /\ InRoot'
  BY <1>10 DEF AbortRequest
<1>11. ASSUME NEW m \in Media, Download(m) PROVE TypeOK' /\ InRoot'
  BY <1>11 DEF Download, Versions
<1>12. ASSUME NEW m \in Media, Promote(m) PROVE TypeOK' /\ InRoot'
  <2> DEFINE r == [path |-> m, allowed |-> IF Owner[m] = Unknown THEN Contacts ELSE {Owner[m]}]
  <2>1. r \in [path : Paths, allowed : SUBSET Contacts]
    OBVIOUS
  <2>2. row' \in [Names -> [path : Paths, allowed : SUBSET Contacts] \cup {NoRow}]
    BY <1>12, <2>1 DEF Promote
  <2> QED
    BY <1>12, <2>2 DEF Promote
<1>13. ASSUME NEW c \in Askers, Suggest(c) \/ Confirm(c) \/ FindFile(c) \/ SendFile(c)
       PROVE  TypeOK' /\ InRoot'
  <2>1. UNCHANGED <<disk, rows, drafts, upload, aborts>>
    BY <1>13 DEF Suggest, Confirm, FindFile, SendFile
  <2>2. SUFFICES offer' \in [Askers -> Offers]
    BY <2>1
  <2>3. CASE Suggest(c)
    <3>1. PICK n \in Names :
            offer' = [offer EXCEPT ![c] = [step |-> "listed", name |-> n, sends |-> "none"]]
      BY <2>3 DEF Suggest, Searchable
    <3> QED
      BY <3>1 DEF Offers
  <2>4. CASE Confirm(c)
    <3>1. offer[c] \in Offers
      OBVIOUS
    <3>2. [offer[c] EXCEPT !.step = "queued"] \in Offers
      BY <3>1 DEF Offers
    <3>3. NoOffer \in Offers
      BY DEF NoOffer, Offers
    <3>4. \/ offer' = [offer EXCEPT ![c] = [offer[c] EXCEPT !.step = "queued"]]
          \/ offer' = [offer EXCEPT ![c] = NoOffer]
      BY <2>4 DEF Confirm
    <3> QED
      BY <3>2, <3>3, <3>4
  <2>5. CASE FindFile(c)
    <3>1. row[offer[c].name] \in [path : Paths, allowed : SUBSET Contacts]
      BY <2>5 DEF FindFile, OffersAreAllowed
    <3>2. row[offer[c].name].path \in Paths
      BY <3>1
    <3>3. offer' = [offer EXCEPT ![c] = [offer[c] EXCEPT !.step = "found",
                                                        !.sends = row[offer[c].name].path]]
      BY <2>5 DEF FindFile
    <3>4. offer[c] \in Offers
      OBVIOUS
    <3>5. [offer[c] EXCEPT !.step = "found", !.sends = row[offer[c].name].path] \in Offers
      BY <3>2, <3>4 DEF Offers
    <3> QED
      BY <3>3, <3>5
  <2>6. CASE SendFile(c)
    <3>1. offer[c] \in Offers
      OBVIOUS
    <3>2. \A s \in {"queued", "sent"} : [offer[c] EXCEPT !.step = s] \in Offers
      BY <3>1 DEF Offers
    <3>3. \E s \in {"queued", "sent"} :
            offer' = [offer EXCEPT ![c] = [offer[c] EXCEPT !.step = s]]
      BY <2>6 DEF SendFile
    <3> QED
      BY <3>2, <3>3
  <2> QED
    BY <1>13, <2>3, <2>4, <2>5, <2>6
<1>15. CASE UNCHANGED vars
  BY <1>15 DEF vars
<1> QED
  BY <1>1, <1>2, <1>3, <1>4, <1>6, <1>7, <1>8, <1>9, <1>10, <1>11, <1>12, <1>13, <1>15
     DEF Next, Api, Dashboard, MediaWorker, LiveWorker

LEMMA RowsStep ==
    ASSUME IInv, [Next]_vars
    PROVE  RowsArePrivate' /\ OffersAreAllowed'
<1> USE CatalogAssumption
    DEF CatalogAssumption, IInv, TypeOK, InRoot, rows, Root, RowsArePrivate, OffersAreAllowed
<1>1. CASE UNCHANGED <<row, offer>>
  BY <1>1
<1>2. ASSUME NEW d \in drafts, CreateFileResource(d) PROVE RowsArePrivate' /\ OffersAreAllowed'
  BY <1>2 DEF CreateFileResource, Drafts, NoRow
<1>3. ASSUME NEW m \in Media, Promote(m) PROVE RowsArePrivate' /\ OffersAreAllowed'
  BY <1>3 DEF Promote, NoRow
<1>4. ASSUME NEW c \in Askers, Suggest(c) PROVE RowsArePrivate' /\ OffersAreAllowed'
  BY <1>4 DEF Suggest, Searchable
<1>5. ASSUME NEW c \in Askers, Confirm(c) \/ FindFile(c) \/ SendFile(c)
      PROVE  RowsArePrivate' /\ OffersAreAllowed'
  <2>1. /\ offer[c].step \in {"listed", "queued", "found"} /\ UNCHANGED row
        /\ \A k \in Askers \ {c} : offer'[k] = offer[k]
        /\ offer'[c].name = offer[c].name \/ offer'[c] = NoOffer
    BY <1>5 DEF Confirm, FindFile, SendFile, Offers
  <2> QED
    BY <2>1 DEF NoOffer
<1>6. ASSUME NEW p \in Paths, EditFile(p) PROVE UNCHANGED <<row, offer>>
  BY <1>6 DEF EditFile
<1>7. ASSUME NEW u \in Uploads, OpenUpload(u) \/ WriteUpload(u) \/ AbortUpload(u)
      PROVE  UNCHANGED <<row, offer>>
  BY <1>7 DEF OpenUpload, WriteUpload, AbortUpload
<1>8. ASSUME NEW r \in Requests, Index(r) \/ AbortRequest(r) \/ \E u \in Uploads : Register(r, u)
      PROVE  UNCHANGED <<row, offer>>
  BY <1>8 DEF Index, AbortRequest, Register
<1>9. ASSUME NEW d \in drafts, UpsertFileAsset(d) PROVE UNCHANGED <<row, offer>>
  BY <1>9 DEF UpsertFileAsset
<1>10. ASSUME NEW m \in Media, Download(m) PROVE UNCHANGED <<row, offer>>
  BY <1>10 DEF Download
<1>11. CASE UNCHANGED vars
  BY <1>1, <1>11 DEF vars
<1> QED
  BY <1>1, <1>2, <1>3, <1>4, <1>5, <1>6, <1>7, <1>8, <1>9, <1>10, <1>11
     DEF Next, Api, Dashboard, MediaWorker, LiveWorker

LEMMA PrivateStep == ASSUME IInv, [Next]_vars PROVE MediaStaysPrivate'
<1> USE CatalogAssumption DEF CatalogAssumption, IInv, TypeOK, MediaStaysPrivate
<1>1. CASE \A c \in Askers : offer'[c].sends \in {offer[c].sends, "none"}
  BY <1>1
<1>2. ASSUME NEW c \in Askers, FindFile(c) PROVE MediaStaysPrivate'
  <2> DEFINE n == offer[c].name
  <2>1. n \in Names /\ c \in row[n].allowed
    BY <1>2 DEF FindFile, OffersAreAllowed
  <2>2. row[n].path \in Media => Owner[row[n].path] \in {c, Unknown}
    BY <2>1 DEF RowsArePrivate
  <2>3. offer'[c].sends = row[n].path /\ \A k \in Askers \ {c} : offer'[k] = offer[k]
    BY <1>2 DEF FindFile, Offers
  <2> QED
    BY <2>2, <2>3
<1>3. ASSUME NEW c \in Askers, Suggest(c) \/ Confirm(c) \/ SendFile(c)
      PROVE  \A k \in Askers : offer'[k].sends \in {offer[k].sends, "none"}
  BY <1>3 DEF Suggest, Confirm, SendFile, NoOffer, Offers
<1>4. CASE UNCHANGED offer
  BY <1>1, <1>4
<1>5. ASSUME Next, ~\E c \in Askers : Suggest(c) \/ Confirm(c) \/ FindFile(c) \/ SendFile(c)
      PROVE  UNCHANGED offer
  BY <1>5 DEF Next, Api, Dashboard, MediaWorker, LiveWorker, EditFile, OpenUpload, WriteUpload,
              AbortUpload, Index, AbortRequest, Register, UpsertFileAsset, CreateFileResource,
              Download, Promote
<1> QED
  BY <1>1, <1>2, <1>3, <1>4, <1>5 DEF vars

LEMMA UploadsStep == ASSUME IInv, [Next]_vars PROVE UploadsExist' /\ UploadsKeepApart'
<1> USE CatalogAssumption
    DEF CatalogAssumption, IInv, TypeOK, InRoot, UploadsExist, UploadsKeepApart
<1> DEFINE Kept == \A i \in DOMAIN Candidates :
                      disk[Candidates[i]] # Missing => disk'[Candidates[i]] # Missing
           Same == \A u \in Uploads : upload'[u].path = upload[u].path
<1>1. CASE Kept /\ Same
  BY <1>1
<1>2. ASSUME NEW u \in Uploads, OpenUpload(u) PROVE UploadsExist' /\ UploadsKeepApart'
  <2>1. PICK i \in DOMAIN Candidates :
          /\ disk[Candidates[i]] = Missing
          /\ disk' = [disk EXCEPT ![Candidates[i]] = Empty]
          /\ upload' = [upload EXCEPT ![u] = [step |-> "opened", path |-> Candidates[i]]]
    BY <1>2 DEF OpenUpload
  <2>2. \A v \in Uploads : upload[v].path # Candidates[i]
    BY <2>1, CandidatesAreStaged DEF Root
  <2>3. Candidates[i] \in Paths
    BY CandidatesAreStaged DEF Root
  <2> QED
    BY <2>1, <2>2, <2>3 DEF Empty, Missing
<1>3. ASSUME NEW p \in Paths, EditFile(p) PROVE Kept /\ Same
  BY <1>3, CandidatesAreStaged DEF EditFile, Root
<1>4. ASSUME NEW u \in Uploads, WriteUpload(u) PROVE Kept /\ Same
  <2>1. disk' = [disk EXCEPT ![upload[u].path] = 1]
    BY <1>4 DEF WriteUpload
  <2>2. Kept
    BY <2>1, CandidatesAreStaged DEF Missing, Root
  <2>3. Same
    BY <1>4 DEF WriteUpload
  <2> QED
    BY <2>2, <2>3
<1>5. ASSUME NEW u \in Uploads, AbortUpload(u) \/ \E r \in Requests : Register(r, u)
      PROVE  Kept /\ Same
  <2>1. disk' = disk /\ upload' = [upload EXCEPT ![u].step = "done"]
    BY <1>5 DEF AbortUpload, Register
  <2>2. Kept
    BY <2>1
  <2>3. Same
    BY <2>1
  <2> QED
    BY <2>2, <2>3
<1>6. ASSUME NEW m \in Media, Download(m) PROVE Kept /\ Same
  BY <1>6, CandidatesAreStaged DEF Download, Missing, Root
<1>7. CASE UNCHANGED <<disk, upload>>
  BY <1>1, <1>7
<1>8. ASSUME NEW r \in Requests, Index(r) \/ AbortRequest(r) PROVE UNCHANGED <<disk, upload>>
  BY <1>8 DEF Index, AbortRequest
<1>9. ASSUME NEW d \in drafts, UpsertFileAsset(d) \/ CreateFileResource(d)
      PROVE  UNCHANGED <<disk, upload>>
  BY <1>9 DEF UpsertFileAsset, CreateFileResource
<1>10. ASSUME NEW m \in Media, Promote(m) PROVE UNCHANGED <<disk, upload>>
  BY <1>10 DEF Promote
<1>11. ASSUME NEW c \in Askers, Suggest(c) \/ Confirm(c) \/ FindFile(c) \/ SendFile(c)
       PROVE  UNCHANGED <<disk, upload>>
  BY <1>11 DEF Suggest, Confirm, FindFile, SendFile
<1> HIDE DEF Kept, Same
<1> QED
  BY <1>1, <1>2, <1>3, <1>4, <1>5, <1>6, <1>7, <1>8, <1>9, <1>10, <1>11
     DEF Next, Api, Dashboard, MediaWorker, LiveWorker, vars
-----------------------------------------------------------------------------
LEMMA StepPreserves == IInv /\ [Next]_vars => IInv'
  BY TypeStep, RowsStep, PrivateStep, UploadsStep DEF IInv

\* The invariant that the theorems rest on holds.
THEOREM Invariance == Spec => []IInv
  BY InitEstablishes, StepPreserves, PTL DEF Spec

\* The state has the types of the tables, whatever overlaps.
THEOREM CatalogTyped == Spec => []TypeOK
<1>1. IInv => TypeOK
  BY DEF IInv
<1> QED
  BY Invariance, <1>1, PTL

\* What one contact sent is never sent to another.
THEOREM Privacy == Spec => []MediaStaysPrivate
<1>1. IInv => MediaStaysPrivate
  BY DEF IInv
<1> QED
  BY Invariance, <1>1, PTL

\* Uploads of one name at the same time are stored as different files.
THEOREM UploadsApart == Spec => []UploadsKeepApart
<1>1. IInv => UploadsKeepApart
  BY DEF IInv
<1> QED
  BY Invariance, <1>1, PTL

\* Whoever is sent a file is allowed it at that time, although the dispatcher does
\* not ask.
THEOREM Permission == Spec => SentWithPermission
<1> DEFINE Allowed == \A c \in Askers :
             offer'[c].step = "found" => c \in row[offer'[c].name].allowed
<1>1. IInv /\ [Next]_vars => [Allowed]_vars
  <2> SUFFICES ASSUME IInv, Next PROVE Allowed
    BY DEF vars
  <2> USE DEF IInv, TypeOK, OffersAreAllowed
  <2>1. CASE UNCHANGED offer
    BY <2>1
  <2>2. ASSUME NEW c \in Askers, Suggest(c) \/ Confirm(c) \/ FindFile(c) \/ SendFile(c)
        PROVE  Allowed
    <3>1. /\ \A k \in Askers \ {c} : offer'[k] = offer[k]
          /\ offer'[c].step = "found" =>
               offer[c].step = "queued" /\ offer'[c].name = offer[c].name
      BY <2>2 DEF Suggest, Confirm, FindFile, SendFile, NoOffer, Offers
    <3> QED
      BY <3>1
  <2>3. ASSUME ~\E c \in Askers : Suggest(c) \/ Confirm(c) \/ FindFile(c) \/ SendFile(c)
        PROVE  UNCHANGED offer
    BY <2>3 DEF Next, Api, Dashboard, MediaWorker, LiveWorker, EditFile, OpenUpload,
                WriteUpload, AbortUpload, Index, AbortRequest, Register, UpsertFileAsset,
                CreateFileResource, Download, Promote
  <2> QED
    BY <2>1, <2>2, <2>3
<1> QED
  BY Invariance, <1>1, PTL DEF Spec, SentWithPermission
=============================================================================
