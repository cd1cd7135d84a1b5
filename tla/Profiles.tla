------------------------------ MODULE Profiles ------------------------------
(***************************************************************************)
(* The profiles and subscriptions of the app (entry/src/main/ets): the     *)
(* stores in model/ProfileStore.ets and model/Subscription.ets, and the    *)
(* pages that work on them, Index, ProfileEdit and Subscription.           *)
(*                                                                         *)
(* All of it runs on one event loop.  The stores make synchronous calls    *)
(* only, so that a handler runs to its end, but for the download of a      *)
(* subscription: while it is waited for, the user goes on, and goes to     *)
(* other pages.  Every write of a store may throw.                         *)
(***************************************************************************)
EXTENDS Integers, SequencesExt, Filters

CONSTANTS Subs,         \* ids of subscriptions, never used again
          MaxProfiles,  \* bound on the list of profiles
          MaxFetched,   \* bound on the profiles of a download
          MaxFetches,   \* bound on downloads at a time
          NoSub         \* subscriptionId = ''

ASSUME BoundsAssumption == {MaxProfiles, MaxFetched, MaxFetches} \subseteq Nat
ASSUME NoSubAssumption == NoSub \notin Subs

VARIABLES
  \* the three files
  profiles,             \* sequence of [id, owner]
  currentId,            \* 0 for ''
  subs,
  \* pages: Index lies under the other two
  page,                 \* "index", "edit" or "subs", what the user sees
  shown, shownId,       \* Index: its profiles and its currentId
  editId, edited,       \* ProfileEdit: profileId, editedProfile
  listed, updatingId,   \* Subscription: its subscriptions, the one it updates
  fetches,              \* downloads: [sub, here], is its page still there
  \* history
  unsaved,              \* Index shows a selection that could not be stored
  removed,              \* subscriptions removed with no download of them under way
  raced                 \* subscriptions removed during a download of them

store == <<profiles, currentId, subs>>
index == <<shown, shownId, unsaved>>
edit == <<editId, edited>>
subspage == <<listed, updatingId>>
history == <<removed, raced>>
vars == <<store, page, index, edit, subspage, fetches, history>>

-----------------------------------------------------------------------------
(* ProfileStore and SubscriptionStore.                                     *)

NoProfile == [id |-> 0, owner |-> NoSub]

Ids(ps) == {p.id : p \in Range(ps)}
WithId(ps, id) == CHOOSE p \in Range(ps) : p.id = id

\* Mutant: a profile that is there already is added again.
upsert_append(ps, p) == Append(ps, p)

upsert(ps, p) == IF p.id \in Ids(ps)
                 THEN [i \in DOMAIN ps |-> IF ps[i].id = p.id THEN p ELSE ps[i]]
                 ELSE Append(ps, p)

remove(ps, id) == Without(ps, {p \in Range(ps) : p.id = id})

OwnedBy(ps, s) == {p \in Range(ps) : p.owner = s}

\* Mutant: the fresh profiles come first.
replaceSubscription_first(ps, s, fresh) == fresh \o Without(ps, OwnedBy(ps, s))

\* Mutant: only what the download brings again is replaced.
replaceSubscription_kept(ps, s, fresh) ==
  Without(ps, {p \in Range(ps) : p.id \in Ids(fresh)}) \o fresh

replaceSubscription(ps, s, fresh) == Without(ps, OwnedBy(ps, s)) \o fresh

\* Mutant: null when the selected profile is gone.
getCurrent_strict(ps, id) == IF id \in Ids(ps) THEN WithId(ps, id) ELSE NoProfile

getCurrent(ps, id) ==
  IF ps = <<>> THEN NoProfile ELSE IF id \in Ids(ps) THEN WithId(ps, id) ELSE ps[1]

\* replaceSubscription's last step; getCurrent is null only without profiles.
Reselected(ps) == IF getCurrent(ps, currentId) = NoProfile /\ ps # <<>> THEN ps[1].id
                  ELSE currentId

\* The two writes of an operation, and how far it gets: to its end, to the first
\* write, or nowhere.
Both(ps, id) == profiles' = ps /\ currentId' = id
First(ps) == profiles' = ps /\ UNCHANGED currentId
Neither == UNCHANGED <<profiles, currentId>>

\* ensureId: ids are random; one that nothing refers to any more may come again.
InUse == Ids(profiles) \cup Ids(shown) \cup {currentId, shownId, editId, edited.id}
FreshId(k) == CHOOSE n \in 1 .. 2 * MaxProfiles + 5 + MaxFetched :
                n \notin InUse /\ Cardinality({m \in 1 .. n : m \notin InUse}) = k

-----------------------------------------------------------------------------

Init ==
  /\ profiles = <<>> /\ currentId = 0 /\ subs = <<>>
  /\ page = "index" /\ shown = <<>> /\ shownId = 0
  /\ editId = 0 /\ edited = NoProfile /\ listed = <<>> /\ updatingId = NoSub
  /\ fetches = <<>> /\ unsaved = FALSE /\ removed = {} /\ raced = {}

\* Index.reload, at the end of a handler and when the page is shown again; the
\* last conjunct of an action.
reload == shown' = profiles' /\ shownId' = currentId' /\ unsaved' = FALSE

currentProfile ==
  IF shownId \in Ids(shown) THEN WithId(shown, shownId)
  ELSE IF shown # <<>> THEN shown[1] ELSE NoProfile

\* Another page covers Index, which reloads when it is shown again (onPageShow):
\* what it had is not looked at any more.
Cover == shown' = <<>> /\ shownId' = 0 /\ unsaved' = FALSE

-----------------------------------------------------------------------------
(* Index.                                                                  *)

selectProfile(p) ==
  /\ page = "index" /\ shownId' = p.id
  /\ \/ currentId' = p.id /\ unsaved' = FALSE
     \/ UNCHANGED currentId /\ unsaved' = TRUE
  /\ UNCHANGED <<profiles, subs, page, shown, edit, subspage, fetches, history>>

removeProfile(p) ==
  /\ page = "index"
  /\ LET ps == remove(profiles, p.id)
     IN \/ Neither
        \/ First(ps)
        \/ currentId = p.id /\ Both(ps, IF ps = <<>> THEN 0 ELSE ps[1].id)
  /\ reload
  /\ UNCHANGED <<subs, page, edit, subspage, fetches, history>>

\* A link that is a profile; a failure is reported and the page not reloaded.
importFromUrl ==
  /\ page = "index" /\ Len(profiles) < MaxProfiles
  /\ LET ps == upsert(profiles, [id |-> FreshId(1), owner |-> NoSub])
     IN \/ Both(ps, FreshId(1)) /\ reload
        \/ (First(ps) \/ Neither) /\ UNCHANGED index
  /\ UNCHANGED <<subs, page, edit, subspage, fetches, history>>

-----------------------------------------------------------------------------
(* ProfileEdit.                                                            *)

\* 'Add manually', or 'Edit' of a profile in the list, and aboutToAppear.
OpenEdit(id) ==
  /\ page = "index" /\ page' = "edit"
  /\ editId' = id
  /\ edited' = IF id \in Ids(profiles) THEN WithId(profiles, id) ELSE NoProfile
  /\ Cover
  /\ UNCHANGED <<store, subspage, fetches, history>>

\* Mutant: the owner, which the form does not show, is not carried over.
Edited_detached == [id |-> IF editId = 0 THEN FreshId(1) ELSE editId, owner |-> NoSub]

Edited == [id |-> IF editId = 0 THEN FreshId(1) ELSE editId, owner |-> edited.owner]

CloseEdit == page' = "index" /\ editId' = 0 /\ edited' = NoProfile

\* The form is complete: the profile is stored and selected, else the page stays.
save ==
  /\ page = "edit"
  /\ Edited.id \in Ids(profiles) \/ Len(profiles) < MaxProfiles
  /\ \/ Both(upsert(profiles, Edited), Edited.id) /\ CloseEdit /\ reload
     \/ (First(upsert(profiles, Edited)) \/ Neither) /\ UNCHANGED <<page, edit, index>>
  /\ UNCHANGED <<subs, subspage, fetches, history>>

BackFromEdit ==
  /\ page = "edit" /\ CloseEdit
  /\ UNCHANGED <<store, subspage, fetches, history>> /\ reload

-----------------------------------------------------------------------------
(* Subscription.                                                           *)

OpenSubs ==
  /\ page = "index" /\ page' = "subs"
  /\ listed' = subs /\ updatingId' = NoSub
  /\ Cover
  /\ UNCHANGED <<store, edit, fetches, history>>

\* Its downloads go on without it.
BackFromSubs ==
  /\ page = "subs" /\ page' = "index"
  /\ fetches' = [i \in DOMAIN fetches |-> [fetches[i] EXCEPT !.here = FALSE]]
  /\ listed' = <<>> /\ updatingId' = NoSub
  /\ UNCHANGED <<store, edit, history>> /\ reload

\* update, up to the download.
Update(s) ==
  IF updatingId # NoSub THEN UNCHANGED <<updatingId, fetches>>
  ELSE /\ Len(fetches) < MaxFetches
       /\ updatingId' = s
       /\ fetches' = Append(fetches, [sub |-> s, here |-> TRUE])

\* The new subscription is stored, listed and updated.
addSubscription(s) ==
  /\ page = "subs"
  /\ s \notin Range(subs) \cup Range(listed) \cup removed \cup raced
  /\ \A i \in DOMAIN fetches : fetches[i].sub # s
  /\ subs' = Append(subs, s) /\ listed' = subs'
  /\ Update(s)
  /\ UNCHANGED <<profiles, currentId, page, index, edit, history>>

update(s) ==
  /\ page = "subs" /\ Update(s)
  /\ UNCHANGED <<store, page, index, edit, listed, history>>

\* SubscriptionStore.upsert and remove.
Listed(s) == IF s \in Range(subs) THEN subs ELSE Append(subs, s)
Unlisted(s) == Without(subs, {s})

\* Mutant: the subscription goes first, its profiles after it.
Removal_swapped(s, ps) ==
  \/ subs' = Unlisted(s) /\ Both(ps, Reselected(ps)) /\ listed' = subs'
  \/ subs' = Unlisted(s) /\ Neither /\ UNCHANGED listed
  \/ Neither /\ UNCHANGED <<subs, listed>>

\* The writes of remove: the profiles, the selection, the subscription.
Removal(s, ps) ==
  \/ subs' = Unlisted(s) /\ Both(ps, Reselected(ps)) /\ listed' = subs'
  \/ (Both(ps, Reselected(ps)) \/ First(ps) \/ Neither) /\ UNCHANGED <<subs, listed>>

removeSubscription(s) ==
  /\ page = "subs"
  /\ Removal(s, replaceSubscription(profiles, s, <<>>))
  /\ LET done == s \notin Range(subs')
         fetching == \E i \in DOMAIN fetches : fetches[i].sub = s
     IN /\ removed' = IF done /\ ~fetching /\ s \notin raced THEN removed \cup {s} ELSE removed
        /\ raced' = IF done /\ fetching THEN raced \cup {s} ELSE raced
  /\ UNCHANGED <<page, index, edit, updatingId, fetches>>

Fresh(s, n) == [k \in 1 .. n |-> [id |-> FreshId(k), owner |-> s]]

\* The writes after a download: the profiles, the selection, the subscription.
Landing(s, ps) ==
  \/ Both(ps, Reselected(ps)) /\ subs' \in {Listed(s), subs}
  \/ (First(ps) \/ Neither) /\ UNCHANGED subs

\* Mutant: after a failed download the page goes on waiting.
Finally_success(i, ok) == IF fetches[i].here /\ ok THEN NoSub ELSE updatingId

\* The finally block: the page the download belongs to is done with it.
Finally(i, ok) == IF fetches[i].here THEN NoSub ELSE updatingId

\* The download ends: with profiles, which are stored, or without.
FetchEnds(i, n) ==
  LET s == fetches[i].sub
      ps == replaceSubscription(profiles, s, Fresh(s, n))
  IN /\ IF n > 0 THEN Len(ps) <= MaxProfiles /\ Landing(s, ps) ELSE UNCHANGED store
     /\ updatingId' = Finally(i, n > 0)
     /\ listed' = IF fetches[i].here THEN subs' ELSE listed
     /\ fetches' = RemoveAt(fetches, i)
     /\ UNCHANGED <<page, index, edit, history>>

-----------------------------------------------------------------------------

\* The UI process is killed and started again.
Restart ==
  /\ page' = "index" /\ fetches' = <<>>
  /\ editId' = 0 /\ edited' = NoProfile /\ listed' = <<>> /\ updatingId' = NoSub
  /\ UNCHANGED <<store, history>> /\ reload

Next ==
  \/ \E p \in Range(shown) : selectProfile(p) \/ removeProfile(p)
  \/ importFromUrl
  \/ \E id \in {0} \cup Ids(shown) : OpenEdit(id)
  \/ save \/ BackFromEdit \/ OpenSubs \/ BackFromSubs
  \/ \E s \in Subs : addSubscription(s)
  \/ \E s \in Range(listed) : update(s) \/ removeSubscription(s)
  \/ \E i \in DOMAIN fetches, n \in 0 .. MaxFetched : FetchEnds(i, n)
  \/ Restart

Spec == Init /\ [][Next]_vars

-----------------------------------------------------------------------------

\* The lists of the stores and of the pages; in the stores, every id is there once.
TypeOK ==
  /\ \A ps \in {profiles, shown} :
       /\ \A p \in Range(ps) : p.id \in Nat \ {0} /\ p.owner \in Subs \cup {NoSub}
       /\ Cardinality(Ids(ps)) = Len(ps)
  /\ {Range(subs), Range(listed), removed, raced} \subseteq SUBSET Subs
  /\ Cardinality(Range(subs)) = Len(subs)
  /\ {currentId, shownId, editId} \subseteq Nat
  /\ page \in {"index", "edit", "subs"} /\ unsaved \in BOOLEAN
  /\ updatingId \in Subs \cup {NoSub} /\ Len(fetches) <= MaxFetches

\* Index.currentProfile and ProfileStore.getCurrent: the profile that the main
\* page shows, and checks before it connects, is the one that the extension will
\* start, unless the selection could not be stored or a download that landed
\* behind the page has replaced the profile.
StartsWhatIsShown ==
  page = "index" /\ ~unsaved /\ currentProfile \in Range(profiles) =>
    getCurrent(profiles, currentId) = currentProfile

\* Subscription.ets, update and remove: no profile belongs to a subscription
\* that is not listed, so that it could neither be updated nor removed with it,
\* whichever writes fail; unless the subscription was removed during a download.
OwnersListed == \A p \in Range(profiles) : p.owner \in Range(subs) \cup {NoSub} \cup raced

\* Subscription.ets, remove: "drop the subscription and every profile it owns";
\* neither comes back, from a stale page or a late save, if no download of it was
\* under way.
RemovalHolds ==
  \A s \in removed : s \notin Range(subs) /\ \A p \in Range(profiles) : p.owner # s

\* Subscription.ets, updatingId: the page waits for exactly the download that it
\* has started, so it never starts two and never stays unable to start one.
GuardExact ==
  \A s \in Subs : updatingId = s <=> \E i \in DOMAIN fetches : fetches[i] = [sub |-> s, here |-> TRUE]

\* ProfileEdit.ets, editedProfile: no step takes a profile from its subscription,
\* or gives it to one.
OwnersKept ==
  [][\A p \in Range(profiles), q \in Range(profiles') : p.id = q.id => p.owner = q.owner]_vars

current == getCurrent(profiles, currentId)
Replaces(s) == \/ removeSubscription(s)
               \/ \E i \in DOMAIN fetches, n \in 0 .. MaxFetched :
                    fetches[i].sub = s /\ FetchEnds(i, n)

\* ProfileStore.replaceSubscription: an update, or the removal, of a subscription
\* leaves the current profile alone unless the subscription owns it.
OthersKept ==
  [][\A s \in Subs \ {current.owner} :
       current # NoProfile /\ Replaces(s) => current' = current]_vars
=============================================================================
