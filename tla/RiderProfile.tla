---------------------------- MODULE RiderProfile ----------------------------
(***************************************************************************)
(* What a rider keeps on the profile: the trusted contacts and the saved   *)
(* places, each on a screen with a copy of its own (TrustedContactsScreen  *)
(* and SavedPlacesScreen; TrustedContactsService and saveAddress).  The    *)
(* contacts are fetched with the access token the screen was opened with,  *)
(* never a refreshed one.  A place is a number, the newest the largest.     *)
(***************************************************************************)
EXTENDS FaultBudget, FiniteSets

CONSTANTS
  ContactLimit,   \* the 5 of addContact
  Elsewhere,      \* adds under way besides the screen's: other phones, earlier openings
  MaxContacts,    \* bound: contacts added
  MaxPlaces       \* bound: places saved

ASSUME ProfileAssumption ==
  /\ ContactLimit \in Nat /\ MaxContacts \in Nat /\ MaxPlaces \in Nat
  /\ IsFiniteSet(Elsewhere) /\ "here" \notin Elsewhere

VARIABLES
  contacts,       \* trusted_contacts
  added,          \* contacts added so far
  rows,           \* the rows of the screen
  adding,         \* what each addContact is doing
  overlapping,    \* the most adds another add found counted and not created yet
  fetching,       \* the list is on its way, or read and on its way back
  removing,       \* contacts whose removal is at the service
  refused,        \* a removal was refused, which the screen does not look at
  homeRow,        \* saved_addresses: the home of the rider
  homePlace,      \* the address store
  saving,         \* the place being saved: asked for, or written
  hydrating,      \* the profile being read, and the place it has
  late            \* the last save and a reading of the profile overlapped

rpVars == <<contacts, added, rows, adding, overlapping, fetching, removing, refused,
            homeRow, homePlace, saving, hydrating, late>>
contactVars == <<contacts, added, rows, adding, overlapping, fetching, removing, refused>>
placeVars == <<homeRow, homePlace, saving, hydrating, late>>
Ids == 1..MaxContacts
Phones == {"here"} \cup Elsewhere

RpTypeOK ==
  /\ contacts \subseteq Ids /\ added \in 0..MaxContacts /\ rows \subseteq Ids
  /\ adding \in [Phones -> {"no", "count", "create"}]
  /\ overlapping \in Nat
  /\ fetching \in [at : {"no", "read", "back"}, got : SUBSET Ids]
  /\ removing \subseteq Ids /\ refused \in BOOLEAN
  /\ homeRow \in 0..MaxPlaces /\ homePlace \in 0..MaxPlaces
  /\ saving \in [at : {"no", "write", "back"}, place : 0..MaxPlaces]
  /\ hydrating \in [at : {"no", "read", "back"}, place : 0..MaxPlaces] /\ late \in BOOLEAN

NotFetching == [at |-> "no", got |-> {}]
RpInit ==
  /\ contacts = {} /\ added = 0 /\ rows = {} /\ adding = [p \in Phones |-> "no"] /\ overlapping = 0
  /\ fetching = NotFetching /\ removing = {} /\ refused = FALSE
  /\ homeRow = 0 /\ homePlace = 0 /\ saving = [at |-> "no", place |-> 0]
  /\ hydrating = [at |-> "no", place |-> 0] /\ late = FALSE

-----------------------------------------------------------------------------
(* The trusted contacts                                                     *)

FetchContacts ==
  /\ fetching.at = "no" /\ fetching' = [NotFetching EXCEPT !.at = "read"]
  /\ UNCHANGED <<contacts, added, rows, adding, overlapping, removing, refused, placeVars, faults>>
ListContacts ==
  /\ fetching.at = "read" /\ fetching' = [at |-> "back", got |-> contacts]
  /\ UNCHANGED <<contacts, added, rows, adding, overlapping, removing, refused, placeVars, faults>>
ShowContacts ==
  /\ fetching.at = "back" /\ fetching' = NotFetching /\ rows' = fetching.got
  /\ UNCHANGED <<contacts, added, adding, overlapping, removing, refused, placeVars, faults>>

\* The button is gone at the limit.
TapAddContact(p) ==
  /\ adding[p] = "no" /\ added < MaxContacts /\ (p = "here" => Cardinality(rows) < ContactLimit)
  /\ adding' = [adding EXCEPT ![p] = "count"]
  /\ UNCHANGED <<contacts, added, rows, overlapping, fetching, removing, refused, placeVars, faults>>

(* mutant: the limit itself still lets one more in *)
OverLimit == Cardinality(contacts) > ContactLimit
AtLimit == Cardinality(contacts) >= ContactLimit

Creating == {p \in Phones : adding[p] = "create"}

\* Nothing is locked between the count and the create.
CountContacts(p) ==
  /\ adding[p] = "count"
  /\ adding' = [adding EXCEPT ![p] = IF AtLimit THEN "no" ELSE "create"]
  /\ overlapping' = IF ~AtLimit /\ Cardinality(Creating) > overlapping
                      THEN Cardinality(Creating) ELSE overlapping
  /\ UNCHANGED <<contacts, added, rows, fetching, removing, refused, placeVars, faults>>

CreateContact(p) ==
  /\ adding[p] = "create" /\ added < MaxContacts /\ adding' = [adding EXCEPT ![p] = "no"]
  /\ added' = added + 1 /\ contacts' = contacts \cup {added'}
  /\ fetching' = IF p = "here" THEN [NotFetching EXCEPT !.at = "read"] ELSE fetching
  /\ UNCHANGED <<rows, overlapping, removing, refused, placeVars, faults>>

TapRemoveContact(c) ==
  /\ c \in rows \ removing /\ removing' = removing \cup {c}
  /\ UNCHANGED <<contacts, added, rows, adding, overlapping, fetching, refused, placeVars, faults>>

\* Any answer takes the row away; the access token may have expired by then.
RemoveContact(c, ok) ==
  /\ c \in removing /\ removing' = removing \ {c} /\ rows' = rows \ {c}
  /\ contacts' = (IF ok THEN contacts \ {c} ELSE contacts)
  /\ refused' = (refused \/ ~ok)
  /\ UNCHANGED <<added, adding, overlapping, fetching, placeVars, faults>>

ContactCallDies ==
  /\ Fault
  /\ \/ fetching.at # "no" /\ fetching' = NotFetching /\ UNCHANGED <<adding, removing>>
     \/ /\ \E p \in Phones : adding[p] # "no" /\ adding' = [adding EXCEPT ![p] = "no"]
        /\ UNCHANGED <<fetching, removing>>
     \/ \E c \in removing : removing' = removing \ {c} /\ UNCHANGED <<fetching, adding>>
  /\ UNCHANGED <<contacts, added, rows, overlapping, refused, placeVars>>

-----------------------------------------------------------------------------
(* The saved places                                                         *)

OpenPlaces ==
  /\ hydrating.at = "no" /\ hydrating' = [at |-> "read", place |-> 0] /\ late' = (saving.at # "no")
  /\ UNCHANGED <<contactVars, homeRow, homePlace, saving, faults>>
ReadProfile ==
  /\ hydrating.at = "read" /\ hydrating' = [at |-> "back", place |-> homeRow]
  /\ UNCHANGED <<contactVars, homeRow, homePlace, saving, late, faults>>

\* The answer replaces the store, also one that changed since.
Hydrate ==
  /\ hydrating.at = "back" /\ hydrating' = [at |-> "no", place |-> 0]
  /\ homePlace' = IF hydrating.place = 0 THEN homePlace ELSE hydrating.place
  /\ UNCHANGED <<contactVars, homeRow, saving, late, faults>>

SavePlace ==
  /\ saving.at = "no" /\ saving.place < MaxPlaces
  /\ saving' = [at |-> "write", place |-> saving.place + 1]
  /\ late' = (hydrating.at # "no")
  /\ UNCHANGED <<contactVars, homeRow, homePlace, hydrating, faults>>
SaveAddress ==
  /\ saving.at = "write" /\ saving' = [saving EXCEPT !.at = "back"] /\ homeRow' = saving.place
  /\ UNCHANGED <<contactVars, homePlace, hydrating, late, faults>>
PlaceSaved ==
  /\ saving.at = "back" /\ saving' = [saving EXCEPT !.at = "no"] /\ homePlace' = saving.place
  /\ UNCHANGED <<contactVars, homeRow, hydrating, late, faults>>
PlaceCallDies ==
  /\ Fault
  /\ \/ saving.at # "no" /\ saving' = [saving EXCEPT !.at = "no"] /\ UNCHANGED hydrating
     \/ hydrating.at # "no" /\ hydrating' = [at |-> "no", place |-> 0] /\ UNCHANGED saving
  /\ UNCHANGED <<contactVars, homeRow, homePlace, late>>

-----------------------------------------------------------------------------
ContactsNext ==
  \/ FetchContacts \/ ListContacts \/ ShowContacts \/ ContactCallDies
  \/ \E p \in Phones : TapAddContact(p) \/ CountContacts(p) \/ CreateContact(p)
  \/ \E c \in Ids : TapRemoveContact(c) \/ \E ok \in BOOLEAN : RemoveContact(c, ok)
PlacesNext ==
  \/ OpenPlaces \/ ReadProfile \/ Hydrate \/ SavePlace \/ SaveAddress \/ PlaceSaved
  \/ PlaceCallDies
RpSpec == RpInit /\ faults = 0 /\ [][ContactsNext \/ PlacesNext]_<<rpVars, faults>>

-----------------------------------------------------------------------------
\* The limit of five holds while adds come one after the other. addContact counts, then
\* creates, with no lock: adds that overlap exceed it, each by one contact at most, and
\* removals and failures leave no more room than that.
ContactsBounded == Cardinality(contacts) <= ContactLimit + overlapping

\* "Maximum of 5 trusted contacts allowed" (trusted-contacts.service.ts), whatever
\* overlaps.
ContactsWithinLimit == Cardinality(contacts) <= ContactLimit

\* At rest the app shows the place the server has, or none yet, unless a place
\* was saved while the screen was still reading (SavedPlacesScreen).
PlaceFollows == (saving.at = "no" /\ hydrating.at = "no" /\ ~late /\ faults = 0) =>
                   homePlace \in {0, homeRow}

\* Both of these.
ProfileHolds == ContactsBounded /\ PlaceFollows
=============================================================================
