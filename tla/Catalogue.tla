----------------------------- MODULE Catalogue -----------------------------
(***************************************************************************)
(* What a seller does with an event: services.py, locations.py, the part   *)
(* of delete_user that closes a seller's account, and reviews.  Bookings   *)
(* are a count of tickets, taken and given back in one step; how they are  *)
(* made is in CreateBooking.                                               *)
(*                                                                         *)
(* A handler is two steps: what it reads and checks, and the transaction   *)
(* that it commits.  Nothing but create_booking takes a lock, so between   *)
(* the two steps other requests may commit; what is left to stop them are  *)
(* the constraints of the tables, which the second step obeys.  A          *)
(* constraint that fails ends the request and changes nothing.  Who owns   *)
(* the event, prices and texts, and the clock that start_time is compared  *)
(* with are left out.                                                      *)
(***************************************************************************)
EXTENDS Naturals, FiniteSets

CONSTANTS Clients,       \* requests in flight: of the seller, an admin, customers
          Locations,
          TierNames,     \* names of service_tiers
          Codes,         \* identifier_code of a seat
          MaxCapacity,   \* bound on max_capacity and on the tickets of an event
          Times,         \* start_time and end_time
          NewEvents,     \* bound on the events that are created
          Agendas,       \* bounds: what clients do in a behaviour, see Agenda
          Unset

ASSUME CatalogueAssumption ==
    /\ MaxCapacity \in Nat \ {0} /\ Times \subseteq Nat
    /\ Unset \notin Locations \cup Nat

Modes     == {"slot_capacity", "unit_assigned"}
Fields    == {"mode", "cap", "loc", "start", "end"}
Operation == {"tier", "seats", "update", "delete", "close", "location", "book", "review"}
\* What clients do, the fields that updates set, and whether requests overlap.
Agenda    == [does : SUBSET Operation, sets : SUBSET Fields, overlap : BOOLEAN]
ASSUME AgendaAssumption == Agendas \subseteq Agenda

VARIABLES
    state,      \* of the event's row: is_active, or not there
    event,      \* its columns
    places,     \* locations that exist
    tiers,      \* names in service_tiers
    seats,      \* rows of inventory_items
    active,     \* tickets of bookings that are pending or confirmed
    booked,     \* "no" bookings, or the mode that there are bookings in
    reviews,    \* reviews of one confirmed booking
    agenda,
    at, seen, ask   \* per request: the handler, the event it read, its input

tables        == <<state, event, places, tiers, seats, active, booked, reviews>>
catalogueVars == <<tables, agenda, at, seen, ask>>

Capacity == 1..MaxCapacity
Columns  == [mode : Modes, cap : Capacity \cup {Unset}, loc : Locations \cup {Unset},
             start : Times, end : Times]
ASSUME NewEventsAssumption == NewEvents \subseteq Columns
NoEvent  == [f \in Fields |-> Unset]
Exists   == state \in {"active", "archived"}

CatalogueInit ==
    /\ state = "none" /\ event = NoEvent /\ places = Locations
    /\ tiers = {} /\ seats = {} /\ active = 0 /\ booked = "no" /\ reviews = 0
    /\ agenda \in Agendas
    /\ at = [c \in Clients |-> "idle"]
    /\ seen = [c \in Clients |-> NoEvent] /\ ask = [c \in Clients |-> Unset]

\* c has passed the checks of a handler and remembers what it read and was asked.
Checked(c, operation, input) ==
    /\ at[c] = "idle"
    /\ ~agenda.overlap => \A d \in Clients : at[d] = "idle"
    /\ at' = [at EXCEPT ![c] = operation]
    /\ seen' = [seen EXCEPT ![c] = event]
    /\ ask' = [ask EXCEPT ![c] = input]
    /\ UNCHANGED <<tables, agenda>>

Begins(c, operation, input) == operation \in agenda.does /\ Checked(c, operation, input)

\* The request ends; what it commits is said next to this.
Ends(c, operation) ==
    /\ at[c] = operation
    /\ at' = [at EXCEPT ![c] = "idle"]
    /\ seen' = [seen EXCEPT ![c] = NoEvent] /\ ask' = [ask EXCEPT ![c] = Unset]
    /\ UNCHANGED agenda

\* COMMIT, or a constraint fails.
Commits(possible, change) == IF possible THEN change ELSE UNCHANGED tables

---------------------------------------------------------------------------
\* Creating the event, its tiers and its seats.

CreateService(c, new) ==
    /\ state = "none" /\ new.loc \in places
    /\ new.start < new.end
    /\ new.mode = "slot_capacity" <=> new.cap # Unset
    /\ Checked(c, "create", new)

CreateServiceCommit(c) ==
    /\ Ends(c, "create")
    /\ Commits(state = "none" /\ ask[c].loc \in places,
               /\ state' = "active" /\ event' = ask[c]
               /\ UNCHANGED <<places, tiers, seats, active, booked, reviews>>)

\* The check takes spellings in capitals and small letters for one name, UNIQUE
\* (service_id, name) for two; the model has one spelling of each.
CreateTier(c, name) ==
    /\ state = "active"
    /\ name \notin tiers
    /\ Begins(c, "tier", name)

CreateTierCommit(c) ==
    /\ Ends(c, "tier")
    /\ Commits(Exists /\ ask[c] \notin tiers,
               /\ tiers' = tiers \cup {ask[c]}
               /\ UNCHANGED <<state, event, places, seats, active, booked, reviews>>)

BulkCreate(c, seat) ==
    /\ state = "active" /\ event.mode = "unit_assigned"
    /\ seat.tier \in tiers
    /\ \A s \in seats : s.code # seat.code
    /\ Begins(c, "seats", seat)

BulkCreateCommit(c) ==
    /\ Ends(c, "seats")
    /\ Commits(/\ Exists /\ ask[c].tier \in tiers
               /\ \A s \in seats : s.code # ask[c].code,
               /\ seats' = seats \cup {ask[c]}
               /\ UNCHANGED <<state, event, places, tiers, active, booked, reviews>>)

---------------------------------------------------------------------------
\* update_service.  new has the fields that the request sets.

Given(new, f) == IF f \in DOMAIN new THEN new[f] ELSE event[f]

\* A change of the mode needs an event without bookings and seats, and sets or
\* clears the capacity.
\* mutant: the seats are forgotten
ModeAllowedSeated(new) ==
    Given(new, "mode") # event.mode =>
        /\ booked = "no"
        /\ new.mode = "slot_capacity" => Given(new, "cap") # Unset

ModeAllowed(new) ==
    Given(new, "mode") # event.mode =>
        /\ booked = "no" /\ seats = {}
        /\ new.mode = "slot_capacity" => Given(new, "cap") # Unset

Effective(new) ==
    IF Given(new, "mode") = "unit_assigned" /\ event.mode = "slot_capacity"
    THEN [f \in DOMAIN new \cup {"cap"} |-> IF f = "cap" THEN Unset ELSE new[f]]
    ELSE new

\* The capacity is compared with the tickets in slot mode only.
CapacityAllowed(new) ==
    "cap" \in DOMAIN new /\ Given(new, "mode") = "slot_capacity" =>
        new.cap # Unset /\ new.cap >= active

BeginUpdate(c, new) ==
    /\ state = "active"
    /\ "loc" \in DOMAIN new => new.loc \in places
    /\ ModeAllowed(new)
    /\ CapacityAllowed(Effective(new))
    /\ Given(new, "start") < Given(new, "end")
    /\ Begins(c, "update", Effective(new))

\* The unit of work writes the columns whose value differs from the one it
\* loaded; the CHECK on the times and the foreign key see the row as it is now.
Written(c) ==
    [f \in Fields |-> IF f \in DOMAIN ask[c] /\ ask[c][f] # seen[c][f]
                      THEN ask[c][f] ELSE event[f]]
\* mutant: a table without the CHECK
TimesInAnyOrder(row) == row.start \in Times /\ row.end \in Times

TimesInOrder(row) == row.start < row.end

UpdateCommit(c) ==
    /\ Ends(c, "update")
    /\ Commits(/\ Exists /\ TimesInOrder(Written(c))
               /\ Written(c).loc # event.loc => Written(c).loc \in places,
               /\ event' = Written(c)
               /\ UNCHANGED <<state, places, tiers, seats, active, booked, reviews>>)

---------------------------------------------------------------------------
\* delete_service archives an event that has had bookings, and deletes another
\* with its tiers and seats.  The foreign key of bookings refuses that.

\* mutant: bookings are deleted with their event
ForbidsNothing == FALSE

Forbids == booked # "no"

BeginDelete(c) ==
    /\ state = "active" /\ active = 0
    /\ Begins(c, "delete", IF booked # "no" THEN "archive" ELSE "row")

DeleteCommit(c) ==
    /\ Ends(c, "delete")
    /\ \/ /\ ask[c] = "archive"
          /\ Commits(Exists, /\ state' = "archived"
                             /\ UNCHANGED <<event, places, tiers, seats, active, booked,
                                            reviews>>)
       \/ /\ ask[c] = "row"
          /\ Commits(Exists /\ ~Forbids,
                     /\ state' = "gone" /\ event' = NoEvent
                     /\ tiers' = {} /\ seats' = {}
                     /\ UNCHANGED <<places, active, booked, reviews>>)

\* delete_user of a seller: refused while there are tickets; archives the events.
CloseAccount(c) ==
    /\ active = 0 /\ state # "none"
    /\ Begins(c, "close", Unset)

CloseAccountCommit(c) ==
    /\ Ends(c, "close")
    /\ Commits(Exists, /\ state' = "archived"
                       /\ UNCHANGED <<event, places, tiers, seats, active, booked, reviews>>)

---------------------------------------------------------------------------
\* Locations.

DeleteLocation(c, l) ==
    /\ l \in places
    /\ ~(state = "active" /\ event.loc = l)
    /\ Begins(c, "location", l)

\* Archived events lose their location by the UPDATE, all others by ON DELETE SET
\* NULL of the foreign key.
DeleteLocationCommit(c) ==
    /\ Ends(c, "location")
    /\ Commits(ask[c] \in places,
               /\ places' = places \ {ask[c]}
               /\ event' = IF event.loc = ask[c] THEN [event EXCEPT !.loc = Unset] ELSE event
               /\ UNCHANGED <<state, tiers, seats, active, booked, reviews>>)

---------------------------------------------------------------------------
\* Customers.

\* create_booking for one ticket reads the event, then counts under the event's or
\* the seats' locks; the locked row is not loaded again (bookings.py:212).
Book(c) ==
    /\ state = "active"
    /\ Begins(c, "book", Unset)

BookCommit(c) ==
    /\ Ends(c, "book")
    /\ Commits(/\ Exists /\ active < MaxCapacity
               /\ IF seen[c].mode = "slot_capacity"
                  THEN seen[c].cap # Unset /\ active < seen[c].cap
                  ELSE active < Cardinality(seats),
               /\ active' = active + 1 /\ booked' = seen[c].mode
               /\ UNCHANGED <<state, event, places, tiers, seats, reviews>>)

\* Cancelled, or swept: the row stays.
EndBooking ==
    /\ active > 0
    /\ active' = active - 1
    /\ UNCHANGED <<state, event, places, tiers, seats, booked, reviews, agenda, at, seen, ask>>

\* A customer with a confirmed booking reviews it; UNIQUE (booking_id).
CreateReview(c) ==
    /\ state = "active" /\ active > 0 /\ reviews = 0
    /\ Begins(c, "review", Unset)

\* mutant: a table without the UNIQUE
AnyReview == reviews \in Nat

UniqueReview == reviews = 0

CreateReviewCommit(c) ==
    /\ Ends(c, "review")
    /\ Commits(UniqueReview, /\ reviews' = reviews + 1
                             /\ UNCHANGED <<state, event, places, tiers, seats, active, booked>>)

DeleteReview ==
    /\ reviews > 0 /\ reviews' = reviews - 1
    /\ UNCHANGED <<state, event, places, tiers, seats, active, booked, agenda, at, seen, ask>>

---------------------------------------------------------------------------
Updates == {[f \in S |-> row[f]] :
              S \in (SUBSET agenda.sets) \ {{}},
              row \in {r \in Columns : r.loc # Unset /\ \A f \in Fields \ agenda.sets : r[f] = event[f]}}

CatalogueNext ==
    \/ \E c \in Clients :
        \/ \E new \in NewEvents : CreateService(c, new)
        \/ \E name \in TierNames : CreateTier(c, name)
        \/ \E code \in Codes, tier \in TierNames : BulkCreate(c, [code |-> code, tier |-> tier])
        \/ \E new \in Updates : BeginUpdate(c, new)
        \/ BeginDelete(c) \/ CloseAccount(c)
        \/ \E l \in Locations : DeleteLocation(c, l)
        \/ Book(c) \/ CreateReview(c)
        \/ CreateServiceCommit(c) \/ CreateTierCommit(c) \/ BulkCreateCommit(c)
        \/ UpdateCommit(c) \/ DeleteCommit(c) \/ CloseAccountCommit(c)
        \/ DeleteLocationCommit(c) \/ BookCommit(c) \/ CreateReviewCommit(c)
    \/ EndBooking \/ DeleteReview

---------------------------------------------------------------------------
CatalogueTypeOK ==
    /\ state \in {"none", "active", "archived", "gone"}
    /\ event \in Columns \cup {NoEvent}
    /\ places \subseteq Locations /\ tiers \subseteq TierNames
    /\ seats \subseteq [code : Codes, tier : TierNames]
    /\ active \in 0..MaxCapacity /\ booked \in Modes \cup {"no"} /\ reviews \in Nat
    /\ agenda \in Agendas
    /\ at \in [Clients -> Operation \cup {"idle", "create"}]

\* An event that has been booked is never deleted, only archived, whatever comes
\* between the check and the DELETE (services.py:723-743); one that is deleted
\* leaves no tier and no seat behind, also of a request under way.
DeletedLeavesNothing ==
    /\ state = "gone" => booked = "no" /\ active = 0 /\ tiers = {} /\ seats = {}
    /\ \A s \in seats : s.tier \in tiers

\* No order of updates, each checked against what it has read, leaves an event
\* that ends before it starts: the table's CHECK catches what update_service misses.
EventEndsAfterStart == Exists => event.start < event.end

\* However often the form is submitted, a booking has one review (reviews.py:65),
\* and its event is there while the review is.
ReviewsStand == reviews <= 1 /\ (reviews > 0 => Exists /\ booked # "no")

CapacityCoversTickets ==
    event.mode = "slot_capacity" => event.cap # Unset /\ active <= event.cap
ModeFitsContents ==
    /\ seats # {} => event.mode = "unit_assigned"
    /\ booked \in {"no", event.mode}
ActiveEventHasLocation == state = "active" => event.loc \in places

\* What update_service and delete_location promise of an event's capacity, mode and
\* location holds after every sequence of requests that do not overlap.  Overlapping
\* requests break each of the three: nothing in the tables protects them.
CatalogueSound ==
    ~agenda.overlap /\ Exists =>
        CapacityCoversTickets /\ ModeFitsContents /\ ActiveEventHasLocation
=============================================================================
