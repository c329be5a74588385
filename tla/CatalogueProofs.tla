--------------------------- MODULE CatalogueProofs ---------------------------
(***************************************************************************)
(* Theorems about Catalogue as a part of Background, for any number of     *)
(* requests, locations, tiers, seats and bookings.                         *)
(***************************************************************************)
EXTENDS Background, TLAPS

LEMMA CatalogueConstants ==
    /\ MaxCapacity \in Nat \ {0} /\ Times \subseteq Nat /\ Capacity \subseteq Nat
    /\ Unset \notin Locations /\ Unset \notin Nat /\ Unset \notin Capacity
    /\ NewEvents \subseteq Columns
    /\ \A a \in Agendas : a.overlap \in BOOLEAN
BY CatalogueAssumption, AgendaAssumption, NewEventsAssumption DEF Capacity, Agenda

\* What the event, its tiers, seats, bookings and reviews have to do with each other.
Consistent ==
    /\ Exists => event \in Columns /\ event.start < event.end
    /\ ~Exists => booked = "no" /\ active = 0 /\ tiers = {} /\ seats = {}
    /\ booked = "no" => active = 0 /\ reviews = 0
    /\ reviews \in {0, 1}
    /\ \A s \in seats : s.tier \in tiers

\* A request that has passed its checks knows what its handler is about to write;
\* whatever others do, there are bookings if it has found one.
RequestOK(c) ==
    /\ at[c] = "create" => /\ ask[c] \in Columns /\ ask[c].start < ask[c].end
                           /\ ask[c].mode = "slot_capacity" => ask[c].cap # Unset
    /\ at[c] = "tier" => ask[c] \in TierNames
    /\ at[c] = "seats" => ask[c] \in [code : Codes, tier : TierNames]
    /\ at[c] = "update" =>
          /\ "mode" \in DOMAIN ask[c] => ask[c].mode \in Modes
          /\ "cap" \in DOMAIN ask[c] => ask[c].cap \in Capacity \cup {Unset}
          /\ "loc" \in DOMAIN ask[c] => ask[c].loc \in Locations \cup {Unset}
          /\ "start" \in DOMAIN ask[c] => ask[c].start \in Times
          /\ "end" \in DOMAIN ask[c] => ask[c].end \in Times
    /\ at[c] = "location" => ask[c] \in Locations
    /\ at[c] = "book" => seen[c].mode \in Modes
    /\ at[c] = "review" => booked # "no"

\* What the rules of the catalogue are about, for a row of the event.
Fits(row) ==
    /\ row.mode = "slot_capacity" => row.cap # Unset /\ active <= row.cap
    /\ seats # {} => row.mode = "unit_assigned"
    /\ booked \in {"no", row.mode}

\* If requests do not overlap, what a request has checked still holds.
StillTrue(c) ==
    /\ at[c] = "create" => state = "none"
    /\ at[c] = "seats" => event.mode = "unit_assigned"
    /\ at[c] = "update" =>
          state = "active" /\ Fits(Written(c)) /\ Written(c).loc \in places
    /\ at[c] = "book" => seen[c] = event
    /\ at[c] = "location" => ~(state = "active" /\ event.loc = ask[c])

Sound == Exists => Fits(event) /\ (state = "active" => event.loc \in places)

Serial ==
    /\ Sound
    /\ \A c, d \in Clients : at[c] # "idle" /\ at[d] # "idle" => c = d
    /\ \A c \in Clients : StillTrue(c)

CatTypeOK ==
    /\ CatalogueTypeOK
    /\ DOMAIN seen = Clients /\ seen = [c \in Clients |-> seen[c]]
    /\ DOMAIN ask = Clients /\ ask = [c \in Clients |-> ask[c]]

CatInv ==
    /\ CatTypeOK /\ Consistent
    /\ \A c \in Clients : RequestOK(c)
    /\ ~agenda.overlap => Serial

-----------------------------------------------------------------------------
LEMMA CatalogueStarts == CatalogueInit => CatInv
<1> SUFFICES ASSUME CatalogueInit PROVE CatInv
  OBVIOUS
<1>1. CatTypeOK
  BY CatalogueConstants DEF CatalogueInit, CatTypeOK, CatalogueTypeOK
<1>2. Consistent /\ Sound
  BY DEF CatalogueInit, Consistent, Sound, Exists
<1>3. \A c \in Clients : at[c] = "idle"
  BY DEF CatalogueInit
<1> QED
  BY <1>1, <1>2, <1>3 DEF CatInv, RequestOK, Serial, StillTrue

\* A request that passes its checks brings its own facts and disturbs no other's.
LEMMA CheckedKeeps ==
    ASSUME CatInv, NEW c \in Clients, NEW operation \in Operation \cup {"create"}, NEW input,
           Checked(c, operation, input),
           RequestOK(c)', ~agenda.overlap => StillTrue(c)'
    PROVE  CatInv'
<1>1. /\ UNCHANGED <<state, event, places, tiers, seats, active, booked, reviews, agenda>>
      /\ at' \in [Clients -> Operation \cup {"idle", "create"}]
      /\ seen' = [d \in Clients |-> seen'[d]] /\ ask' = [d \in Clients |-> ask'[d]]
      /\ DOMAIN seen' = Clients /\ DOMAIN ask' = Clients
      /\ \A d \in Clients \ {c} : at'[d] = at[d] /\ seen'[d] = seen[d] /\ ask'[d] = ask[d]
      /\ ~agenda.overlap => \A d \in Clients : at[d] = "idle"
  BY DEF CatInv, CatTypeOK, CatalogueTypeOK, Checked, tables
<1>2. CatTypeOK'
  BY <1>1 DEF CatInv, CatTypeOK, CatalogueTypeOK
<1>3. Consistent'
  BY <1>1 DEF CatInv, Consistent, Exists
<1>4. \A d \in Clients : RequestOK(d)'
  <2> SUFFICES ASSUME NEW d \in Clients, d # c PROVE RequestOK(d)'
    OBVIOUS
  <2> QED
    BY <1>1 DEF CatInv, RequestOK
<1>5. ASSUME ~agenda.overlap PROVE Serial'
  <2>1. Sound'
    BY <1>1, <1>5 DEF CatInv, Serial, Sound, Exists, Fits
  <2>2. \A d \in Clients \ {c} : at'[d] = "idle"
    BY <1>1, <1>5
  <2>3. \A d \in Clients \ {c} : StillTrue(d)'
    BY <2>2 DEF StillTrue
  <2> QED
    BY <1>5, <2>1, <2>2, <2>3 DEF Serial
<1> QED
  BY <1>1, <1>2, <1>3, <1>4, <1>5 DEF CatInv

\* A request that ends leaves its client idle, and the facts of the others to them.
Ended(c, operation) ==
    /\ at[c] = operation /\ at'[c] = "idle" /\ agenda' = agenda
    /\ at' \in [Clients -> Operation \cup {"idle", "create"}]
    /\ seen' = [d \in Clients |-> seen'[d]] /\ ask' = [d \in Clients |-> ask'[d]]
    /\ DOMAIN seen' = Clients /\ DOMAIN ask' = Clients
    /\ \A d \in Clients \ {c} : at'[d] = at[d] /\ seen'[d] = seen[d] /\ ask'[d] = ask[d]
    /\ ~agenda.overlap /\ operation # "idle" => \A d \in Clients : at'[d] = "idle"

LEMMA EndsGives ==
    ASSUME CatInv, NEW c \in Clients, NEW operation, Ends(c, operation)
    PROVE  Ended(c, operation)
<1>1. /\ at[c] = operation /\ at'[c] = "idle" /\ agenda' = agenda
      /\ at' \in [Clients -> Operation \cup {"idle", "create"}]
      /\ \A d \in Clients \ {c} : at'[d] = at[d] /\ seen'[d] = seen[d] /\ ask'[d] = ask[d]
  BY DEF CatInv, CatTypeOK, CatalogueTypeOK, Ends
<1>2. /\ seen' = [d \in Clients |-> seen'[d]] /\ ask' = [d \in Clients |-> ask'[d]]
      /\ DOMAIN seen' = Clients /\ DOMAIN ask' = Clients
  BY DEF CatInv, CatTypeOK, Ends
<1>3. ~agenda.overlap /\ operation # "idle" => \A d \in Clients : at'[d] = "idle"
  BY <1>1 DEF CatInv, Serial
<1> QED
  BY <1>1, <1>2, <1>3 DEF Ended

\* What a transaction has to show for the rest to follow.
LEMMA EndedKeeps ==
    ASSUME CatInv, NEW c \in Clients, NEW operation \in Operation \cup {"create"},
           Ended(c, operation),
           /\ state' \in {"none", "active", "archived", "gone"}
           /\ event' \in Columns \cup {NoEvent}
           /\ places' \subseteq Locations /\ tiers' \subseteq TierNames
           /\ seats' \subseteq [code : Codes, tier : TierNames]
           /\ active' \in 0..MaxCapacity /\ booked' \in Modes \cup {"no"},
           Consistent', booked # "no" => booked' # "no",
           ~agenda.overlap => Sound'
    PROVE  CatInv'
<1>0. operation # "idle"
  BY DEF Operation
<1>1. CatTypeOK'
  BY DEF CatInv, CatTypeOK, CatalogueTypeOK, Ended, Consistent
<1>2. ASSUME NEW d \in Clients PROVE RequestOK(d)'
  <2>1. CASE d = c
    BY <2>1 DEF Ended, RequestOK
  <2>2. CASE d # c
    BY <2>2 DEF Ended, RequestOK, CatInv
  <2> QED
    BY <2>1, <2>2
<1>3. ASSUME ~agenda.overlap PROVE Serial'
  <2>1. \A d \in Clients : at'[d] = "idle"
    BY <1>0, <1>3 DEF Ended
  <2> QED
    BY <1>3, <2>1 DEF Serial, StillTrue
<1> QED
  BY <1>1, <1>2, <1>3 DEF CatInv, Ended

\* A request that ends and commits nothing.
LEMMA EndedUnchanged ==
    ASSUME CatInv, NEW c \in Clients, NEW operation \in Operation \cup {"create"},
           Ended(c, operation), UNCHANGED tables
    PROVE  CatInv'
<1>1. UNCHANGED <<state, event, places, tiers, seats, active, booked, reviews>>
  BY DEF tables
<1>2. Consistent'
  BY <1>1 DEF CatInv, Consistent, Exists
<1>3. ~agenda.overlap => Sound'
  BY <1>1 DEF CatInv, Serial, Sound, Exists, Fits
<1>4. /\ state \in {"none", "active", "archived", "gone"}
      /\ event \in Columns \cup {NoEvent}
      /\ places \subseteq Locations /\ tiers \subseteq TierNames
      /\ seats \subseteq [code : Codes, tier : TierNames]
      /\ active \in 0..MaxCapacity /\ booked \in Modes \cup {"no"}
  BY DEF CatInv, CatTypeOK, CatalogueTypeOK
<1> QED
  BY <1>1, <1>2, <1>3, <1>4, EndedKeeps

-----------------------------------------------------------------------------
\* Checks.  Each lemma says what a handler has made sure of.

LEMMA ChecksSimple ==
    ASSUME CatInv, NEW c \in Clients,
           \/ \E new \in NewEvents : CreateService(c, new)
           \/ \E name \in TierNames : CreateTier(c, name)
           \/ \E code \in Codes, tier \in TierNames :
                  BulkCreate(c, [code |-> code, tier |-> tier])
           \/ BeginDelete(c) \/ CloseAccount(c)
           \/ \E l \in Locations : DeleteLocation(c, l)
           \/ Book(c) \/ CreateReview(c)
    PROVE  CatInv'
<1> DEFINE Said(operation, input) ==
       /\ Checked(c, operation, input)
       /\ at'[c] = operation /\ seen'[c] = event /\ ask'[c] = input
       /\ UNCHANGED <<state, event, places, tiers, seats, active, booked, reviews>>
<1>0. ASSUME NEW operation, NEW input, Checked(c, operation, input) PROVE Said(operation, input)
  BY <1>0 DEF Checked, CatInv, CatTypeOK, CatalogueTypeOK, tables
<1>1. ASSUME NEW new \in NewEvents, CreateService(c, new) PROVE CatInv'
  <2>1. Said("create", new) /\ state = "none" /\ new.start < new.end
        /\ (new.mode = "slot_capacity" => new.cap # Unset) /\ new \in Columns
    BY <1>0, <1>1, CatalogueConstants DEF CreateService
  <2>2. RequestOK(c)' /\ StillTrue(c)'
    BY <2>1 DEF RequestOK, StillTrue
  <2> QED
    BY <2>1, <2>2, CheckedKeeps
<1>2. ASSUME NEW name \in TierNames, CreateTier(c, name) PROVE CatInv'
  <2>1. Said("tier", name)
    BY <1>0, <1>2 DEF CreateTier, Begins
  <2>2. RequestOK(c)' /\ StillTrue(c)'
    BY <2>1 DEF RequestOK, StillTrue
  <2> QED
    BY <2>1, <2>2, CheckedKeeps DEF Operation
<1>3. ASSUME NEW code \in Codes, NEW tier \in TierNames,
             BulkCreate(c, [code |-> code, tier |-> tier])
      PROVE  CatInv'
  <2>1. Said("seats", [code |-> code, tier |-> tier]) /\ event.mode = "unit_assigned"
    BY <1>0, <1>3 DEF BulkCreate, Begins
  <2>2. RequestOK(c)' /\ StillTrue(c)'
    BY <2>1 DEF RequestOK, StillTrue
  <2> QED
    BY <2>1, <2>2, CheckedKeeps DEF Operation
<1>4. ASSUME BeginDelete(c) PROVE CatInv'
  <2>1. PICK input : Said("delete", input)
    BY <1>0, <1>4 DEF BeginDelete, Begins
  <2>2. RequestOK(c)' /\ StillTrue(c)'
    BY <2>1 DEF RequestOK, StillTrue
  <2> QED
    BY <2>1, <2>2, CheckedKeeps DEF Operation
<1>5. ASSUME CloseAccount(c) PROVE CatInv'
  <2>1. Said("close", Unset)
    BY <1>0, <1>5 DEF CloseAccount, Begins
  <2>2. RequestOK(c)' /\ StillTrue(c)'
    BY <2>1 DEF RequestOK, StillTrue
  <2> QED
    BY <2>1, <2>2, CheckedKeeps DEF Operation
<1>6. ASSUME NEW l \in Locations, DeleteLocation(c, l) PROVE CatInv'
  <2>1. Said("location", l) /\ ~(state = "active" /\ event.loc = l)
    BY <1>0, <1>6 DEF DeleteLocation, Begins
  <2>2. RequestOK(c)' /\ StillTrue(c)'
    BY <2>1 DEF RequestOK, StillTrue
  <2> QED
    BY <2>1, <2>2, CheckedKeeps DEF Operation
<1>7. ASSUME Book(c) PROVE CatInv'
  <2>1. Said("book", Unset) /\ state = "active"
    BY <1>0, <1>7 DEF Book, Begins
  <2>2. event.mode \in Modes
    BY <2>1 DEF CatInv, Consistent, Exists, Columns
  <2>3. RequestOK(c)' /\ StillTrue(c)'
    BY <2>1, <2>2 DEF RequestOK, StillTrue
  <2> QED
    BY <2>1, <2>3, CheckedKeeps DEF Operation
<1>8. ASSUME CreateReview(c) PROVE CatInv'
  <2>1. Said("review", Unset) /\ active > 0
    BY <1>0, <1>8 DEF CreateReview, Begins
  <2>2. booked # "no"
    BY <2>1 DEF CatInv, Consistent
  <2>3. RequestOK(c)' /\ StillTrue(c)'
    BY <2>1, <2>2 DEF RequestOK, StillTrue
  <2> QED
    BY <2>1, <2>3, CheckedKeeps DEF Operation
<1> QED
  BY <1>1, <1>2, <1>3, <1>4, <1>5, <1>6, <1>7, <1>8

\* The row that an update would leave fits the seats, the bookings and the locations.
LEMMA ChecksUpdate ==
    ASSUME CatInv, NEW c \in Clients, NEW new \in Updates, BeginUpdate(c, new)
    PROVE  CatInv'
<1> DEFINE eff == Effective(new)
           leaves == Given(new, "mode") = "unit_assigned" /\ event.mode = "slot_capacity"
<1>1. /\ Checked(c, "update", eff)
      /\ at'[c] = "update" /\ seen'[c] = event /\ ask'[c] = eff
      /\ UNCHANGED <<state, event, places, tiers, seats, active, booked, reviews>>
      /\ state = "active" /\ ("loc" \in DOMAIN new => new.loc \in places)
      /\ ModeAllowed(new) /\ CapacityAllowed(eff)
  BY DEF BeginUpdate, Begins, Checked, CatInv, CatTypeOK, CatalogueTypeOK, tables
<1>2. event \in Columns
  BY <1>1 DEF CatInv, Consistent, Exists
<1>3. /\ "mode" \in DOMAIN new => new.mode \in Modes
      /\ "cap" \in DOMAIN new => new.cap \in Capacity \cup {Unset}
      /\ "loc" \in DOMAIN new => new.loc \in Locations \cup {Unset}
      /\ "start" \in DOMAIN new => new.start \in Times
      /\ "end" \in DOMAIN new => new.end \in Times
  BY DEF Updates, Columns
<1>4. /\ "mode" \in DOMAIN eff <=> "mode" \in DOMAIN new
      /\ "loc" \in DOMAIN eff <=> "loc" \in DOMAIN new
      /\ "start" \in DOMAIN eff <=> "start" \in DOMAIN new
      /\ "end" \in DOMAIN eff <=> "end" \in DOMAIN new
      /\ "mode" \in DOMAIN new => eff.mode = new.mode
      /\ "loc" \in DOMAIN new => eff.loc = new.loc
      /\ "start" \in DOMAIN new => eff.start = new.start
      /\ "end" \in DOMAIN new => eff.end = new.end
  BY DEF Effective
<1>5. /\ leaves => "cap" \in DOMAIN eff /\ eff.cap = Unset
      /\ ~leaves => eff = new
  BY DEF Effective
<1>6. RequestOK(c)'
  BY <1>1, <1>3, <1>4, <1>5 DEF RequestOK
<1>7. /\ Written(c)'.mode = Given(new, "mode") /\ Written(c)'.loc = Given(new, "loc")
      /\ Written(c)'.cap = IF leaves THEN Unset ELSE Given(new, "cap")
  <2>1. \A f \in Fields : Written(c)'[f] = IF f \in DOMAIN eff THEN eff[f] ELSE event[f]
    BY <1>1 DEF Written
  <2>2. /\ Written(c)'.mode = IF "mode" \in DOMAIN eff THEN eff.mode ELSE event.mode
        /\ Written(c)'.loc = IF "loc" \in DOMAIN eff THEN eff.loc ELSE event.loc
        /\ Written(c)'.cap = IF "cap" \in DOMAIN eff THEN eff.cap ELSE event.cap
    BY <2>1 DEF Fields
  <2> QED
    BY <1>4, <1>5, <2>2 DEF Given
<1>8. ASSUME ~agenda.overlap PROVE StillTrue(c)'
  <2>1. Fits(event) /\ event.loc \in places
    BY <1>1, <1>8 DEF CatInv, Serial, Sound, Exists
  <2>2. Given(new, "loc") \in places
    BY <1>1, <2>1 DEF Given
  <2>3. Given(new, "mode") \in Modes
    BY <1>2, <1>3 DEF Given, Columns
  <2>4. /\ seats # {} => Given(new, "mode") = "unit_assigned"
        /\ booked \in {"no", Given(new, "mode")}
    BY <1>1, <2>1 DEF ModeAllowed, Fits
  <2>5. ASSUME Given(new, "mode") = "slot_capacity"
        PROVE  Given(new, "cap") # Unset /\ active <= Given(new, "cap")
    <3>1. eff = new
      BY <1>5, <2>5
    <3>2. "cap" \in DOMAIN new => new.cap # Unset /\ active <= new.cap
      BY <1>1, <1>3, <2>5, <3>1, CatalogueConstants
         DEF CapacityAllowed, CatInv, CatTypeOK, CatalogueTypeOK
    <3>3. CASE "cap" \in DOMAIN new
      BY <3>2, <3>3 DEF Given
    <3>4. CASE "cap" \notin DOMAIN new /\ event.mode = "slot_capacity"
      BY <2>1, <3>4 DEF Fits, Given
    <3>5. CASE "cap" \notin DOMAIN new /\ event.mode # "slot_capacity"
      <4>1. booked = "no" /\ Given(new, "cap") # Unset
        BY <1>1, <2>5, <3>5 DEF ModeAllowed, Given
      <4>2. active = 0
        BY <4>1 DEF CatInv, Consistent
      <4>3. event.cap \in Nat \/ event.cap = Unset
        BY <1>2, CatalogueConstants DEF Columns
      <4>4. Given(new, "cap") = event.cap
        BY <3>5 DEF Given
      <4> QED
        BY <4>1, <4>2, <4>3, <4>4
    <3> QED
      BY <3>3, <3>4, <3>5
  <2>6. Fits(Written(c))' /\ Written(c)'.loc \in places
    BY <1>1, <1>7, <2>2, <2>4, <2>5 DEF Fits
  <2> QED
    BY <1>1, <2>6 DEF StillTrue
<1> QED
  BY <1>1, <1>6, <1>8, CheckedKeeps DEF Operation

-----------------------------------------------------------------------------
\* Transactions.

LEMMA Creates == ASSUME CatInv, NEW c \in Clients, CreateServiceCommit(c) PROVE CatInv'
<1>1. Ended(c, "create") /\ at[c] = "create"
  BY EndsGives DEF CreateServiceCommit, Ends
<1>2. CASE UNCHANGED tables
  BY <1>1, <1>2, EndedUnchanged
<1>3. CASE /\ state = "none" /\ ask[c].loc \in places
           /\ state' = "active" /\ event' = ask[c]
           /\ UNCHANGED <<places, tiers, seats, active, booked, reviews>>
  <2>1. ask[c] \in Columns /\ ask[c].start < ask[c].end
        /\ (ask[c].mode = "slot_capacity" => ask[c].cap # Unset /\ 0 <= ask[c].cap)
    <3>1. ask[c].cap # Unset => ask[c].cap \in Nat
      BY <1>1, CatalogueConstants DEF CatInv, RequestOK, Columns
    <3> QED
      BY <1>1, <3>1 DEF CatInv, RequestOK
  <2>2. booked = "no" /\ active = 0 /\ tiers = {} /\ seats = {} /\ reviews = 0
    BY <1>3 DEF CatInv, Consistent, Exists
  <2>3. Consistent'
    BY <1>3, <2>1, <2>2 DEF Consistent, Exists
  <2>4. Sound'
    <3>1. ask[c].mode \in Modes
      BY <2>1 DEF Columns
    <3> QED
      BY <1>3, <2>1, <2>2, <3>1 DEF Sound, Fits, Exists
  <2> QED
    BY <1>1, <1>3, <2>1, <2>3, <2>4, EndedKeeps DEF CatInv, CatTypeOK, CatalogueTypeOK
<1> QED
  BY <1>2, <1>3 DEF CreateServiceCommit, Commits

LEMMA Tiers == ASSUME CatInv, NEW c \in Clients, CreateTierCommit(c) PROVE CatInv'
<1>1. Ended(c, "tier") /\ at[c] = "tier"
  BY EndsGives DEF CreateTierCommit, Ends
<1>2. CASE UNCHANGED tables
  BY <1>1, <1>2, EndedUnchanged DEF Operation
<1>3. CASE /\ Exists /\ tiers' = tiers \cup {ask[c]}
           /\ UNCHANGED <<state, event, places, seats, active, booked, reviews>>
  <2>1. ask[c] \in TierNames
    BY <1>1 DEF CatInv, RequestOK
  <2>2. Consistent'
    BY <1>3 DEF CatInv, Consistent, Exists
  <2>3. ~agenda.overlap => Sound'
    BY <1>3 DEF CatInv, Serial, Sound, Fits, Exists
  <2> QED
    BY <1>1, <1>3, <2>1, <2>2, <2>3, EndedKeeps DEF CatInv, CatTypeOK, CatalogueTypeOK, Operation
<1> QED
  BY <1>2, <1>3 DEF CreateTierCommit, Commits

LEMMA SeatsAdded == ASSUME CatInv, NEW c \in Clients, BulkCreateCommit(c) PROVE CatInv'
<1>1. Ended(c, "seats") /\ at[c] = "seats"
  BY EndsGives DEF BulkCreateCommit, Ends
<1>2. CASE UNCHANGED tables
  BY <1>1, <1>2, EndedUnchanged DEF Operation
<1>3. CASE /\ Exists /\ ask[c].tier \in tiers
           /\ seats' = seats \cup {ask[c]}
           /\ UNCHANGED <<state, event, places, tiers, active, booked, reviews>>
  <2>1. ask[c] \in [code : Codes, tier : TierNames]
    BY <1>1 DEF CatInv, RequestOK
  <2>2. Consistent'
    BY <1>3 DEF CatInv, Consistent, Exists
  <2>3. ~agenda.overlap => Sound'
    <3>1. ~agenda.overlap => event.mode = "unit_assigned"
      BY <1>1 DEF CatInv, Serial, StillTrue
    <3> QED
      BY <1>3, <3>1 DEF CatInv, Serial, Sound, Fits, Exists
  <2> QED
    BY <1>1, <1>3, <2>1, <2>2, <2>3, EndedKeeps DEF CatInv, CatTypeOK, CatalogueTypeOK, Operation
<1> QED
  BY <1>2, <1>3 DEF BulkCreateCommit, Commits

LEMMA WrittenIsRow ==
    ASSUME CatInv, NEW c \in Clients, at[c] = "update", Exists PROVE Written(c) \in Columns
<1>1. event \in Columns
  BY DEF CatInv, Consistent
<1>2. /\ Written(c).mode \in Modes /\ Written(c).cap \in Capacity \cup {Unset}
      /\ Written(c).loc \in Locations \cup {Unset}
      /\ Written(c).start \in Times /\ Written(c).end \in Times
  BY <1>1 DEF CatInv, RequestOK, Written, Columns, Fields
<1> QED
  BY <1>2 DEF Written, Columns, Fields

LEMMA UpdatesKeep == ASSUME CatInv, NEW c \in Clients, UpdateCommit(c) PROVE CatInv'
<1>1. Ended(c, "update") /\ at[c] = "update"
  BY EndsGives DEF UpdateCommit, Ends
<1>2. CASE UNCHANGED tables
  BY <1>1, <1>2, EndedUnchanged DEF Operation
<1>3. CASE /\ Exists /\ TimesInOrder(Written(c)) /\ event' = Written(c)
           /\ UNCHANGED <<state, places, tiers, seats, active, booked, reviews>>
  <2>3. Written(c) \in Columns
    BY <1>1, <1>3, WrittenIsRow
  <2>4. Consistent'
    BY <1>3, <2>3 DEF CatInv, Consistent, Exists, TimesInOrder
  <2>5. ~agenda.overlap => Sound'
    BY <1>1, <1>3 DEF CatInv, Serial, StillTrue, Sound, Fits, Exists
  <2> QED
    BY <1>1, <1>3, <2>3, <2>4, <2>5, EndedKeeps DEF CatInv, CatTypeOK, CatalogueTypeOK, Operation
<1> QED
  BY <1>2, <1>3 DEF UpdateCommit, Commits

LEMMA Archives ==
    ASSUME CatInv, NEW c \in Clients, NEW operation \in {"delete", "close"},
           Ended(c, operation), Exists, state' = "archived",
           UNCHANGED <<event, places, tiers, seats, active, booked, reviews>>
    PROVE  CatInv'
<1>1. Consistent'
  BY DEF CatInv, Consistent, Exists
<1>2. ~agenda.overlap => Sound'
  BY DEF CatInv, Serial, Sound, Fits, Exists
<1> QED
  BY <1>1, <1>2, EndedKeeps DEF CatInv, CatTypeOK, CatalogueTypeOK, Operation

LEMMA Deletes == ASSUME CatInv, NEW c \in Clients, DeleteCommit(c) PROVE CatInv'
<1>1. Ended(c, "delete")
  BY EndsGives DEF DeleteCommit
<1>2. CASE UNCHANGED tables
  BY <1>1, <1>2, EndedUnchanged DEF Operation
<1>3. CASE /\ Exists /\ state' = "archived"
           /\ UNCHANGED <<event, places, tiers, seats, active, booked, reviews>>
  BY <1>1, <1>3, Archives
<1>4. CASE /\ Exists /\ ~Forbids /\ state' = "gone" /\ event' = NoEvent
           /\ tiers' = {} /\ seats' = {}
           /\ UNCHANGED <<places, active, booked, reviews>>
  <2>1. Consistent'
    BY <1>4 DEF CatInv, Consistent, Exists, Forbids
  <2>2. Sound'
    BY <1>4 DEF Sound, Exists
  <2> QED
    BY <1>1, <1>4, <2>1, <2>2, EndedKeeps DEF CatInv, CatTypeOK, CatalogueTypeOK, Operation
<1> QED
  BY <1>2, <1>3, <1>4 DEF DeleteCommit, Commits

LEMMA Closes == ASSUME CatInv, NEW c \in Clients, CloseAccountCommit(c) PROVE CatInv'
<1>1. Ended(c, "close")
  BY EndsGives DEF CloseAccountCommit
<1> QED
  BY <1>1, EndedUnchanged, Archives DEF CloseAccountCommit, Commits, Operation

LEMMA LocationsGo == ASSUME CatInv, NEW c \in Clients, DeleteLocationCommit(c) PROVE CatInv'
<1>1. Ended(c, "location") /\ at[c] = "location"
  BY EndsGives DEF DeleteLocationCommit, Ends
<1>2. CASE UNCHANGED tables
  BY <1>1, <1>2, EndedUnchanged DEF Operation
<1>3. CASE /\ places' = places \ {ask[c]}
           /\ event' = IF event.loc = ask[c] THEN [event EXCEPT !.loc = Unset] ELSE event
           /\ UNCHANGED <<state, tiers, seats, active, booked, reviews>>
  <2>1. ask[c] \in Locations /\ NoEvent.loc = Unset
    BY <1>1 DEF CatInv, RequestOK, NoEvent, Fields
  <2>2. event = NoEvent => event' = event
    BY <1>3, <2>1, CatalogueConstants
  <2>3. event \in Columns => /\ event' \in Columns /\ event'.start = event.start
                             /\ event'.end = event.end /\ event'.mode = event.mode
                             /\ event'.cap = event.cap
                             /\ event.loc # ask[c] => event'.loc = event.loc
    BY <1>3 DEF Columns
  <2>4. Consistent'
    BY <1>3, <2>3 DEF CatInv, Consistent, Exists
  <2>5. ~agenda.overlap => Sound'
    <3> SUFFICES ASSUME ~agenda.overlap, Exists' PROVE Sound'
      BY DEF Sound
    <3>1. event \in Columns /\ Fits(event) /\ (state = "active" => event.loc \in places)
          /\ ~(state = "active" /\ event.loc = ask[c])
      BY <1>1, <1>3 DEF CatInv, Consistent, Serial, Sound, StillTrue, Exists
    <3> QED
      BY <1>3, <2>3, <3>1 DEF Sound, Fits
  <2> QED
    BY <1>1, <1>3, <2>2, <2>3, <2>4, <2>5, EndedKeeps
       DEF CatInv, CatTypeOK, CatalogueTypeOK, Operation
<1> QED
  BY <1>2, <1>3 DEF DeleteLocationCommit, Commits

LEMMA Books == ASSUME CatInv, NEW c \in Clients, BookCommit(c) PROVE CatInv'
<1>1. Ended(c, "book") /\ at[c] = "book"
  BY EndsGives DEF BookCommit, Ends
<1>2. CASE UNCHANGED tables
  BY <1>1, <1>2, EndedUnchanged DEF Operation
<1>3. CASE /\ Exists /\ active < MaxCapacity
           /\ seen[c].mode = "slot_capacity" => seen[c].cap # Unset /\ active < seen[c].cap
           /\ active' = active + 1 /\ booked' = seen[c].mode
           /\ UNCHANGED <<state, event, places, tiers, seats, reviews>>
  <2>1. seen[c].mode \in Modes /\ "no" \notin Modes
    BY <1>1 DEF CatInv, RequestOK, Modes
  <2>2. active' \in 0..MaxCapacity
    BY <1>3, CatalogueConstants DEF CatInv, CatTypeOK, CatalogueTypeOK
  <2>3. Consistent'
    BY <1>3, <2>1 DEF CatInv, Consistent, Exists
  <2>4. ~agenda.overlap => Sound'
    <3> SUFFICES ASSUME ~agenda.overlap PROVE Sound'
      OBVIOUS
    <3>1. seen[c] = event /\ Fits(event) /\ (state = "active" => event.loc \in places)
          /\ event \in Columns
      BY <1>1, <1>3 DEF CatInv, Consistent, Serial, Sound, StillTrue
    <3>2. event.mode = "slot_capacity" => event.cap \in Nat /\ active + 1 <= event.cap
      BY <1>3, <3>1, CatalogueConstants DEF Columns, CatInv, CatTypeOK, CatalogueTypeOK
    <3> QED
      BY <1>3, <3>1, <3>2 DEF Sound, Fits
  <2> QED
    BY <1>1, <1>3, <2>1, <2>2, <2>3, <2>4, EndedKeeps
       DEF CatInv, CatTypeOK, CatalogueTypeOK, Operation
<1> QED
  BY <1>2, <1>3 DEF BookCommit, Commits

LEMMA Reviewed == ASSUME CatInv, NEW c \in Clients, CreateReviewCommit(c) PROVE CatInv'
<1>1. Ended(c, "review") /\ at[c] = "review"
  BY EndsGives DEF CreateReviewCommit, Ends
<1>2. CASE UNCHANGED tables
  BY <1>1, <1>2, EndedUnchanged DEF Operation
<1>3. CASE /\ reviews = 0 /\ reviews' = reviews + 1
           /\ UNCHANGED <<state, event, places, tiers, seats, active, booked>>
  <2>1. booked # "no"
    BY <1>1 DEF CatInv, RequestOK
  <2>2. Consistent'
    BY <1>3, <2>1 DEF CatInv, Consistent, Exists
  <2>3. ~agenda.overlap => Sound'
    BY <1>3 DEF CatInv, Serial, Sound, Fits, Exists
  <2> QED
    BY <1>1, <1>3, <2>2, <2>3, EndedKeeps DEF CatInv, CatTypeOK, CatalogueTypeOK, Operation
<1> QED
  BY <1>2, <1>3 DEF CreateReviewCommit, Commits, UniqueReview

\* Steps of nobody's request.
LEMMA Undone == ASSUME CatInv, EndBooking \/ DeleteReview PROVE CatInv'
<1>1. /\ active' \in 0..MaxCapacity /\ active' <= active /\ active' \in Nat /\ active \in Nat
      /\ active = 0 => active' = 0
      /\ reviews' \in {0, 1} /\ (reviews = 0 => reviews' = 0)
      /\ UNCHANGED <<state, event, places, tiers, seats, booked, agenda, at, seen, ask>>
  BY CatalogueConstants
     DEF EndBooking, DeleteReview, CatInv, CatTypeOK, CatalogueTypeOK, Consistent
<1>2. CatTypeOK'
  BY <1>1 DEF CatInv, CatTypeOK, CatalogueTypeOK
<1>3. Consistent'
  BY <1>1 DEF CatInv, Consistent, Exists
<1>4. \A c \in Clients : RequestOK(c)'
  BY <1>1 DEF CatInv, RequestOK
<1>5. ASSUME NEW row \in Columns, Fits(row)
      PROVE  /\ row.mode = "slot_capacity" => row.cap # Unset /\ active' <= row.cap
             /\ seats # {} => row.mode = "unit_assigned"
             /\ booked \in {"no", row.mode}
  <2>1. row.cap # Unset => row.cap \in Nat
    BY CatalogueConstants DEF Columns
  <2> QED
    BY <1>1, <1>5, <2>1 DEF Fits
<1>6. ASSUME ~agenda.overlap PROVE Sound'
  BY <1>1, <1>5, <1>6 DEF CatInv, Consistent, Serial, Sound, Exists, Fits
<1>7. ASSUME ~agenda.overlap, NEW c \in Clients PROVE StillTrue(c)'
  <2>1. StillTrue(c)
    BY <1>7 DEF CatInv, Serial
  <2>2. Written(c)' = Written(c)
    BY <1>1 DEF Written
  <2>3. at[c] = "update" => Written(c) \in Columns
    BY <2>1, WrittenIsRow DEF StillTrue, Exists
  <2>4. at[c] = "update" => Fits(Written(c))'
    BY <1>1, <1>5, <2>1, <2>2, <2>3 DEF StillTrue, Fits
  <2> QED
    BY <1>1, <2>1, <2>2, <2>4 DEF StillTrue
<1> QED
  BY <1>1, <1>2, <1>3, <1>4, <1>6, <1>7 DEF CatInv, Serial

-----------------------------------------------------------------------------
LEMMA CatalogueStep == ASSUME CatInv, [CatalogueNext]_catalogueVars PROVE CatInv'
<1>1. CASE UNCHANGED catalogueVars
  <2>1. UNCHANGED <<state, event, places, tiers, seats, active, booked, reviews, agenda,
                    at, seen, ask>>
    BY <1>1 DEF catalogueVars, tables
  <2>2. CatTypeOK'
    BY <2>1 DEF CatInv, CatTypeOK, CatalogueTypeOK
  <2>3. Consistent' /\ (Exists' <=> Exists)
    BY <2>1 DEF CatInv, Consistent, Exists
  <2>4. \A c \in Clients : RequestOK(c)'
    BY <2>1 DEF CatInv, RequestOK
  <2>5. ~agenda.overlap => Serial'
    BY <2>1, <2>3 DEF CatInv, Serial, Sound, StillTrue, Fits, Written
  <2> QED
    BY <2>1, <2>2, <2>3, <2>4, <2>5 DEF CatInv
<1>2. ASSUME NEW c \in Clients,
             \/ CreateServiceCommit(c) \/ CreateTierCommit(c) \/ BulkCreateCommit(c)
             \/ UpdateCommit(c) \/ DeleteCommit(c) \/ CloseAccountCommit(c)
             \/ DeleteLocationCommit(c) \/ BookCommit(c) \/ CreateReviewCommit(c)
      PROVE  CatInv'
  BY <1>2, Creates, Tiers, SeatsAdded, UpdatesKeep, Deletes, Closes, LocationsGo, Books, Reviewed
<1> QED
  BY <1>1, <1>2, ChecksSimple, ChecksUpdate, Undone DEF CatalogueNext

\* In Background the catalogue takes its own steps only.
LEMMA CataloguePart == [BackgroundNext]_backgroundVars => [CatalogueNext]_catalogueVars
BY DEF BackgroundNext, backgroundVars, InQueue, InCache, InCatalogue, InRegistration

LEMMA CatalogueHolds == BackgroundSpec => []CatInv
<1>1. BackgroundInit => CatInv
  BY CatalogueStarts DEF BackgroundInit
<1>2. CatInv /\ [BackgroundNext]_backgroundVars => CatInv'
  BY CatalogueStep, CataloguePart
<1> QED
  BY <1>1, <1>2, PTL DEF BackgroundSpec

\* A booked event is archived and never deleted, and a deleted one leaves no tier and
\* no seat, for any number of requests that overlap in any way.
THEOREM NothingLeft == BackgroundSpec => []DeletedLeavesNothing
<1>1. CatInv => DeletedLeavesNothing
  BY DEF CatInv, Consistent, DeletedLeavesNothing, Exists
<1> QED
  BY <1>1, CatalogueHolds, PTL

\* Overlapping updates never leave an event that ends before it starts.
THEOREM TimesOrdered == BackgroundSpec => []EventEndsAfterStart
<1>1. CatInv => EventEndsAfterStart
  BY DEF CatInv, Consistent, EventEndsAfterStart
<1> QED
  BY <1>1, CatalogueHolds, PTL

\* A booking has one review at most, and a reviewed event stays.
THEOREM OneReview == BackgroundSpec => []ReviewsStand
<1>1. CatInv => ReviewsStand
  BY DEF CatInv, Consistent, ReviewsStand
<1> QED
  BY <1>1, CatalogueHolds, PTL

\* Requests that do not overlap keep capacity, mode and location as the handlers
\* promise, in whatever order and number they come.
THEOREM RulesKept == BackgroundSpec => []CatalogueSound
<1>1. CatInv => CatalogueSound
  BY DEF CatInv, Serial, Sound, Fits, CatalogueSound, CapacityCoversTickets, ModeFitsContents,
         ActiveEventHasLocation
<1> QED
  BY <1>1, CatalogueHolds, PTL
=============================================================================
