-------------------------- MODULE DomainProfiles --------------------------
(***************************************************************************)
(* The domain profiles that parameterise the task engine                   *)
(* (src/domain-profiles/*.js), reduced to the part the engine's control    *)
(* depends on: the state table and the five states that TaskManager's own  *)
(* operations name (states.values.MATCHED, ...).  States are the strings   *)
(* the source uses, so that a state of one domain can collide with a state *)
(* of another exactly where it does in the code.                           *)
(*                                                                         *)
(* Labels, theme, retention periods, criteria, credentials and stake       *)
(* percentages of a profile are data no transition depends on and are left *)
(* out.                                                                    *)
(***************************************************************************)
LOCAL INSTANCE FiniteSets

(***************************************************************************)
(* A profile is a record: initial, terminal (a set), next (state -> set of *)
(* states, undefined for a state without a row in the table) and the       *)
(* states the engine moves to by name.                                     *)
(***************************************************************************)
Ridesharing ==
    [ initial   |-> "requested", matched |-> "matched", enRoute |-> "en_route",
      arrived   |-> "arrived", active |-> "active", completed |-> "completed",
      cancelled |-> "cancelled",
      terminal  |-> {"completed", "no_show", "cancelled"},
      next      |-> [ requested |-> {"matched", "cancelled"},
                      matched   |-> {"en_route", "cancelled"},
                      en_route  |-> {"arrived", "cancelled"},
                      arrived   |-> {"active", "no_show", "cancelled"},
                      active    |-> {"completed", "cancelled"} ] ]

Locksmith ==
    [ initial   |-> "lockout_reported", matched |-> "locksmith_matched",
      enRoute   |-> "en_route", arrived |-> "arrived", active |-> "work_active",
      completed |-> "access_gained", cancelled |-> "cancelled",
      terminal  |-> {"access_gained", "no_show", "cancelled"},
      next      |-> [ lockout_reported  |-> {"locksmith_matched", "cancelled"},
                      locksmith_matched |-> {"en_route", "cancelled"},
                      en_route          |-> {"arrived", "cancelled"},
                      arrived           |-> {"access_method_confirmed", "no_show", "cancelled"},
                      access_method_confirmed |-> {"work_active", "cancelled"},
                      work_active       |-> {"access_gained", "cancelled"} ] ]

\* delivery_failed is listed as terminal and still has a row in the table.
Delivery ==
    [ initial   |-> "collection_requested", matched |-> "courier_matched",
      enRoute   |-> "en_route_to_pickup", arrived |-> "arrived_at_pickup",
      active    |-> "in_transit", completed |-> "delivered", cancelled |-> "cancelled",
      terminal  |-> {"delivered", "delivery_failed", "returned_to_sender",
                     "no_show", "cancelled"},
      next      |-> [ collection_requested |-> {"courier_matched", "cancelled"},
                      courier_matched      |-> {"en_route_to_pickup", "cancelled"},
                      en_route_to_pickup   |-> {"arrived_at_pickup", "cancelled"},
                      arrived_at_pickup    |-> {"collected", "no_show", "cancelled"},
                      collected            |-> {"in_transit", "cancelled"},
                      in_transit           |-> {"arrived_at_delivery", "cancelled"},
                      arrived_at_delivery  |-> {"delivered", "delivery_failed",
                                                "no_show", "cancelled"},
                      delivery_failed      |-> {"returned_to_sender"} ] ]

Towing ==
    [ initial   |-> "recovery_requested", matched |-> "operator_matched",
      enRoute   |-> "en_route", arrived |-> "arrived", active |-> "in_transit",
      completed |-> "delivered", cancelled |-> "cancelled",
      terminal  |-> {"delivered", "no_show", "cancelled"},
      next      |-> [ recovery_requested |-> {"operator_matched", "cancelled"},
                      operator_matched   |-> {"en_route", "cancelled"},
                      en_route           |-> {"arrived", "cancelled"},
                      arrived            |-> {"vehicle_assessed", "no_show", "cancelled"},
                      vehicle_assessed   |-> {"vehicle_loaded", "cancelled"},
                      vehicle_loaded     |-> {"in_transit", "cancelled"},
                      in_transit         |-> {"delivered", "cancelled"} ] ]

EmergencyTrades ==
    [ initial   |-> "callout_reported", matched |-> "tradesperson_matched",
      enRoute   |-> "en_route", arrived |-> "arrived", active |-> "work_active",
      completed |-> "work_complete", cancelled |-> "cancelled",
      terminal  |-> {"work_complete", "no_show", "cancelled"},
      next      |-> [ callout_reported     |-> {"tradesperson_matched", "cancelled"},
                      tradesperson_matched |-> {"en_route", "cancelled"},
                      en_route             |-> {"arrived", "cancelled"},
                      arrived              |-> {"diagnosis", "no_show", "cancelled"},
                      diagnosis            |-> {"quote_provided", "cancelled"},
                      quote_provided       |-> {"quote_accepted", "cancelled"},
                      quote_accepted       |-> {"work_active", "cancelled"},
                      work_active          |-> {"work_complete", "cancelled"} ] ]

PetServices ==
    [ initial   |-> "booking_requested", matched |-> "carer_matched",
      enRoute   |-> "en_route", arrived |-> "arrived", active |-> "session_active",
      completed |-> "check_out", cancelled |-> "cancelled",
      terminal  |-> {"check_out", "no_show", "cancelled"},
      next      |-> [ booking_requested |-> {"carer_matched", "cancelled"},
                      carer_matched     |-> {"en_route", "cancelled"},
                      en_route          |-> {"arrived", "cancelled"},
                      arrived           |-> {"check_in", "no_show", "cancelled"},
                      check_in          |-> {"session_active", "cancelled"},
                      session_active    |-> {"check_out", "cancelled"} ] ]

\* The only table with cycles: a shift moves between its three live states.
Security ==
    [ initial   |-> "assignment_requested", matched |-> "officer_matched",
      enRoute   |-> "en_route", arrived |-> "arrived", active |-> "on_station",
      completed |-> "shift_complete", cancelled |-> "cancelled",
      terminal  |-> {"shift_complete", "no_show", "cancelled"},
      next      |-> [ assignment_requested |-> {"officer_matched", "cancelled"},
                      officer_matched      |-> {"en_route", "cancelled"},
                      en_route             |-> {"arrived", "cancelled"},
                      arrived              |-> {"briefed", "no_show", "cancelled"},
                      briefed              |-> {"on_station", "cancelled"},
                      on_station           |-> {"patrolling", "incident",
                                                "shift_complete", "cancelled"},
                      patrolling           |-> {"on_station", "incident",
                                                "shift_complete", "cancelled"},
                      incident             |-> {"on_station", "patrolling",
                                                "shift_complete", "cancelled"} ] ]

Cleaning ==
    [ initial   |-> "session_requested", matched |-> "cleaner_matched",
      enRoute   |-> "en_route", arrived |-> "arrived", active |-> "cleaning_active",
      completed |-> "completed", cancelled |-> "cancelled",
      terminal  |-> {"completed", "no_show", "cancelled"},
      next      |-> [ session_requested |-> {"cleaner_matched", "cancelled"},
                      cleaner_matched   |-> {"en_route", "cancelled"},
                      en_route          |-> {"arrived", "cancelled"},
                      arrived           |-> {"cleaning_active", "no_show", "cancelled"},
                      cleaning_active   |-> {"completed", "cancelled"} ] ]

Moving ==
    [ initial   |-> "move_requested", matched |-> "crew_matched",
      enRoute   |-> "en_route", arrived |-> "crew_assembled", active |-> "in_transit",
      completed |-> "completed", cancelled |-> "cancelled",
      terminal  |-> {"completed", "no_show", "cancelled"},
      next      |-> [ move_requested |-> {"crew_matched", "cancelled"},
                      crew_matched   |-> {"en_route", "cancelled"},
                      en_route       |-> {"crew_assembled", "cancelled"},
                      crew_assembled |-> {"loading", "no_show", "cancelled"},
                      loading        |-> {"in_transit", "cancelled"},
                      in_transit     |-> {"unloading", "cancelled"},
                      unloading      |-> {"completed", "cancelled"} ] ]

\* BUILTIN_PROFILES of the loader, by identifier.
Builtin ==
    [ ridesharing |-> Ridesharing, locksmith |-> Locksmith, delivery |-> Delivery,
      towing |-> Towing, emergency_trades |-> EmergencyTrades,
      pet_services |-> PetServices, security |-> Security,
      cleaning |-> Cleaning, moving |-> Moving ]

-----------------------------------------------------------------------------

\* Object.values(profile.states.values): every state of every table is used
\* by some row, by the terminal list or as the initial state.
StatesOf(p) ==
    {p.initial} \cup p.terminal \cup DOMAIN p.next
        \cup UNION {p.next[s] : s \in DOMAIN p.next}

\* What `transitions[from]` allows; a state without a row allows nothing.
Allowed(p, from) == IF from \in DOMAIN p.next THEN p.next[from] ELSE {}

\* validateProfile: every state a table, the terminal list or the initial
\* field names is one of states.values (here: of the given set of states).
ValidProfile(p, states) ==
    /\ p.initial \in states
    /\ p.terminal \subseteq states
    /\ DOMAIN p.next \subseteq states
    /\ \A s \in DOMAIN p.next : p.next[s] \subseteq states
=============================================================================
