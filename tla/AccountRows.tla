----------------------------- MODULE AccountRows -----------------------------
(***************************************************************************)
(* The rows of one account that a handler inserts after it has looked for   *)
(* an equal one: invited members (api/routers/team.py), devices              *)
(* (api/routers/mobile.py) and custom modules (api/routers/custom_modules.py). *)
(* Only custom modules have a unique index (owner, slug).                   *)
(***************************************************************************)
EXTENDS Naturals, FiniteSets

CONSTANTS
    Callers,    \* requests in progress
    Keys,       \* e-mail addresses, device ids and slugs
    SeatLimits, \* team_seats_max of the plans with team_seats; unlimited (-1) bounds nothing
    MaxRows     \* bound: rows that are inserted in a behaviour

ASSUME AccountRowsAssumption ==
    /\ MaxRows \in Nat
    /\ SeatLimits \subseteq Nat /\ SeatLimits # {}

RowIds == 1..MaxRows

VARIABLES
    members,    \* [ids of inserted team_members rows -> e-mail address]
    devices,    \* set of device_sessions rows: id, key, on (is_active)
    customs,    \* set of custom_modules rows: id, key, on
    nextId,     \* the next row id
    seats,      \* seats of the effective plan now
    caller,     \* [Callers -> what the request runs and has read]
    \* history
    sided,      \* keys of which two inserts have overlapped, by table
    overseated  \* invitations have overlapped, or the plan has shrunk

rowVars == <<members, devices, customs, nextId, seats, caller, sided, overseated>>

Resting == [do |-> "rest"]
Tables == {"members", "devices", "customs"}

RowsInit ==
    /\ members = {} /\ devices = {} /\ customs = {} /\ nextId = 1
    /\ seats \in SeatLimits
    /\ caller = [c \in Callers |-> Resting]
    /\ sided = {} /\ overseated = FALSE

Becomes(c, state) == caller' = [caller EXCEPT ![c] = state]

\* Callers that have looked for k in a table and will insert it.
Inserting(do, k) == {c \in Callers : caller[c] # Resting /\ caller[c].do = do /\ caller[c].key = k}
Inviting == {c \in Callers : caller[c].do \in {"counted", "members"}}

\* The insert of k by c; overlapping: another caller has looked for k as well.
Insert(c, t, k) ==
    /\ nextId \in RowIds
    /\ nextId' = nextId + 1
    /\ sided' = IF Inserting(t, k) # {c} THEN sided \cup {<<t, k>>} ELSE sided
    /\ Becomes(c, Resting)

-----------------------------------------------------------------------------
(* Members.                                                                  *)

\* Mutant: the limit itself is let through.
CountSeatsOffByOne(c, k) ==
    /\ caller[c] = Resting
    /\ Cardinality(members) <= seats
    /\ Becomes(c, [do |-> "counted", key |-> k])
    /\ overseated' = (overseated \/ Inviting # {})
    /\ UNCHANGED <<members, devices, customs, nextId, seats, sided>>

CountSeats(c, k) ==
    /\ caller[c] = Resting
    /\ Cardinality(members) < seats
    /\ Becomes(c, [do |-> "counted", key |-> k])
    /\ overseated' = (overseated \/ Inviting # {})
    /\ UNCHANGED <<members, devices, customs, nextId, seats, sided>>

\* "Member already invited"; two rows of one address are an error as well.
FindInvited(c) ==
    /\ caller[c].do = "counted"
    /\ LET found == \E m \in members : m.key = caller[c].key IN
        Becomes(c, IF found THEN Resting ELSE [caller[c] EXCEPT !.do = "members"])
    /\ UNCHANGED <<members, devices, customs, nextId, seats, sided, overseated>>

InviteMember(c) ==
    /\ caller[c].do = "members"
    /\ Insert(c, "members", caller[c].key)
    /\ members' = members \cup {[id |-> nextId, key |-> caller[c].key]}
    /\ UNCHANGED <<devices, customs, seats, overseated>>

RemoveMember(m) ==
    /\ members' = members \ {m}
    /\ UNCHANGED <<devices, customs, nextId, seats, caller, sided, overseated>>

\* The effective plan changes; a smaller one leaves the members as they are.
ChangePlan(n) ==
    /\ seats' = n
    /\ overseated' = (overseated \/ n < seats)
    /\ UNCHANGED <<members, devices, customs, nextId, caller, sided>>

-----------------------------------------------------------------------------
(* Devices.                                                                  *)

\* Mutant: only an active session of the device is found.
FindActiveDevice(c, k) ==
    LET found == {d \in devices : d.key = k /\ d.on} IN
    /\ caller[c] = Resting
    /\ Cardinality(found) <= 1
    /\ Becomes(c, [do |-> "devices", key |-> k, row |-> found])
    /\ UNCHANGED <<members, devices, customs, nextId, seats, sided, overseated>>

\* Two rows of one device: scalar_one_or_none raises, now and ever after.
FindDevice(c, k) ==
    LET found == {d \in devices : d.key = k} IN
    /\ caller[c] = Resting
    /\ Cardinality(found) <= 1
    /\ Becomes(c, [do |-> "devices", key |-> k, row |-> found])
    /\ UNCHANGED <<members, devices, customs, nextId, seats, sided, overseated>>

\* The row found is written by id: is_active only where it was loaded as off.
RegisterDevice(c) ==
    LET q == caller[c] IN
    /\ q.do = "devices"
    /\ \/ /\ q.row = {}
          /\ Insert(c, "devices", q.key)
          /\ devices' = devices \cup {[id |-> nextId, key |-> q.key, on |-> TRUE]}
       \/ /\ q.row # {}
          /\ devices' = {IF \E r \in q.row : r.id = d.id /\ ~r.on
                         THEN [d EXCEPT !.on = TRUE] ELSE d : d \in devices}
          /\ Becomes(c, Resting)
          /\ UNCHANGED <<nextId, sided>>
    /\ UNCHANGED <<members, customs, seats, overseated>>

RevokeSession(d) ==
    /\ devices' = (devices \ {d}) \cup {[d EXCEPT !.on = FALSE]}
    /\ UNCHANGED <<members, customs, nextId, seats, caller, sided, overseated>>

\* /auth/logout, in one statement.
Logout ==
    /\ devices' = {[d EXCEPT !.on = FALSE] : d \in devices}
    /\ UNCHANGED <<members, customs, nextId, seats, caller, sided, overseated>>

-----------------------------------------------------------------------------
(* Custom modules.                                                           *)

\* A slug that is taken gets a random suffix, which no other has: it then stands for a key
\* of its own, and is not counted here.
FindSlug(c, k) ==
    /\ caller[c] = Resting
    /\ ~\E u \in customs : u.key = k
    /\ Becomes(c, [do |-> "customs", key |-> k])
    /\ UNCHANGED <<members, devices, customs, nextId, seats, sided, overseated>>

\* The index refuses a slug inserted in between: the request fails.
CreateCustomModule(c) ==
    LET k == caller[c].key IN
    /\ caller[c].do = "customs"
    /\ \/ /\ ~\E u \in customs : u.key = k
          /\ Insert(c, "customs", k)
          /\ customs' = customs \cup {[id |-> nextId, key |-> k, on |-> TRUE]}
       \/ /\ \E u \in customs : u.key = k
          /\ Becomes(c, Resting)
          /\ UNCHANGED <<customs, nextId, sided>>
    /\ UNCHANGED <<members, devices, seats, overseated>>

DeleteCustomModule(u) ==
    /\ customs' = (customs \ {u}) \cup {[u EXCEPT !.on = FALSE]}
    /\ UNCHANGED <<members, devices, nextId, seats, caller, sided, overseated>>

\* The request fails or its process dies.
CallerFails(c) ==
    /\ caller[c] # Resting
    /\ Becomes(c, Resting)
    /\ UNCHANGED <<members, devices, customs, nextId, seats, sided, overseated>>

RowsNext ==
    \/ \E c \in Callers :
        \/ \E k \in Keys : CountSeats(c, k) \/ FindDevice(c, k) \/ FindSlug(c, k)
        \/ FindInvited(c) \/ InviteMember(c) \/ RegisterDevice(c) \/ CreateCustomModule(c)
        \/ CallerFails(c)
    \/ \E m \in members : RemoveMember(m)
    \/ \E d \in devices : RevokeSession(d)
    \/ \E u \in customs : DeleteCustomModule(u)
    \/ \E n \in SeatLimits : ChangePlan(n)
    \/ Logout

RowsSpec == RowsInit /\ [][RowsNext]_rowVars

-----------------------------------------------------------------------------
(* Properties.                                                               *)

KeyedRow == [id : RowIds, key : Keys, on : BOOLEAN]
CallerState == {Resting} \cup [do : {"counted", "members", "customs"}, key : Keys]
                         \cup [do : {"devices"}, key : Keys, row : SUBSET KeyedRow]

RowsTypeOK ==
    /\ members \in SUBSET [id : RowIds, key : Keys]
    /\ devices \in SUBSET KeyedRow /\ customs \in SUBSET KeyedRow
    /\ nextId \in 1..(MaxRows + 1) /\ seats \in SeatLimits
    /\ caller \in [Callers -> CallerState]
    /\ sided \in SUBSET (Tables \X Keys) /\ overseated \in BOOLEAN

\* A second row of one member or one device, which makes every later look-up of it fail,
\* comes only from two requests that both looked before either inserted; custom modules,
\* with their index, never have one.
RowsUnique ==
    /\ \A a, b \in members : a.key = b.key => a = b \/ <<"members", a.key>> \in sided
    /\ \A a, b \in devices : a.key = b.key => a = b \/ <<"devices", a.key>> \in sided
    /\ \A a, b \in customs : a.key = b.key => a = b

\* More members than seats need two invitations that counted at once, or a smaller plan.
SeatsKept == Cardinality(members) <= seats \/ overseated
=============================================================================
