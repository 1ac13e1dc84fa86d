# Skyro in TLA+

Skyro delivers parcels on a campus with drones. Three Python services share the
work: the **drone backend** (`src/backend`) accepts launches and flies missions,
**Fleet AI** (`src/backend-fleet-ai`) chooses drones, hands out locks for
delivery zones and home pads in Redis and watches for collisions, and the
**orders service** (`src/backend-orders`) keeps the orders. This directory
models what is hard to test in them: what happens between two awaits of
coroutines that run in different services, when calls time out, leases end,
missions fail and services restart.

Contents: [inventory](#inventory), [modules](#modules), [runs](#runs),
[fairness](#fairness), [proofs](#proofs), [what was observed](#observed-while-modelling),
[what is left out](#not-modelled), [plan](#plan).

## Inventory

| part | state | operations | what makes it correct |
|---|---|---|---|
| delivery zone locks (`landing.py`) | Redis `delivery_lock:<zone>` = drone, TTL 180 s | `acquire_delivery_lock` (GET/EXPIRE, SET NX, poll 120 s), `release_delivery_lock` (DEL), wipe at boot | one drone cleared per zone; who asks is answered; nothing stays locked for ever |
| home pad locks (`landing.py`) | Redis `home_pad_lock:<pad>` = drone, TTL 600 s (a mission's hold) or none (parked) | `acquire_home_pad_lock`, `reserve_home_location`, `release_home_location`, `on_drone_home_landing_confirmed`, `boot_pad_reconstruction` | a granted pad stays the drone's own until it has landed |
| `assign_drone` (Fleet AI `main.py`) | a snapshot of drone states, kept across awaits | score, lock zone, find and lock pad, score again after a lost race, register a trajectory | what it locks is what it answers with, and is not left behind on errors |
| scheduler (`scheduler.py`) and cooldown | Redis `last_landed_at:*`, `drone_state:*` with TTL | eligibility, reads, composite score, cooldown key; `_cooldown_monitor` | no drone picked in its cooldown, none kept for longer, none passed over for a worse one |
| daily counters (Fleet AI `main.py`) | Redis `deliveries_today:*`, `flight_minutes_today:*`, the date of the last reset | increments, `_midnight_reset` | nothing of yesterday counts today, nothing of today is lost |
| collision and traffic | `_segments`, the R-tree, `_id_map`, `_active_segments` | register, resolve conflicts by altitude, loiter, deregister, rebuild | conflicts are searched among the flights that are in the air |
| location cache | a copy in Redis, TTL, `_last_known_*` | read, fetch, copy, fall back | lists are fresh up to a stated age |
| fleet state cache (`state_manager.py`) | `_DRONE_STATES`, `_LAST_SEEN`, Redis `telemetry:*` | WebSocket loop, `update_state`, staleness marks | never older than before, catches up, marks who is gone |
| WebSocket hubs (`ws_manager.py`, `FleetWSManager`) | sets of clients | broadcast, connect, disconnect | a dead client does not stop the rest |
| launch wrapper (backend `main.py`) | one coroutine per order | zone check, `assign-drone`, IDLE check, start of the mission task, status PATCHes | one mission per drone at a time |
| `MissionExecutor.execute` | `agent.state.mission_id`, `.status`, `agent.mission_task` | reserve zone, reserve pad, fly, deliver, confirm, fly home, and the failure handler | brings the drone back and cleans up exactly what it owns |
| drone agent | `agent.state`, its streams | MAVSDK commands and waits, telemetry streams, `emergency_rtl` | status follows the drone; the payload report is true |
| drone registry | `_drones`, a connection semaphore | add, remove, disconnect all, shutdown, stale checker | permits are neither lost nor doubled, no connection is forgotten |
| orders service (`crud.py`, `events.py`) | rows of `orders`: status, drone | `create_order`, `update_order` (UPDATE, read, broadcast), `assign_drone_to_order` (conditional UPDATE, read) | DELIVERED only of what was dropped; one drone per order |
| delivery reports (`mission_executor.py`, backend `main.py`) | `_retry_queue`, the item its loop has in hand | `_notify_delivered` (3 attempts, then the queue), `_process_retry_queue` (5 s after a failure), shutdown | no report is lost while the backend runs; each gets through in the end |
| vendor and admin pages (`AppContext.tsx`) | the list of orders a page shows | PATCHes, launches, `order_updated` events | nothing is launched that was never ready |
| authorization, accounts, payments, dronekit patch, simulators | none that others use | request and response | see [Not modelled](#not-modelled) |

The hazards of this code, each at its line and with the properties that watch it,
are listed in `PROJECT.json`.

How the parts interact, for one delivery:

    vendor page --PATCH /api/orders--> orders service --order_updated--> every page
        |
        +--POST /api/launch--> launch wrapper --GET /zone-status, POST /assign-drone--> Fleet AI
                                          | starts a task on the agent        (scheduler, zone, pad,
                                          v                                    trajectory) --> Redis
                                      execute --POST /reserve-landing, /reserve-home-location,
                                          |          /landing/confirm, /on-home-landing--> Fleet AI
                                          |
                                          +--MAVSDK commands--> flight controller --telemetry--> agent.state
                                          |                                                        |
                                          |         Fleet AI's view <--WebSocket, every 2 s--------+
                                          |
                                          +--PATCH En Route, Delivered, Failed--> orders service
                                             (Delivered: 3 attempts, then the retry queue)

The backend's HTTP client gives up after 10 s; the handlers of Fleet AI do not
notice and run on for up to 120 s.

## Modules

| module | models |
|---|---|
| `PermitPool` | abstract: what a semaphore promises. A step gives back at most one permit, by who has it, and then takes at most one; once `doubled` is set, one may be given back that nobody has |
| `LeaseTable` | abstract: what a lock table promises. `Grant` gives a vacant key, `Vacate` empties any set of keys |
| `Dispatch` | launch wrapper, `assign_drone` as to zones, `reserve-landing`, `execute` and its failure handler, telemetry as to IDLE, restarts of Fleet AI; implements `LeaseTable` |
| `HomePads` | the home pad keys, the scans of `assign_drone` and `reserve_home_location`, missions as far as they use pads |
| `OrderStatus` | the rows of orders, the pages, the launch wrapper and the mission as far as they call the orders service, the retry queue, stops of the backend |
| `Traffic` | the collision engine, the table beside it, registration in `assign_drone`, and what the backend then flies |
| `Registry` | `DroneRegistry`, the connections of its agents and the semaphore they share; implements `PermitPool` |
| `Scheduler` | eligibility, score and pick; landings, the cooldown key and its monitor |
| `FleetView` | the backend's broadcaster, Fleet AI's listener, view and hashes, its pusher and clients |
| `Counters` | the daily counters and `_midnight_reset` |
| `LocationCache` | the read-through cache of locations |
| `FleetStore` | composes `Counters` and `LocationCache` in one process, whose restart hits both |
| `Flight` | one drone: mission task, agent, flight controller, parcel, and the handlers that stop a mission |
| `MC*` | instances for TLC: symmetry sets, small geometries and profiles |
| `*Proofs` | theorems: `DispatchProofs`, `HomePadsProofs`, `OrderStatusProofs`, `TrafficProofs`, `RegistryProofs`, `SchedulerProofs`, `FlightProofs`, and `FleetAIProofs` for `FleetView` and `FleetStore` with its parts |

A step of a model is what the code does between two awaits that matter: every
Redis command that reads or writes a lock, a cooldown or a counter is a step of
its own, so GET, EXPIRE, SET NX and DEL of different callers interleave in every
order; in `OrderStatus` the UPDATE, the read and the event to each page are
steps of their own. Where the code does not give up the event loop, there is one
step (`Traffic.Assign`, the bodies of `Registry`).

The modules share no variables. A drone, a mission or a lock appears in several
of them, in each with the part of its state that its properties need.

### Dispatch

- `holder[k]` is the Redis key of zone `k`; `pc[o]` the place of the wrapper or
  the mission of order `o`; `at[o]` the place of the Fleet AI handler that works
  for it (`check`, `refresh`, `claim`, `poll`, then `granted` or `denied`);
  `drone[o]` the drone the handler or mission is about.
- `orphans` are handlers whose caller is gone (client timeout, cancelled mission).
  They run on and take locks. An orphan that already has its answer and cannot
  lose a pad race any more is dropped, and two at the same point for the same
  drone and zone are one.
- `idle` are the drones whose agent is online and `IDLE`, `seen` what Fleet AI's
  cache says of that. `RequestAssign` chooses among `seen`, the second scoring
  (`PadRaceLost`) among all drones, because its snapshot is up to two minutes old.
- `missionId` and `task` are the two fields of the agent that decide who may
  change its status and who can be cancelled.
- `lost` is a history variable: the missions whose lock somebody else removed
  while they were cleared. It lets the invariants say precisely what the locks
  do guarantee, given that `DEL` does not look at the holder.
- `Order` has one element per accepted launch; a drone may be given to several
  (nothing in the code prevents it), so that a mission can also be started on a
  drone that already has one.

`LooksBusy` compares the backend's spelling of a block with the zone names of
`/zone-status`; `KeyOf` is `_normalize_zone`. The two spellings are kept apart,
because that is why the check never waits.

### HomePads

- `lock[p]` and `held` are the key of pad `p`: whom it names, and whether it has
  a TTL.
- `scan[d]` is the `reserve-home-location` handler of a mission, `assign[h]` one
  of the `assign-drone` handlers that run at once. Both walk the pads in the same
  order, once for their own pad and once for a free one, then acquire. `mine`
  records that the pad was found as the drone's own: then nobody looks at the
  answer of the acquire (`landing.py:749`, `main.py:453`).
- `site[d]` is where a drone stands or took off, `zone[d]` the pad its mission was
  granted, 0 for the fallback `(HOME_1, None)`.
- `robbed` is the history of the drones that lost the key they counted on,
  cleared when their mission ends.
- One mission per drone at a time: two at once is the subject of `Dispatch`.

### OrderStatus

- `status[o]` and `drone[o]` are the columns of the row; `was[o]` is the history
  of the status, `overwritten` that of the orders whose drone a PATCH replaced.
- `calls` are the requests under way. A call is `sent` until its handler does the
  UPDATE, `written` until it has read the row back, and then `read`, with the
  pages it still has to tell in `todo`. Handlers are not ordered: one that has
  read an old status can tell a page after one that has read a newer one.
- `role` says who waits: a page, a mission (`_notify_delivered`), the retry loop,
  or nobody (`gone`), either because the caller does not look at the answer (the
  PATCHes En Route and Failed) or because it has timed out or was cancelled. A
  call whose caller is gone runs on. `Fails` is a request that does not arrive or
  a handler that raises, `TimesOut` the caller's 10 s or a broken connection.
- `view[p][o]` is what a page shows. `Click` PATCHes what the buttons offer for
  it; `Launch` needs only that the page shows Ready for Launch, and the backend
  takes it, so that an order can be launched twice. The answer of a launch names
  no drone, and the page stores that too: `NoName` is the `""` it PATCHes.
- `pc[m]`, `try[m]` and `parcel[m]` follow a launch: assigning, flying, the
  attempts of `_notify_delivered`, home, or the failure handler. `parcel` becomes
  `told` when `_notify_delivered` returns, `cut` when it is cancelled before.
- `queue`, `hand` and `asleep` are the retry queue, the item its loop has taken,
  and the 5 s before it puts it back. They are in memory: `BackendStops` moves
  them to the history `forgotten`.

### Traffic

- `segments`, `boxes`, `idMap`, `nextId` are the tables of `CollisionEngine`,
  `active` is `_active_segments` of `traffic.py`. `fallback` says whether the
  `rtree` package is missing; then the engine compares midpoints.
- The ground is two relations on paths: `Meets` (boxes grown by 8 m overlap) and
  `MidNear` (midpoints nearer than 8 m). Heights are numbers, because the
  offsets, the take-off height and the buffer are what the question is about.
- `plan` and `flying` are what the backend was told and flies. It flies at its
  own height: the answer of `assign-drone` has no offset, and `hold` is a TODO.
- `seenIdle` is what the telemetry view shows; an assignment needs it.
- `exposed` is a history: drones whose flight the engine does not know (told to
  loiter, assigned twice, in the air at a restart).

### Registry

- `registry[d]` is the entered agent; an agent is one `MAVSDKDroneAgent` object.
  `held` are the permits of agents that took one, `free` the value of the
  semaphore, which may exceed its start value: `asyncio.Semaphore.release` does
  not raise, so the `except ValueError` around it is never reached.
- A `Handler` is a connect, disconnect or disconnect-all request. `work` is the
  agent it connects, `leaving` those whose `disconnect()` it awaits. Stubs are
  the drones `sim_inject_drone` enters, which have a semaphore of their own.
- `overlapped` is a history of the drones that two operations were about at once:
  what fails then says so. `Pool` maps the registry to `PermitPool`: the owners
  are `held`, and `doubled` is that `overlapped` is not empty.

### Scheduler

- `age[d]` are the ticks since `last_landed_at`, `state[d]` and `ttl[d]` the key
  `drone_state:<d>`, where `IDLE` also stands for no key (the scorer asks for
  COOLDOWN only, and `/drone-metrics` shows no key as IDLE); `monitor` is where
  `_cooldown_monitor` is.
- A request reads its drones one by one (`Read`), where Redis may fail between
  the reads, scores them (`Score`, `Exclude`), picks (`Pick`) and answers, or
  selects a second time on its first snapshot (`Reselect`).
- `Profile` is what the view may say otherwise: distance, battery, deliveries,
  wind and signal. `Exact` is the composite score times both maxima, so that it
  is a whole number, and `Total` what `round(total, 2)` makes of it, in hundredths
  of a point. A wind nobody measured is worth 7 points (`Unknown`); a
  hash always says 0.0, which is worth 15.
- `blind` are drones whose landing a failed read did not show, `flew` those that
  were launched after the snapshot.

### FleetView

- The state of a drone is a number that grows with each change, so that older
  and newer can be told apart. `truth` is the agent's.
- `clients`, `message`, `sending`, `failed` are the backend's broadcaster: it
  sends one snapshot to all and waits for all of them (`gather`).
- `link` is the connection Fleet AI has open, `inbox` what waits in it
  (`Capacity` messages, then `send_text` waits). Other connections are those it
  lost; the backend may not have noticed.
- `current`, `todo`, `writing` are the message being entered, `view`, `silence`,
  `offline` are `_DRONE_STATES`, the age of `_LAST_SEEN` and the marks, `hash` is
  `telemetry:<drone>`; `frontends` and `pushing` are Fleet AI's own clients.

### Counters, LocationCache and FleetStore

- `count[k]` are the counters, `date` the stored date of the last reset, `today`
  the date the task has read, `listed` its `all_keys`, `done` a history of what
  was recorded today. `Abort` is an error or a restart.
- `table` is the version of the locations table, `cached` and `ttl` the copy in
  Redis, `known` the last known list, and per call `fallback` (captured when the
  call begins), `data` and `waited`. A tick is a fraction of the TTL.
- `FleetStore` interleaves the two and lets `ProcessRestarts` hit both. The
  definitions of `Counters` carry its name, and `NoVersion` is the `None` of
  `LocationCache`.

### Flight

- `mode`, `armed`, `air`, `place` are the flight controller's (external: it
  climbs, moves, lands, has failsafes, or is taken over by a pilot); `latch` and
  `parcel` the payload. The modes the program does not set are `pilot` (ALTCTL,
  POSCTL and the others the agent reads as IN_FLIGHT) and `manual` (MANUAL, and
  every mode the agent has no entry for, which it reads as IDLE).
- `status`, `mission`, `armedSeen` are `DroneState.status`, `mission_id` and
  `armed`; the two streams deliver what the controller reports when they run.
- `pc`, `leg`, `try`, `told` are the mission task. A MAVSDK command is carried
  out, refused, or carried out though its answer is lost and it raises.
  `cancelled` is a cancellation the task has not yet received.
- `alert` and `closing` are an obstacle alert, and the disconnection or shutdown,
  each between its awaits; `connect` begins anew with another agent, which calls
  the drone IDLE wherever it is.
- `refused`, `cut`, `diverted`, `stuck` are histories of what may go wrong; each
  property names those that excuse it, and no others.

## Runs

The `orders_*` runs do not check for deadlock (`CHECK_DEADLOCK FALSE`): there all
orders may be served and all clicks spent. All others do. No run that checks
liveness uses symmetry.

| run | instance | checks |
|---|---|---|
| `dispatch_safety` | 2 orders, 2 drones, 1 block, 1 orphan, 1 restart, everything may fail | `TypeOK`, `ClearanceBacked`, `ZoneExclusive`, `LeasesSpec` |
| `dispatch_liveness` | 2 orders, 2 drones, 1 block, 1 orphan, prompt retries | `ReserveLoopEnds`, `LeaksHeal` |
| `pads_safety` | 2 drones, 2 pads, 1 handler, holds expire, calls fail, pads are released | `TypeOK`, `PadBacked` |
| `pads_race` | 2 drones, 2 pads, 2 handlers, 1 restart | `PadsKept` |
| `orders_kitchen` | 1 order from CREATED, 1 page with 3 clicks, 1 launch, 2 attempts, claims for 2 drones, 1 stop, 2 calls at once, failures and cancels | `TypeOK`, `OneClaim`, `LaunchedWasReady`, `DeliveryKept`, `DeliveredIsTrue` |
| `orders_liveness` | 1 order, 1 launch, 1 click of its page, 2 attempts, failures and cancels, 1 stop, 2 calls at once | `DeliveryReported` |
| `traffic` | 3 drones, 3 paths (x meets y meets z), 2 priorities, 3 assignments, 1 restart, both engines | `TypeOK`, `EngineAgrees`, `Separated`, `OffsetsNeverHelp`, `AirborneApart` |
| `registry` | 2 drones, 2 handlers, 1 permit, 3 agents and a stub | `TypeOK`, `NoPermitLost`, `NoOrphan`, `PermitsShared` |
| `scheduler` | 2 drones, 1 request, cooldown 2 ticks, longest rest 3, 3 profiles | `TypeOK`, `CooldownKept`, `CooldownEnds`, `NotDominated` |
| `fleet_view` | 1 drone with 2 states, 2 connections, 1 client, 2 messages per connection, 1 loss | `TypeOK`, `NeverOlder`, `ViewCatchesUp`, `GhostsFade` |
| `fleet_store` | 2 counters, 2 days; 2 callers, 1 edit, to an empty list | `CountersTypeOK`, `OnlyToday`, `KeptToday`, `LocationsFresh` |
| `flight` | 2 attempts to arm; missions, alerts, disconnections, shutdowns and new connections without a bound | `TypeOK`, `AbandonedComesBack`, `ParcelTrue`, `IdleIsDown` |

What they show:

- *Zones and pads.* `ClearanceBacked`, `ZoneExclusive` and `PadBacked` say that a
  foreign DEL, the end of a TTL, a restart and the persistent SET of a landing
  are the only ways to lose a lock: no interleaving of GET, EXPIRE and SET NX
  gives one to two. `PadsKept` removes the last of the four when nothing expires.
- *Orders.* `DeliveryKept` and `DeliveryReported` say that a cancel and a stop of
  the backend are the only two ways to lose a report, `DeliveredIsTrue` that no
  late or repeated call makes a row DELIVERED too early.
- *Traffic.* `EngineAgrees`: replacing a trajectory leaves no box behind.
  `Separated` and `AirborneApart` say exactly how far the engine separates
  flights: not from lower priorities, and not from one that was registered at the
  same reading of the clock. `OffsetsNeverHelp`: with the R-tree the boxes are as
  high as the largest offset, so the offsets never resolve anything.
- *Registry.* `NoPermitLost` holds whatever overlaps; `NoOrphan` holds unless two
  operations on one drone overlap. `PermitsShared` is the refinement of
  `PermitPool`: every step takes and gives back as an owner does, and before
  operations have overlapped none doubles a permit (`CapKept` says what that
  means for their number).
- *Scheduler.* `CooldownKept` holds although the monitor and a restart may erase
  the key, because the landing itself is scored. `CooldownEnds` shows that the
  floor of one second costs at most one tick. `NotDominated` is as strong as the
  rounding lets it be: a drone that is otherwise equal and nearer by less than a
  hundredth of a point (2.4 m if the farthest is 6 km away) may lose by the order of
  the snapshot.
- *FleetView.* `NeverOlder` holds across reconnects because the endpoint waits
  for the hash before it takes the next message, and connects anew only after
  that; `ViewCatchesUp` needs the gather to survive dead clients; `GhostsFade`
  needs the pusher, since nothing announces a removal.
- *FleetStore.* `OnlyToday` and `KeptToday` hold because the date is stored last
  and is the one that was read first.
- *Flight.* See the histories that excuse each property. `IdleIsDown` says which
  steps can offer a drone in the air for orders: the stream while it has not heard
  that the motors are armed, the stream in MANUAL or an unknown mode, and a new
  connection, but no end of a mission, however it comes about. `Launch` asks for
  no more than the status, so such a drone is launched in the air.

Bounds. One block is enough for the zone locks, since keys of different blocks
never meet; two orders and two drones give both conflicts, two drones for one
zone and two missions on one drone. One orphan is enough to have three handlers
on one key. Two pads and two drones make a pad contended. Rows of different
orders never meet, so one order is enough; two calls at once let every pair of
handlers interleave. Three drones on three paths give one flight that meets two
which do not meet each other. One permit and two handlers make the second wait;
the third agent lets a drone have its old and its new one while the other drone
connects. Two drones in the scheduler make the normalisation and the tie-break
matter, two fit profiles and an unfit one too. The two fit ones differ in every
factor and are 0.0025 points apart, so that the rounding makes a tie of them and
the battery decides; with two tiers of rest (6 and 10 points) one drone can be
better than the other and in nothing worse. A second request meets the first
only in the key, which the monitor and the restart change as well, and the proofs
have any number. One drone is
enough for the view, whose entries do not meet; two connections are the old and
the new. Two days are one midnight, before, during or after a reset, and the date of
an older reset is there from the start. The flight run has no bound but the
attempts to arm: nothing in it is counted, so that every mission finds what all
those before it may have left behind (an open latch, a drone away from home). The proofs hold for any number of all of these.

## Fairness

In `Dispatch`, `FairSpec` asks of a handler that somebody waits for that it runs on to its
answer, of a refused mission that it asks again (`while True`), of Redis that it
drops a key when its TTL is over. That answers arrive rather than time out, and
that a poller which finds the key free again and again wins once, is strong
fairness: the event loop does not prefer anybody, and the 10 s timeout does not
hit every answer for ever. `AssignTimesOut` must stop happening at some time:
an endless stream of abandoned assignments could hold a zone against a mission
for ever. Nothing is assumed of a mission in flight, whose MAVSDK waits have no
deadline, of confirms, which may all be lost, or of orphans.

Weak fairness of `LeaseExpires` is more generous than Redis where a mission keeps
renewing a lease by re-entrant calls (`landing.py:114`); `PromptRetries` bounds
that in the liveness run: the key a waiting mission's own drone holds does not
expire between two of its calls.

In `OrderStatus`, `FairSpec` asks of a handler that it runs on, with its caller or
without, and of the mission and the retry loop that they make their calls, as
nothing in them waits for anybody else; a call may still fail or time out
whenever it likes. Strong fairness is asked once: a loop that PATCHes again and
again gets one PATCH executed, since the orders service is not down for ever and
does not fail exactly when it is asked. Nothing is assumed of the mission's
attempts, of users, or of missions in flight.

In `FleetView`, `FairSpec` asks that the tasks which never end go on: the
broadcaster, the listener, the pusher, the reconnect loop; that a dead
connection is noticed by its endpoint, and that time passes. That a client which
does not read makes its send wait only until it reads or its connection is ended
(`Send` or `SendFails`) is the keep-alive of the WebSocket library, outside this
code: without it `ViewCatchesUp` is false, since `gather` waits for the slowest.
Nothing is assumed of changes, of clients that join and leave, or of losses,
whose number is bounded.

## Proofs

TLAPS proves, for any constants that satisfy the named assumptions:

- `DispatchProofs`: `TypeCorrect`, `ClearanceTheorem` (`ClearanceBacked`),
  `ExclusionTheorem` (`ZoneExclusive`) and `Refinement` (`Spec => LeasesSpec`).
  The inductive invariant adds to `ClearanceBacked` that a handler has a caller
  that waits for it (`HandlerHasCaller`) and that whoever has begun has a drone
  (`MissionHasDrone`): without the first a handler's `granted` could be read by
  the wrong stage, without the second `None` could be cleared. The heart is that
  `AcquireStep` writes only a vacant key and that whoever removes one puts the
  missions cleared under it into `lost`.
- `HomePadsProofs`: `TypeCorrect`, `PadTheorem` (`PadBacked`), `KeptTheorem`
  (`PadsKept`) and `HandoverTheorem`. `PadBacked` is inductive together with
  `NothingFoundYet`: a scan that is still looking has not marked anything as its
  own. `PadsKept` follows from `PadBacked` step by step: the key that a landing
  overwrites names the drone that lands, and every other way to lose a key is
  switched off. `HandoverTheorem` switches nothing off: a key goes straight from
  one drone to another only when Fleet AI rebuilds all of them, or when a drone
  lands that had lost the key of its own pad. The runs leave that action property
  to the proof.
- `OrderStatusProofs`: `TypeCorrect`, `KeptTheorem` (`DeliveryKept`),
  `TrueTheorem` (`DeliveredIsTrue`), `ClaimTheorem` (`OneClaim`) and
  `ReadyTheorem` (`LaunchedWasReady`). None of them is inductive: a call under
  way has to be what its caller thinks it is. `CallOK` says so: a mission's call
  is about its order and it is waiting (`Caller`), a call that says DELIVERED is
  about a dropped package, and what a handler has read has been true (`Carries`).
  `OneCallEach` is needed so that an answer ends the only call of its mission,
  `RetryOK` so that what is queued was dropped, `ViewOK` so that what a page
  shows as ready has been ready. The lemmas `RowsGrow` and `MissionsGrow` (a
  history and an order of a mission only grow) carry most of these over a step;
  `QueueStep` follows an item through the queue.
- `TrafficProofs`: `TypeTheorem`, `AgreesTheorem` (`EngineAgrees`),
  `SeparatedTheorem` (`Separated`), `OffsetsTheorem` (`OffsetsNeverHelp`),
  `KnownTheorem` (`KnownFlights`) and `AirborneTheorem` (`AirborneApart`), which
  follows from `Separated`, `OffsetsNeverHelp` and `KnownFlights`: flights that
  meet on the ground and are both at offset 0 are in conflict. `Separated` needs
  `EngineAgrees`, since the search looks at boxes and the property at segments;
  `KnownFlights` needs `PlanOK`, the same for what is planned.
- `RegistryProofs`: `TypeTheorem`, `NoPermitLostTheorem`, `NoOrphanTheorem`,
  `Refinement` (`Spec => PermitsShared`), `CapKeptTheorem` and `LimitTheorem` (no
  more connections than `MAX_CONCURRENT_CONNECTIONS`). How many permits there are
  is not inductive, because it does not say who has them. `Holdings` does: an
  agent belongs to one drone as long as anything refers to it (`OneDrone`), it is
  connected by one handler and takes a permit once (`OnePermit`), two handlers
  are about one drone only if that was noticed (`Noticed`), a handler that nobody
  overlaps is about the agent that is entered (`Entered`), whoever is to give a
  permit back has one (`Accounted`), and `disconnect_all` takes along whoever was
  connected when it began (`Taken`). `PoolKeeps` shows from these that every step
  is one of `PermitPool`, and `PermitsKeep` counts the permits from `PermitPool`
  alone: what is given back was held, or the sum has grown.
- `SchedulerProofs`: `TypeTheorem`, `CooldownTheorem` (`CooldownKept`),
  `CooldownEndsTheorem` (`CooldownEnds`) and `NotDominatedTheorem`
  (`NotDominated`). The invariant follows a candidate from its reading to its
  pick: what a request believes of the landing (`Believed`) is true while the
  drone stays on the ground (`OnGround`), what got points has rested (`Rested`),
  and only what was scored is picked (`Stages`). `NotDominated` needs that the
  maxima exist that the factors are divided by (`Maxima`: whatever the number of
  drones, a drone that is read is the new maximum or leaves the old one), that
  the data of a request stand still once it has picked (`Chosen`, `Changes`), and
  that the exact sum grows with each factor (`ExactGrows`) and that rounding keeps
  the order and what is more than a hundredth apart (`RoundedGrows`).
- `FleetAIProofs`, for the view: `TypeTheorem` and `NeverOlderTheorem`
  (`NeverOlder`). The messages stand in line by age (`InLine`), what was entered
  is before all of them (`Before`), and what is left of the current one is not
  older (`Current`). For the store: `CountersRefinement` (`FleetSpec =>
  CountersSpec`) and `LocationsRefinement` (`FleetSpec => L!Spec`), the
  composition implements its components; `CountersTypeTheorem`,
  `OnlyTodayTheorem`, `KeptTodayTheorem`, and `LocationsTheorem`
  (`LocationsFresh`). The counters need `Dates` (the task's date is never ahead)
  and `Swept` (what is still to be deleted is not of today); the locations the
  ages of every copy on its way (`CopyFresh`, `CallsFresh`).
- `FlightProofs`: `TypeTheorem`, `ComesBackTheorem` (`AbandonedComesBack`),
  `ParcelTheorem` (`ParcelTrue`) and `IdleTheorem` (`IdleIsDown`), from `Settled`
  (what is true of a drone before and after its task), `Grounded` (what a wait
  has seen still holds), `Course` (where the drone is on the way out while nobody
  else commands it) and `Released` (the latch and the parcel at the servo steps).

Only model-checked: the five liveness properties `ReserveLoopEnds`, `LeaksHeal`,
`DeliveryReported`, `ViewCatchesUp` and `GhostsFade`, because fairness and ENABLED
are outside the prover's reach. Every invariant, action property and refinement
that a run checks is proved as well.

## Observed while modelling

What the code does that its documents do not say, and that a property has to
allow for:

1. `release_delivery_lock` deletes a key without looking whose it is, and a
   mission that fails releases its block even if it never had it
   (`landing.py:196`, `mission_executor.py:548`). Two drones are then cleared for
   one block; `lost` in `Dispatch` is the history of it.
2. Nothing marks a drone as taken between the IDLE check and the take-off
   (`main.py:319`, `mission_executor.py:193`); a second launch overwrites
   `agent.mission_task`, and the first mission is out of everybody's reach.
3. A mission that gets no pad flies to `HOME_1`, locked or not
   (`mission_executor.py:402`).
4. A mission that fails on its way home makes a delivered order a failed one
   (`mission_executor.py:552`); a late 'En Route' does the same to any order.
5. The wrapper's zone check compares the backend's spelling of a block with that
   of the lock keys, and never waits (`main.py:297`, `landing.py:96`).
6. A drone that owns two pads can leave a key without TTL on an empty one
   (`landing.py:230`).
7. An obstacle alert during `_notify_delivered` loses the report of a package
   that was dropped (`parcel` = `cut`) and reports the order as failed.
8. Nothing under `src/` calls the assign-drone endpoint of the orders service,
   and a PATCH with a `droneId` ignores what it has claimed, which is why
   `OneClaim` allows for `overwritten`.
9. `/on-home-landing` is declared twice; the router of `landing.py:850` answers,
   and the deregistration in Fleet AI's `main.py` is never reached: a trajectory
   stays until the drone is assigned again or Fleet AI restarts.
10. No altitude offset resolves a conflict with the R-tree (`OffsetsNeverHelp`),
    none is told to the backend, a loiter is told to nobody who acts on it, and the
    rebuild at boot runs before there is a view (`traffic.py:312`).
11. With overlapping operations on one drone `disconnect()` gives back permits
    nobody took, and more connections than the limit may be made
    (`CapKept`, `overlapped`); an agent can stay connected and unknown. A connect
    that fails keeps its gRPC port (`drone_agent.py:198` is only in `disconnect`).
12. A scheduler's second selection may pick a drone that has left since the
    snapshot (`main.py:474`), and a Redis error counts as rest
    (`scheduler.py:159`).
13. `gather` waits for slow clients, although `ws_manager.py:7` says that they
    are removed without blocking; Fleet AI's own fan-out waits for them one by one.
14. A servo error is swallowed (`drone_agent.py:522`), so that an order is reported
    delivered with its parcel aboard (`stuck`); an RTL during a mission that goes
    on (`drone_registry.py:220`) can drop the parcel elsewhere (`diverted`).
15. A second cancellation reaches the failure handler at its RTL
    (`mission_executor.py:534`) and leaves the drone in the air as it was (`cut`).
16. A drone in the air is called IDLE, and may be launched, when the flight mode is
    MANUAL or not in the map (`drone_agent.py:337`, `354`), when the armed stream
    lags (350), and when it is connected (171): `IdleIsDown`.
17. A nearer drone can lose a tie that only `round(total, 2)` makes
    (`scheduler.py:329`, `559`).
18. The waits of `arm_and_takeoff` and `goto_location` have no deadline
    (`drone_agent.py:416`, `435`).

## Not modelled

- `authorization.py` refers to `landing.is_zone_available`, which does not
  exist, and nobody calls it; `receive_override_command` and `_release_home`
  of the executor have no caller; `stale_reservation_cleaner` only logs;
  `poll_drone_status_http` polls an endpoint the backend does not have;
  `assign` is the synchronous predecessor of `assign_async`.
- `auth.py` and `payments.py` are request and response to Cognito and Razorpay,
  without state that the rest depends on. The dronekit patch is a library.
- `detect_conflicts` and the obstacle reports read or log, and change no
  trajectory.

What the models leave out:

- Redis errors inside `acquire_delivery_lock` and the pad scans, other than an
  assignment that raises after it has the zone (`AssignRaises`) and a
  reserve-home call that fails as a whole (`ReserveFails`).
- A `/landing/confirm` that is still running when its caller has given up: the
  DEL happens with the call or not at all.
- The simulation endpoints that set `mission_task` to `None`; of them only
  `sim_inject_drone` is modelled, in `Registry`.
- `boot_pad_reconstruction` is one step, although a drone may move between the
  backend's answer and the SET; the rows of `home_location_reservations` it also
  restores are empty, because nothing in the repository writes them.
- An aborted drone is taken to return to where it last took off in `HomePads`;
  `Flight` lets it come down at home or where it was armed.
- Reserve-home requests whose caller was cancelled die with it in `HomePads`.
- In `OrderStatus`: orders are there from the start (`create_order` is its initial
  state), pages are connected and have loaded their orders; so the list that pages
  load at start is left out, and so are the mobile client and the PATCH `Failed`
  in the wrapper's outer `except`, which nothing after its loop can reach. Whether
  an admin's page disables Cancel depends on its list of drones and is left open.
- In `Traffic` the shear of boxes by the longitude scale and the heights of
  starting points other than the ground, and an age of the snapshot (a trajectory
  is registered for a drone that is idle in the view at that moment).
- In `Scheduler` the rounding of times to whole seconds (ticks are whole), the up
  to 2 s by which the view is older than the backend, and the moment between
  computing the rest of a cooldown and setting its key. A total half way between
  two hundredths goes to the even one; the code's goes where its float lies.
- In `FleetView` a payload that fails validation (it drops the connection, as
  `Drop` does) and messages other than states. In `Registry` the gRPC ports.
- In `Flight` a command is answered before the drone's next launch, missions of
  one drone follow each other (two at once are in `Dispatch`), parcels are put on
  a drone that stands at home with its latch closed, and the online flag is folded
  into the status. A pilot takes over in the air only. An RTL that an old agent
  still waits for when a new one is connected is lost. `stuck` is never reset: a
  servo that failed once excuses what its parcel and latch do later.

## Plan

Done, in this order: `Dispatch` with `LeaseTable`, `HomePads`, `OrderStatus`;
then `Traffic`, `Registry`, `Scheduler`, `FleetView`, `Counters` and
`LocationCache` under `FleetStore`, and `Flight`, with proofs of all of them; the
abstract specifications `LeaseTable` and `PermitPool`. What would come next:

1. Composition of `Dispatch` and `HomePads` on a shared drone state, so that two
   missions on one drone also share its pads, and of `Scheduler` with `Dispatch`,
   whose assignments are the same.
2. The parcel and the report in one module: `Flight.told` is where `OrderStatus`
   begins.
