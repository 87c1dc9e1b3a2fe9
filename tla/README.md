# VEGM: specifications, model checks and proofs

VEGM simulates a floor of electronic gaming machines for an external G2S host.
A supervisor (`cmd/vegm-supervisor`) reads a fleet manifest, writes one
configuration per instance and runs one child process (`cmd/vegm`) per
instance. A child (`runtime/`) keeps a session with the host, answers the
host's messages on its wire plane and is driven by operators through its
control plane.

This directory holds TLA+ modules translated from that code, TLC
configurations that check them on small instances, and proofs checked by
TLAPS. `PROJECT.json` maps every definition to the lines it models.

## 1. Inventory

| Component | State | Operations | What is hard |
|---|---|---|---|
| Supervisor process lifecycle (`server.go`, `instance_actions.go`, `scale_launcher.go`) | `s.cmds`, `s.generated`, child processes | start, stop, restart, start-all, stop-all | requests interleave at every unlock; kill is asynchronous; start-all reads `s.generated` unlocked |
| Restart policy (`restart_policy.go`) | `s.restart` (desired, count, last exit), monitor goroutines | `monitorChild`, `markDesired` | several monitors of one instance; budget across starts and stops; what counts as exited |
| Fleet editing, settings (`fleet_edit.go`, `settings.go`) | manifest file, `s.generated`, configuration files | add, remove, settings | stop and commit of a removal are two critical sections; writes that fail half way |
| Fleet resolution (`fleet/`) | none | resolve, validate, generate | defaults, positions and given ports that collide |
| Session engine (`session_engine.go`, ...) | `SessionState`, `HeartbeatState`, `ConnectionState` | connect, startup exchange, keepAlive loop | one attempt only; interrupts; state shared with three other writers |
| Outbound scheduler (`scheduler.go`) | `schedulerCancel`, `OutboundScheduler` | start, stop, tick | cancel after unlock, `select`, results applied to a state that moved on |
| Manual outbound (`outbound.go`) | the same session fields | send, heartbeat, open-session | acceptance of answers |
| Wire plane (`wire_restore.go`) | `LastError`, floor state, session fields | `handleWire` | `LastError` read after the unlock |
| Control plane (`control_restore.go`, `control_ui.go`) | pack, registration state, allowed hosts, trust mode | overlay, hosts add/remove, audio, injected commands, security mode | trust mode written in two places, one of them unlocked; in-place slice filtering |
| Server lifecycle (`server.go`, `cmd/vegm/main.go`) | listeners, context, `schedulerCancel` | start, two concurrent shutdowns, exit | order of stopping, draining and closing; handlers that wait for a client without a deadline; kill at any point |
| Message pack, overlays (`pack/`) | `s.pack` | validate, merge, apply | changes merged without types, validated as a whole |
| Event log, evidence, index (`logger.go`, `evidence_latest.go`, `storage/`) | JSONL file, payload files, SQLite table | log, query, export, pair | two writes per event, `Close` without the lock, pairing by time, time stamps compared as text |
| Parsing, rendering, certificates, web pages, scripts | none | | string processing and files; no concurrency |

Interactions: the supervisor starts a child on the configuration file that
`fleet` generated and polls the child's control plane over HTTP. Inside a child
the engine goroutine, scheduler goroutines, control handlers and wire handlers
share `Server.state` under `Server.mu`; requests to the host are made without
the lock and their results applied under it.

What makes each component correct, in short: no child is lost, duplicated or
left without a monitor, and the restart budget is a budget; the fleet in
memory, the manifest and the files agree after every success and no two
children are given one wire address; no scheduler goroutine is out of reach of
a stop, and the session state shown is backed by what the host answered; a host
that is not admitted changes nothing, and no overlay locks out the next; what
was answered is in the log, the index never knows more than the log, an answer
shown without a warning is at least of an exchange that was open when the
request was sent, and an interrupted process ends unless a client holds it up.
`PROJECT.json` lists the hazards behind these, line by line.

## 2. Modules

| Module | Models | Composition |
|---|---|---|
| `Supervisor` | process lifecycle, restart policy, the two halves of a removal | requests, monitors and the operating system interleave |
| `Session` | engine, scheduler, manual requests, inbound messages, host | four writers of one session state |
| `Admission` | wire plane admission, control plane, floor state | concurrent wire and control requests |
| `Fleet` | manifest, resolution, generation, edits, settings, supervisor restart | disk and memory, with failing writes |
| `InstanceLifecycle` | what the supervisor promises for one instance, without requests, locks, goroutines or processes | implemented by `Supervisor` (`ImplementsLifecycle`) |
| `Launch` | children that bind their control port, or end because it is taken | extends `Supervisor` |
| `Records` | event log, index, payload files, export, evidence pairing, time windows | the state on disk, no behaviour of its own |
| `Server` | one process from start to exit: listeners, two shutdowns, exchanges, kill and start again | extends `Records` |
| `MC*` | constants for TLC (symmetry sets, instance sets) | extend the module they check |
| `*Proofs`, `SupervisorRefinement` | theorems and lemmas | extend the module they prove about |

A definition named after a function of the code models that function. Some
operators are marked *mutant*: each is the definition after it with a plausible
mistake in it, kept to confirm that a property would notice. They are used by
no specification.

### Supervisor

`generated` is the set of ids of `s.generated`; `cmds`, `restart` are the maps
of the same name (an absent `restart` entry reads as the zero value, so it is
one); `monitors[i]` counts the goroutines running `monitorChild(i)`; `procSt`
and `procOf` are the processes. A request is a record with the instances it
still has to treat: start-all and stop-all walk a set read at the beginning,
one critical section per instance, and `restart` is a stop followed by a start.
`ServeStart` covers `startOne` with its three outcomes (already running,
started, failed). `removeFleetInstance` takes two steps, `ServeRemoveStop` and
`ServeRemoveCommit` (or `ServeEditFails`). `Exited` has the meaning of Windows
(`SignalIsExit`) or of Unix.

Abstracted: the order of the manifest; process logs; reads of the view. A child
started through `go run` is taken for the VEGM itself: killing it would leave
the grandchild alone, which is not modelled. `shutdown` of the supervisor is
never called. A torn read of the `s.generated` slice header in the unlocked
loops of start-all and stop-all is not modelled.

### InstanceLifecycle and the refinement

The abstract specification has, per instance, whether it is wanted, the
automatic restarts left and a child that is absent, running or ended; `asked`
is the set of starts and stops operators are asking for. `Supervisor` refines
it with `wanted` as `restart[i].Desired`, `left` as the unused part of the
budget, `child` as what `processRunning` shows of the tracked command, and
`asked` as the requests in progress. An orphan is invisible in it: what is
promised is what the supervisor shows.

### Launch

Adds the set of processes that hold their control port. Ports are named by
their instance (module `Fleet` has the addresses). A child that finds its port
taken ends like one whose `log.Fatal` ran; a killed process holds its port
until the kill is delivered; an ended one holds none: that is the operating
system's part. `Serves(i)` is the health check of the tracked child.

### Session

`worker[w]` is one run of the scheduler goroutine: about to tick, with a
request in flight, with its result, or in the `select`; its context is live,
being stopped (`StopOutboundScheduler` has unlocked and not yet cancelled, so
the context is live in Go as well) or done. `schedulerCancel` names the worker
the next stop would cancel. A start between the unlock and the cancel makes a
second goroutine with a live context beside the first. A request to the
host is three steps: decided under the lock, answered, applied under the lock.
Answers are the proper ack, a bare `g2sResponse`, anything else, or an error;
`hostOk` says whether the host currently gives proper acks only, and may change
at any time. `engine` walks through connect, startup exchange and keepAlive
loop. `recentAttempt` abstracts the comparison of `LastAttemptAt` with the
retry interval. `ConsecutiveFailures` is saturated at the threshold, the only
value it is compared with.

### Admission

`wire[c]` is a wire request between its decision and its answer, `setter[s]` a
security mode request between its two writes. `SetState` is the `set_state` of
the shipped pack's floor operations. `AllowedHostIDs` is a set: add appends,
remove drops every copy, and only membership is read. `pack` keeps the two
fields that `ApplyOverlay` can change. An overlay has a target and a sequence
of changes; the last `set` of a path counts, other ops and paths are accepted
and do nothing, and an overlay that is refused changes nothing. Malformed
changes and values that do not decode or are not valid are among `Change`. The
rest of the pack never changes, so its validity is not a variable.

### Fleet

`manifest` is the sequence of instances on disk, `generated` is `s.generated`
with its resolved instances and configurations, `file` the configuration files.
`resolveInstance`, `ValidateManifest`, `validateResolvedInstances`,
`GenerateConfigs` and `ValidateConfig` are operators translated from the
functions of these names. `Regenerate` is the common tail of add and remove;
with `WritesFail` it may stop at any file or at the manifest, and a write that
fails leaves its file as it was, cut off, or complete with the error reported
late. `Stop` and `main` end and start the supervisor. An instance carries its
own `g2s_xml.mode`, which no check of `fleet/` looks at and the child's
`LoadConfig` does; an add that gives none gets `lab_legacy_xml`, whatever the
defaults say (`fleet_edit.go:67`). Profiles and groups are merged into
`Defaults`; scheme and path of endpoints are the same for all instances; trust
mode, certificates and storage of the defaults are taken to be valid; fields no
check depends on are left out.

### Records

`events` and `index` are the lines of `events.jsonl` and the rows of
`event_index`; a write through a closed handle is lost without an error, as in
`Log`. An event is told apart by its line: its time stamp is taken before
`l.mu` and need not grow with the lines. `payloads` are the files in
`payloads/` in the order of their modification times, which are taken to
differ. `bundle` is how much of log and payloads the last export saw. A time
of the index is a number of quarters of a second, with the text rule of
RFC3339Nano (trailing zeros dropped, `Z` after the digits) over binary digits;
no handler queries the index, so the windows are operators without a behaviour.
A write that fails although the file is open (a full disk) is left out: `Log`
drops the error and still writes the row, and nothing in the code takes notice.

### Server

`pc` says where `main` and the goroutine that `Start` leaves behind are:
listening, logging, waiting for the context, and the steps of `Shutdown` (stop
the scheduler, close the control listener, wait for its handler, close the wire
listener, wait for its handler, close the index, close the file). Both routines
run `Shutdown`, at the same time, and `main` returning ends the process.
`job` is the exchange each actor is in: handlers of the control plane and of the
wire plane, scheduler goroutines and the session engine, all of them with
messages of the same types. An actor has *begun* (a handler waits for its
client's body, a tick has read `state.Running` and unlocked, the engine renders
its message), captures its request and sends it, gets an answer (captured) or
none, and logs the outcome. A handler may instead refuse what it read, and of
these only a wire message that cannot be parsed is logged; the wire plane logs
no refusal of a host; the engine also fails on a captured answer that is not the
expected ack. A control request may instead start or stop the scheduler or
export. A start makes a new goroutine whatever an earlier one is still doing,
and a tick that has begun sends although its scheduler was stopped. The process
may be killed at any point, between the two writes of `Log` too, and is started
again on the same files.

Assumed: both capture flags on, the SQLite index in use, the scheduler enabled
with a target. The `cancel()` of a stop is taken together with the section of
`s.mu` before it (`Session` has the two apart). A tick's own extra log entry and
the state the exchanges set (`Session`) are left out. The `run` of an event,
which start of the process wrote it, is no field of the code: only properties
read it.

## 3. Runs

| Run | Question | Bounds |
|---|---|---|
| `SupervisorRace` | concurrent requests on two instances: type, what is tracked is wanted, only a removal can lose a child | 2 instances, 3 processes, 2 requests, 1 restart, 1 monitor each |
| `SupervisorBudget` | overlapping monitors, failing starts, the full budget of 3; the supervisor implements `InstanceLifecycle` | 1 instance, 3 processes, 2 requests, 2 monitors |
| `Launch` | a restart racing its predecessor for the port: monitors retire, a wanted instance comes to serve (so none stays wanted without a child, and no ended child stays tracked) | 1 instance, 3 processes, 1 request, 2 restarts, 2 monitors, fair |
| `SupervisorUnix` | violation: an ended child with the Unix meaning of `Exited` | 1 instance, 2 processes, 1 restart, starts that may fail, fair |
| `SessionScheduler` | crossing starts and stops of the scheduler: none is lost to the stop that should reach it, stopped goroutines end; the scheduler opens and heals | 2 workers, threshold 2, fair |
| `SessionAll` | all writers at once: degraded, online and unreachable are backed | engine, 1 worker, 1 manual request, threshold 2 |
| `SessionGeneric` | violation, see below | 1 worker, 1 manual request |
| `Server` | what log, index, payload files and bundle say after shutdowns, kills and restarts; an interrupted process ends unless a client stalls | 1 control and 1 wire handler, 2 scheduler goroutines, engine on, 1 message type, 2 requests or messages in all, 2 starts of the process, fair |
| `AdmissionConcurrent` | overlays, floor state and refusals under concurrent requests | 2 hosts, 2 wire requests, 1 trust mode request, overlays of up to 2 changes |
| `FleetEdit` | adds, removals and restarts: addresses, refusals, who moves, whose child refuses its file | up to 3 instances of 12 forms, among them a port over `MaxPort` and an unknown XML mode |
| `FleetFaults` | any write fails without effect, is cut off or fails late, settings between edits: manifest, memory and files | up to 2 instances of 3 forms, 2 settings bodies and the round trip |
| `FleetControlBinds` | violation, see below | with bind hosts |

Why the bounds are enough to be interesting: with one more process than
instances a restart always finds a slot while the old process is still ending;
two requests reach every gap between two critical sections; two monitors of one
instance arise from a stop and a start within one poll; two workers are a
stopped run and its successor; a threshold of 2 tells the first failure from
the last; two exchanges of one message type are two that overlap and can be
mistaken for each other, a request with an answer and one without, or a request
and a scheduler start, around either shutdown; two scheduler goroutines are a
stopped one in mid-exchange and its successor; two changes are enough
for one to override another; a third process is the restart of a child that
lost its port to the one before; three instances are needed for a removal that moves an instance onto
the address of another. Ports in `Fleet` are small numbers around two bases,
with `MaxPort` in place of 65535.

`Launch` has one instance: with a second one and a bound on the processes, the
other instance's children can hold every slot, and `WantedServes` would fail by
that bound, which the code does not have. That no child of any instance is lost
is a theorem (`LaunchedReached`).

Deadlock is checked everywhere except in `FleetFaults`, where a supervisor that
was stopped cannot come up again on a manifest cut off by a failed write, and
in `Server`, where the process has ended after its last start.

### Fairness

`Launch`, `SupervisorUnix`: monitors (they poll every 2 s), served requests and the
delivery of a kill are weakly fair, and in `Launch` so is a started child on its
way to `net.Listen`; operators and crashes are not.
`Server`: the routines of start and shutdown and, once a message is sent, the
exchange with the host are weakly fair: every outbound client has a timeout.
Nothing is assumed of a handler that waits for its body. Neither `http.Server`
has a `ReadTimeout` (`server.go:200`, `:223`) and `Shutdown` gets
`context.Background()` (`server.go:150`), so a client can hold up both shutdowns
for as long as it likes; `ProcessEnds` is conditional on every client finishing
(`ClientsFinish`). Interrupts, kills and new requests are not fair.
`SessionScheduler`: goroutines, manual requests (they time out) and
the passing of the retry interval are weakly fair. A `select` with both
channels ready picks at random, so returning on a cancelled context is strongly
fair. Nothing is assumed of the host: liveness of the session is conditional on
a host that answers and a scheduler left running.

### Disagreements the violation runs show

- `SupervisorUnix`: `ProcessState.Exited()` is false for a signalled child on
  Unix; such a child stays tracked as running and is never restarted
  (`restart_policy.go:50`, `:84`; `projectplan.md:511`).
- `SessionGeneric`: `allow_generic_ack` in a manual session open takes the
  session online on a bare `g2sResponse` (`outbound.go:98`; `projectplan.md:340`,
  `:783`).
- `FleetControlBinds`: control addresses are compared with the listen host and
  bound to the loopback address (`resolve.go:36`, `generate.go:32`;
  `scale_testing.md:67`).

Further disagreements, met in the code while modelling and checked by no run:
with `RunHeartbeatWhenIdle` the scheduler never opens the session
(`scheduler.go:113`; `VEGM_MVP1_protocol_matrix.md:123`; `SchedulerOpens` fails
under that constant); the allowed list is ignored once the pack registers hosts
(`wire_restore.go:94`; matrix line 84); `deny_all` is not told apart from the
restricted modes (`wire_restore.go:91`; matrix lines 73-76); a refusal of a host
is not logged (`wire_restore.go:41`; matrix line 90); `/control/logs` ignores
the query parameters the README documents and always returns the oldest 200
events (`control_restore.go:73`, `logger.go:243`; `README.md:132`, `:153`).

Behaviour the models show without a document that says otherwise: a removal can
lose a child started in its gap; a failed automatic restart leaves the instance
wanted without a child; settings are lost by the next edit or restart; an edit
whose manifest write is cut off freezes the fleet; a refused removal has
stopped the child; the health view asks the port of the current configuration
without looking at the instance id that answers, so after a removal that moved
ports a neighbour's child answers; a manifest write that reports an error after
all is written refuses an edit that the next restart carries out; an instance
with an unknown `g2s_xml.mode` or a port over 65535 is accepted by the fleet and
refused by its own child at every start; overlays with other ops or paths, or with a
time to live, are acknowledged and do nothing; a scheduler started between a
shutdown's stop and its control drain runs until the process exits; a client
that does not finish its body keeps an interrupted process from ending; two
trust mode requests that cross leave the mode shown and the mode used different
(`control_restore.go:179`); the log of a killed process ends with its scheduler
started; a write to the log that fails goes unnoticed (`logger.go:137`); two
overlapping exchanges of one message type are paired wrongly in the latest
evidence without a warning, an inbound answer of the request's type stands in
where there is no outbound one (`evidence_latest.go:115`), and every exchange of the engine is shown with one,
because its answers are filed under the ack's name (`session_engine.go:123`);
a time bound on a whole second is compared the wrong way round by the index
(its `Query` is not called by the runtime); two exports within one second
overwrite each other (`logger.go:177`). The hazards in `PROJECT.json` record these with the property
that bounds each.

## 4. Proofs

The theorems hold for every value of the constants allowed by the named
assumptions (`SupervisorAssumption`, `SessionAssumption`,
`AdmissionAssumption`, `FleetAssumption`, `XmlAssumption`, `ServerAssumption`),
which only say that constants have their kinds, that the marker values are
distinct from real ones, and, for `Fleet`, that the default host URL is one
`ValidateManifest` accepts (`validate.go:134`), that a fleet may have an instance
and that the modes `LoadConfig` knows are names, the legacy one among them.
Whatever a theorem assumes
beyond that stands in its own `ASSUME`, and is explained below.

**SupervisorProofs.** The inductive invariant is `TypeOK /\ TrackedIsWanted /\
TrackedIsMonitored`. `TrackedIsMonitored` alone is not inductive: a monitor
ends when its instance is not wanted or has no command, so one needs that a
tracked command is wanted; and the restart of a child needs that it belongs to
the instance. From it follow `TypeCorrect`, `TrackedWanted`,
`TrackedMonitored`, and, as action properties, `ReplacedOnce` (no child that
still runs is replaced) and `OrphanedByRemoval`. `NoneOrphaned` proves
`NoOrphan` under the hypothesis that there is one request at a time; with two
it is false, by the gap `OrphanedOnlyByRemoval` describes. It needs
`StoppedForRemoval`: between the two halves of a removal the instance has no
command, because a monitor replaces only a child that is tracked, so nobody but
another request could have started one.

**SupervisorRefinement.** `SupervisorImplements` shows that `Supervisor`
implements `InstanceLifecycle`. The invariant is the one above: an automatic
restart consumes budget only because the monitor that makes it saw a tracked
child that had exited, and a step of a process changes what is shown of at most
one instance because a tracked command belongs to its own instance. There is
one lemma per kind of step: requests, monitors, children. That only a stop or a
removal refills the restart budget is a consequence.

**LaunchProofs.** `LaunchSupervises` shows that `Launch` implements
`Supervisor`: taking the port is a stutter, failing to take it is an exit of
the child. Every theorem of `SupervisorProofs` therefore holds of the
composition, `LaunchedReached` for one: a child that loses the race for its port
is never lost track of while requests come one at a time.

**SessionProofs.** `TypeCorrect` bounds the failure count. `NoneLost` needs
`CancelIsLive`: `schedulerCancel` names exactly the goroutine that no stop has
laid hands on, because a start makes one only while it is nil and a stop takes
both away in one section of the lock. `DegradedFailures` needs that every step
that shows a degraded heartbeat leaves the count at the threshold and that every
step that lowers the count makes the heartbeat healthy, `UnreachableLost` that
every step of the engine towards an exchange after `commsOnLine` has shown the
host connected, and `DropNotEarly` is an action property of the only step that
drops a session. `OnlineAcked` assumes the two options off that let a bare `g2sResponse` pass
(`allow_generic_ack` in a request body and the wrapped acks of the engine); with
the first on, `SessionGeneric` refutes it. It needs `GenericIsHeartbeat`: the
only manual request that still takes such an answer is the heartbeat, which
opens no session.

**AdmissionProofs.** `TypeCorrect`, `RegistrationFollows`, `MachineMatches`
(inductive with the type of the floor state) and the action property
`RefusedChangesNothing`, which rests on `RegistrationFollows`: a registration
state left open by an overlay would admit everybody. `OverlaysPossible` follows from the type of the pack,
which is preserved because what `ApplyOverlay` returns has passed `ParsePack`.

**ServerProofs.** `ServerInv` says, beside the types and the numbering of
exchanges in progress, how far either routine's shutdown has come and therefore
what is closed and who can no longer be in an exchange (`ShutInv`): a control
listener closed before its drain, no control handler after it, no wire handler
once the index is closed, the index closed before the file. `AnsweredLogged`
and `SchedulerNotLate` are action properties of that invariant.
`IndexHasLines` adds that the k-th line of the log carries the number k, so the
rows stay in the order of the lines. `SchedulerTold` speaks of the lines of the
running process, after any number of kills and starts on the same log. It needs
that no line is of a later start (`RunsKnown`), so that a new process begins with
no word of its own, and follows what one appended line does to `StartStands`:
start and stop write theirs in the step that changes `schedulerCancel`.

**EvidenceProofs.** What the payload files say, for any number of exchanges.
`BundlesComplete` rests on `CaptureInv`: no two exchanges share a number
(`OwnNumbers`); how many payloads of an exchange exist follows from the step its
sender is at (`CapturedSoFar`); an exchange that the log calls complete is over
and has exactly two (`CompleteIsOver`); and those of the exchanges in a bundle
were there when it was made (`BundleHolds`). `EvidencePairs` holds for any number
of senders that overlap with messages of the same types, and says what remains
true of the pairing then: an outbound response shown without a warning is of the
request's type and of an exchange that had not been answered when the request was sent. It
rests on `PairInv`: an exchange that is sent has its request captured
(`SentIsCaptured`), and a response comes after the request of its own exchange
(`AnswersFollow`). That the latest payload is the greatest position comes from
the least-number principle. `WindowsSame` compares the text of two times digit
by digit, for all times.

**FleetProofs.** `Committed` (the manifest is typed and, unless it is cut off,
resolves) is inductive because an edit that comes to write the manifest has
resolved it first, whatever the write then does. `SavedResolves` follows.
`MemoryMatches` is an action property: manifest and memory part only in a step
answered with an error, and an edit that succeeds or a start joins them.
`TypeCorrect` includes that the fleet is never empty, because the manifest
written has been validated. `AcknowledgedOnDisk` needs no hypothesis: `Written`
leaves every file of the new fleet with its configuration. The others have the
hypotheses under which the code keeps the property:

- no settings requests (`~EditSettings`), because settings go to memory and the
  file and never to the manifest, past the checks of a resolved fleet:
  `WireUnique` (with `FromManifest`: the fleet in memory was generated from some
  manifest that resolved);
- no failing writes (`~WritesFail`), because a failure half way leaves files
  ahead of the fleet: `RefusedUnchanged`;
- neither: `RestartKeeps` and `OnlyShiftedMove` (with `InSync`: the fleet in
  memory was generated from the manifest on disk, which a late error of
  `writeManifest` undoes; the configuration of an instance that gives its ports
  does not depend on its position), and `GeneratedAccepted`, which names the two
  values that `ValidateManifest` lets pass and a child refuses, a port over
  65535 and an XML mode it does not know, and shows that there is no third.

Every invariant and every action property of the passing runs is stated by a
theorem. Only model-checked are the liveness properties, because the prover has
no support for fairness and `ENABLED`: `MonitorsRetire`, `WantedServes`,
`StoppedWorkerEnds`, `SchedulerHeals`, `SchedulerOpens` and `ProcessEnds`. The
types of `Admission` and `Server`, `RegistrationFollowsMode`, `NoOrphan`
(`NoneOrphaned`, `LaunchedReached`) and the windows for all times
(`WindowsSame`) are proved and have no run.

## 5. Not modelled

XML parsing and rendering, certificate inspection, the web pages and the
scripts have no state worth interleaving. SQLite itself is a library. Of the
event log, filters other than time and the summaries inside a bundle are left
out: they are functions of the events they are given; so are writes that fail on
an open log. The shared backing array
of the allowed-host list, the torn read of `s.generated` and the error body
read after the unlock are data races about which the code guarantees nothing;
the first two are not modelled, the third is, without a property.

## 6. Plan

Done: `Supervisor` with its abstraction `InstanceLifecycle` and the composition
`Launch`; `Session`; `Admission` with overlays; `Fleet`; `Records` and
`Server`; a theorem for every safety property of the passing runs, and the two refinements
(`Supervisor` of `InstanceLifecycle`, `Launch` of `Supervisor`). Left:

1. Weaker hypotheses where the code allows them: `WireUnique` with settings
   requests that leave the addresses alone.
2. Writes of the event log that fail on an open file, and what the index may
   still be trusted with then.
