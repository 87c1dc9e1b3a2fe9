------------------------------- MODULE Fleet -------------------------------
(***************************************************************************)
(* The fleet manifest and what the supervisor derives from it: the         *)
(* resolution of every instance (fleet/resolve.go), its validation         *)
(* (fleet/validate.go), the per-instance configuration files               *)
(* (fleet/generate.go), the edits made through the supervisor's API        *)
(* (cmd/vegm-supervisor/fleet_edit.go, settings.go), and a restart of the  *)
(* supervisor, which reads everything again from disk (main.go).           *)
(*                                                                         *)
(* Each request holds s.mu while it edits, so an edit is one step.  The    *)
(* stop of the child that precedes a removal belongs to module Supervisor. *)
(* Profiles and groups are merged into Defaults: an instance overrides     *)
(* them, and nothing else depends on which layer a value came from.  The   *)
(* scheme and the path of an endpoint are the same for all instances.      *)
(***************************************************************************)
EXTENDS Integers, Sequences, FiniteSetsExt

CONSTANTS
    Ids,            \* instance_ids
    Groups,         \* the groups of the manifest
    Instances,      \* the instances a manifest or an add request may name
    Settings,       \* the bodies of a settings request
    Defaults,       \* defaults of the manifest, its profile merged in
    Loopback,       \* "127.0.0.1"
    XmlModes,       \* the G2S XML modes a child knows
    Legacy,         \* "lab_legacy_xml", the mode when none is named
    MaxPort,        \* 65535, smaller in a run
    MaxInstances,   \* bound on the length of the manifest
    EditSettings,   \* may /api/instance-settings be posted to?
    WritesFail,     \* may a file fail to be written?
    NoFile,         \* a configuration file that does not exist
    Torn            \* a file cut off by a write that failed

VARIABLES
    manifest,       \* the manifest file: the sequence of its instances, or Torn
    generated,      \* s.generated
    file,           \* the configuration files, by instance
    up,             \* the supervisor process is up
    answer          \* how the last request was answered

vars == <<manifest, generated, file, up, answer>>

Names == STRING
Endpoint == [bind : Names, host : Names, port : Int]
Instance == [id : Ids, egm : Names, group : Names, bind : Names, wire : Int,
             control : Int, ep : Endpoint, adv : Names, url : Names,
             xml : Names]
EffectiveInstance == [id : Ids, egm : Names, listen : Names, wire : Int,
                      control : Int, ep : Endpoint, url : Names,
                      xml : Names]
Address == Names \X Int
Config == [id : Ids, listen : Address, control : Address, ep : Endpoint,
           url : Names, xml : Names, engine : BOOLEAN]
GeneratedConfig == [inst : EffectiveInstance, cfg : Config]
SettingsBody == [listen : Names, wire : Int, control : Int, ep : Endpoint,
                 url : Names, xml : Names]

ASSUME FleetAssumption ==
    /\ Instances \subseteq Instance
    /\ Settings \subseteq SettingsBody
    /\ Groups \subseteq Names
    /\ Defaults \in [listen : Names, wireBase : Nat, controlBase : Nat,
                     ep : Endpoint, url : Names \ {"bad"}, xml : Names]
    /\ Loopback \in Names
    /\ MaxPort \in Nat /\ MaxInstances \in Nat \ {0}
    /\ EditSettings \in BOOLEAN /\ WritesFail \in BOOLEAN
    /\ NoFile \notin Config /\ Torn \notin Config /\ NoFile # Torn
    /\ Torn \notin Seq(Instance)

ASSUME XmlAssumption ==
    XmlModes \subseteq Names \ {""} /\ Legacy \in XmlModes

----------------------------------------------------------------------------
(***************************************************************************)
(* Resolution.                                                             *)
(***************************************************************************)

\* The first entry of s that is not empty; empty when all of them are.
FirstNot(empty, s) ==
    LET given == {i \in DOMAIN s : s[i] # empty}
    IN  IF given = {} THEN empty ELSE s[Min(given)]

firstNonEmpty(s) == FirstNot("", s)
firstNonZero(s) == FirstNot(0, s)

mergeEndpoint(base, overlay) ==
    [bind |-> firstNonEmpty(<<overlay.bind, base.bind>>),
     host |-> firstNonEmpty(<<overlay.host, base.host>>),
     port |-> firstNonZero(<<overlay.port, base.port>>)]

\* A mutant of resolveInstance: the position counts where a port was given.
resolveInstanceByPosition(idx, inst) ==
    [id |-> inst.id, egm |-> inst.egm, listen |-> Loopback,
     wire |-> Defaults.wireBase + idx, control |-> Defaults.controlBase + idx,
     ep |-> [bind |-> Loopback, host |-> Loopback,
             port |-> Defaults.wireBase + idx],
     url |-> firstNonEmpty(<<inst.url, Defaults.url>>),
     xml |-> firstNonEmpty(<<inst.xml, Defaults.xml, Legacy>>)]

\* An instance at position idx of the manifest, counted from 0: a port that
\* no layer gives is the base port plus the position.
resolveInstance(idx, inst) ==
    LET merged  == mergeEndpoint(Defaults.ep, inst.ep)
        listen  == firstNonEmpty(<<inst.bind, inst.ep.bind, Defaults.ep.bind,
                                   Defaults.listen, Loopback>>)
        wire    == firstNonZero(<<inst.wire, inst.ep.port, Defaults.ep.port,
                                  Defaults.wireBase + idx>>)
        control == firstNonZero(<<inst.control, Defaults.controlBase + idx>>)
        bind    == firstNonEmpty(<<merged.bind, listen>>)
    IN  [id |-> inst.id, egm |-> inst.egm, listen |-> listen, wire |-> wire,
         control |-> control,
         ep |-> [bind |-> bind,
                 host |-> firstNonEmpty(<<merged.host, inst.adv, bind>>),
                 port |-> firstNonZero(<<merged.port, wire>>)],
         url |-> firstNonEmpty(<<inst.url, Defaults.url>>),
         xml |-> firstNonEmpty(<<inst.xml, Defaults.xml, Legacy>>)]

\* No entry of s has the key of one of the entries D.
Distinct(s, D, Key(_)) ==
    \A i \in D : {j \in DOMAIN s : Key(s[j]) = Key(s[i])} = {i}

\* What ValidateManifest asks of one instance.  It reads neither the XML mode
\* nor the upper end of the wire and control ports.
ValidInstance(inst) ==
    /\ inst.group \in Groups
    /\ inst.wire >= 0 /\ inst.control >= 0
    /\ inst.ep.port \in 0..MaxPort
    /\ inst.url # "bad"

\* A mutant of ValidateManifest: a fleet without instances is accepted.
ValidateManifestAllowsEmpty(m) ==
    /\ \A i \in DOMAIN m : ValidInstance(m[i])
    /\ Distinct(m, DOMAIN m, LAMBDA e : e.id)
    /\ Distinct(m, DOMAIN m, LAMBDA e : e.egm)
    /\ Distinct(m, {i \in DOMAIN m : m[i].wire > 0}, LAMBDA e : e.wire)
    /\ Distinct(m, {i \in DOMAIN m : m[i].control > 0}, LAMBDA e : e.control)

ValidateManifest(m) ==
    /\ m # <<>>
    /\ \A i \in DOMAIN m : ValidInstance(m[i])
    /\ Distinct(m, DOMAIN m, LAMBDA e : e.id)
    /\ Distinct(m, DOMAIN m, LAMBDA e : e.egm)
    /\ Distinct(m, {i \in DOMAIN m : m[i].wire > 0}, LAMBDA e : e.wire)
    /\ Distinct(m, {i \in DOMAIN m : m[i].control > 0}, LAMBDA e : e.control)

Resolved(m) == [i \in DOMAIN m |-> resolveInstance(i - 1, m[i])]

\* A mutant of validateResolvedInstances: only the control
\* endpoints are compared.
validateResolvedLeniently(out) ==
    Distinct(out, DOMAIN out, LAMBDA e : <<e.listen, e.control>>)

validateResolvedInstances(out) ==
    /\ Distinct(out, DOMAIN out, LAMBDA e : <<e.listen, e.wire>>)
    /\ Distinct(out, DOMAIN out, LAMBDA e : <<e.listen, e.control>>)
    /\ Distinct(out, DOMAIN out, LAMBDA e : <<e.ep.host, e.ep.port>>)

ResolveInstances(m) ==
    /\ ValidateManifest(m)
    /\ validateResolvedInstances(Resolved(m))

\* A mutant of ConfigOf: the session engine is always on.
ConfigWithEngine(e) ==
    [id |-> e.id, listen |-> <<e.listen, e.wire>>,
     control |-> <<Loopback, e.control>>,
     ep |-> e.ep, url |-> e.url, xml |-> e.xml, engine |-> TRUE]

\* The configuration of a resolved instance.  The control plane listens on
\* the loopback address whatever the listen host is, and the session engine
\* is switched on by the presence of a host endpoint.
ConfigOf(e) ==
    [id |-> e.id, listen |-> <<e.listen, e.wire>>,
     control |-> <<Loopback, e.control>>,
     ep |-> e.ep, url |-> e.url, xml |-> e.xml, engine |-> e.url # ""]

GenerateConfigs(m) ==
    [i \in DOMAIN m |-> [inst |-> Resolved(m)[i],
                         cfg  |-> ConfigOf(Resolved(m)[i])]]

\* The files after the first n configurations of gen were written.
Written(gen, n) ==
    [id \in Ids |->
        IF \E i \in 1..n : gen[i].inst.id = id
        THEN gen[CHOOSE i \in 1..n : gen[i].inst.id = id].cfg
        ELSE file[id]]

\* runtime.LoadConfig accepts the file: what decides whether a child that is
\* started on it comes up at all.  An empty port or XML mode is defaulted
\* first.  The trust mode, the certificates and the storage are those of the
\* fleet's defaults, taken to be valid ones.
ValidateConfig(c) ==
    /\ firstNonZero(<<c.ep.port, c.listen[2]>>) \in 1..MaxPort
    /\ c.url # "bad"
    /\ firstNonEmpty(<<c.xml, Legacy>>) \in XmlModes
    /\ c.engine => c.url # ""

----------------------------------------------------------------------------
LoadManifest == manifest # Torn /\ ValidateManifest(manifest)

Init ==
    \E inst \in {i \in Instances : ResolveInstances(<<i>>)} :
        /\ manifest = <<inst>>
        /\ generated = GenerateConfigs(<<inst>>)
        /\ file = [id \in Ids |-> IF id = inst.id
                                  THEN GenerateConfigs(<<inst>>)[1].cfg
                                  ELSE NoFile]
        /\ up = TRUE
        /\ answer = "none"

Refuse == answer' = "error" /\ UNCHANGED <<manifest, generated, file, up>>

\* GenerateConfigs stops at the first file it cannot write: those before it
\* are new, the one that failed is as it was, torn, or complete (an error that
\* os.WriteFile reports only when it closes the file).
GenerateStops(m) ==
    LET gen == GenerateConfigs(m) IN
    /\ WritesFail
    /\ \/ \E n \in 0..Len(m) : file' = Written(gen, n)
       \/ \E n \in 1..Len(m) :
             file' = [Written(gen, n - 1) EXCEPT ![m[n].id] = Torn]

\* Mutants of Regenerate: the files are generated before the fleet is
\* validated; the manifest is saved before the fleet is validated; s.generated
\* is not replaced.
RegenerateFirst(m) ==
    /\ file' = Written(GenerateConfigs(m), Len(m))
    /\ up' = up
    /\ IF ResolveInstances(m)
       THEN manifest' = m /\ generated' = GenerateConfigs(m) /\ answer' = "ok"
       ELSE answer' = "error" /\ UNCHANGED <<manifest, generated>>

RegenerateSaves(m) ==
    /\ manifest' = m
    /\ up' = up
    /\ IF ResolveInstances(m)
       THEN /\ file' = Written(GenerateConfigs(m), Len(m))
            /\ generated' = GenerateConfigs(m)
            /\ answer' = "ok"
       ELSE answer' = "error" /\ UNCHANGED <<generated, file>>

RegenerateForgets(m) ==
    /\ ResolveInstances(m)
    /\ file' = Written(GenerateConfigs(m), Len(m))
    /\ manifest' = m
    /\ answer' = "ok"
    /\ UNCHANGED <<generated, up>>

\* validateAndGenerateFleet, writeManifest, and s.generated = generated: the
\* tail of an add and of a remove.  A manifest whose write fails is as it was,
\* torn, or complete.
Regenerate(m) ==
    IF ResolveInstances(m)
    THEN /\ \/ /\ file' = Written(GenerateConfigs(m), Len(m))
               /\ manifest' = m
               /\ generated' = GenerateConfigs(m)
               /\ answer' = "ok"
            \/ /\ GenerateStops(m)
               /\ UNCHANGED <<manifest, generated>>
               /\ answer' = "error"
            \/ /\ WritesFail
               /\ file' = Written(GenerateConfigs(m), Len(m))
               /\ manifest' \in {manifest, Torn, m}
               /\ UNCHANGED generated
               /\ answer' = "error"
         /\ up' = up
    ELSE Refuse

addFleetInstance(inst) ==
    /\ up
    /\ LoadManifest => Len(manifest) < MaxInstances
    /\ IF /\ LoadManifest
          /\ \A i \in DOMAIN manifest :
                manifest[i].id # inst.id /\ manifest[i].egm # inst.egm
          /\ inst.group \in Groups
       THEN Regenerate(Append(manifest, inst))
       ELSE Refuse

\* An added instance that names no XML mode gets the legacy one before the
\* manifest is read: the mode of the fleet's defaults does not reach it.
handleFleetInstancesAdd(in) ==
    addFleetInstance([in EXCEPT !.xml = firstNonEmpty(<<in.xml, Legacy>>)])

\* The manifest without its k-th instance.
Without(m, k) ==
    [i \in 1..(Len(m) - 1) |-> IF i < k THEN m[i] ELSE m[i + 1]]

\* The ids of a manifest that loads are distinct: at most one instance goes.
removeFleetInstance(id) ==
    /\ up
    /\ IF LoadManifest /\ \E k \in DOMAIN manifest : manifest[k].id = id
       THEN \E k \in DOMAIN manifest :
               manifest[k].id = id /\ Regenerate(Without(manifest, k))
       ELSE Refuse

----------------------------------------------------------------------------
(***************************************************************************)
(* Settings of one instance.                                               *)
(***************************************************************************)

\* What a GET of the settings shows, and the UI posts back when saved.
getInstanceSettings(i) ==
    LET e == generated[i].inst
    IN  [listen |-> e.listen, wire |-> e.wire, control |-> e.control,
         ep |-> e.ep, url |-> e.url,
         xml |-> firstNonEmpty(<<generated[i].cfg.xml, Legacy>>)]

\* The entry of s.generated after a settings request: nothing is validated,
\* the control plane moves to the listen host, the session engine stays as it
\* was generated, and the XML mode is replaced in the configuration only.
WithSettings(gen, in) ==
    [inst |-> [gen.inst EXCEPT !.listen = in.listen, !.wire = in.wire,
                               !.control = in.control, !.ep = in.ep,
                               !.url = in.url],
     cfg |-> [gen.cfg EXCEPT !.listen = <<in.listen, in.wire>>,
                             !.control = <<in.listen, in.control>>,
                             !.ep = in.ep, !.url = in.url,
                             !.xml = firstNonEmpty(<<in.xml, Legacy>>)]]

\* A mutant of updateInstanceSettings: the settings are kept in memory only.
updateSettingsInMemory(i, in) ==
    /\ generated' = [generated EXCEPT ![i] = WithSettings(generated[i], in)]
    /\ answer' = "ok"
    /\ UNCHANGED <<manifest, file, up>>

updateInstanceSettings(i, in) ==
    LET gen == WithSettings(generated[i], in) IN
    /\ generated' = [generated EXCEPT ![i] = gen]
    /\ \/ /\ file' = [file EXCEPT ![gen.inst.id] = gen.cfg]
          /\ answer' = "ok"
       \/ /\ WritesFail
          /\ \E f \in {file[gen.inst.id], Torn, gen.cfg} :
                file' = [file EXCEPT ![gen.inst.id] = f]
          /\ answer' = "error"
    /\ UNCHANGED <<manifest, up>>

handleInstanceSettings ==
    /\ up /\ EditSettings
    /\ \E i \in DOMAIN generated :
          \E in \in Settings \cup {getInstanceSettings(i)} :
              updateInstanceSettings(i, in)

----------------------------------------------------------------------------
(***************************************************************************)
(* The supervisor process ends, and is started again on what is on disk.   *)
(***************************************************************************)
Stop ==
    /\ up
    /\ up' = FALSE
    /\ answer' = "none"
    /\ UNCHANGED <<manifest, generated, file>>

\* main exits with log.Fatal on a manifest that does not load or resolve, and
\* on a configuration that cannot be written.
main ==
    /\ ~up
    /\ LoadManifest
    /\ ResolveInstances(manifest)
    /\ \/ /\ file' = Written(GenerateConfigs(manifest), Len(manifest))
          /\ generated' = GenerateConfigs(manifest)
          /\ up' = TRUE
       \/ /\ GenerateStops(manifest)
          /\ UNCHANGED <<generated, up>>
    /\ UNCHANGED <<manifest, answer>>

Next ==
    \/ \E in \in Instances : handleFleetInstancesAdd(in)
    \/ \E id \in Ids : removeFleetInstance(id)
    \/ handleInstanceSettings
    \/ Stop
    \/ main

Spec == Init /\ [][Next]_vars
----------------------------------------------------------------------------
(***************************************************************************)
(* Properties.                                                             *)
(***************************************************************************)

\* The variables keep their types, and the fleet is never empty.
TypeOK ==
    /\ manifest = Torn \/ (manifest \in Seq(Instance) /\ manifest # <<>>)
    /\ generated \in Seq(GeneratedConfig) /\ generated # <<>>
    /\ file \in [Ids -> Config \cup {NoFile, Torn}]
    /\ up \in BOOLEAN
    /\ answer \in {"none", "ok", "error"}

\* A manifest that can be read can be resolved: whatever edits were made and
\* wherever a write failed, the supervisor comes up again on the manifest it
\* saved, unless that very write was cut off.
SavedManifestResolves == manifest # Torn => ResolveInstances(manifest)

\* The manifest can be read and names, in order, the instances the supervisor
\* shows and starts.
SameInstances ==
    /\ manifest # Torn
    /\ Len(generated) = Len(manifest)
    /\ \A i \in DOMAIN manifest : generated[i].inst.id = manifest[i].id

\* The manifest on disk and the fleet in memory come apart only through a
\* request that was answered with an error, and come together again with the
\* next edit that succeeds and with the next start of the supervisor: a failure
\* between writing the configurations, writing the manifest and replacing
\* s.generated never leaves an instance in only one of them for good.
MemoryMatchesManifest ==
    [][/\ SameInstances /\ answer' # "error" => SameInstances'
       /\ ~up /\ up' => SameInstances'
       /\ answer' = "ok" /\ manifest' # manifest => SameInstances']_vars

\* What a request that was not answered with an error newly shows of an
\* instance is in the instance's file, on which its child will be started,
\* even if earlier requests failed half way through their files.
AcknowledgedIsOnDisk ==
    [][answer' # "error" =>
         \A i \in DOMAIN generated' :
            generated'[i] \notin {generated[k] : k \in DOMAIN generated}
            => file'[generated'[i].inst.id] = generated'[i].cfg]_vars

\* No two instances of the fleet listen for the host on one address, or
\* advertise one endpoint.
WireBindsUnique ==
    \A i, j \in DOMAIN generated :
        i # j => /\ generated[i].cfg.listen # generated[j].cfg.listen
                 /\ <<generated[i].cfg.ep.host, generated[i].cfg.ep.port>> #
                    <<generated[j].cfg.ep.host, generated[j].cfg.ep.port>>

\* No two instances listen for control on one address.
ControlBindsUnique ==
    \A i, j \in DOMAIN generated :
        i # j => generated[i].cfg.control # generated[j].cfg.control

\* The port instance i of the manifest is reached on, and its XML mode.
GivenPort(i) ==
    firstNonZero(<<manifest[i].ep.port, Defaults.ep.port, manifest[i].wire,
                   Defaults.wireBase + i - 1>>)
GivenMode(i) == firstNonEmpty(<<manifest[i].xml, Defaults.xml, Legacy>>)

\* A child refuses the configuration generated for it in two cases and no
\* other: validate.go let a port pass that is no port, or an XML mode that the
\* runtime does not know.  The host endpoint of an accepted fleet, the lack of
\* one and the session engine never keep a child from coming up.
GeneratedLoads ==
    manifest # Torn =>
        \A i \in DOMAIN manifest :
            ValidateConfig(generated[i].cfg)
                <=> GivenPort(i) \in 1..MaxPort /\ GivenMode(i) \in XmlModes

\* A refused edit leaves the manifest, the fleet in memory and the files as
\* they were.
RefusedChangesNothing ==
    [][answer' = "error" => UNCHANGED <<manifest, generated, file>>]_vars

\* An edit of one instance moves another one only when the removal of an
\* instance before it changed its position, and one of its ports was not
\* given: the child of any other instance goes on listening where the
\* supervisor looks for it.
OnlyShiftedInstancesMove ==
    [][\A i \in DOMAIN generated, j \in DOMAIN generated' :
          (generated[i].inst.id = generated'[j].inst.id
             /\ generated[i] # generated'[j])
          => /\ j < i
             /\ manifest[i].wire = 0 \/ manifest[i].control = 0]_vars

\* A restart of the supervisor brings up the fleet that was there before.
RestartKeepsFleet == [][~up /\ up' => generated' = generated]_vars
============================================================================
