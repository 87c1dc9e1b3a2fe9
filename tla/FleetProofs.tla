---------------------------- MODULE FleetProofs ----------------------------
(***************************************************************************)
(* Proofs about module Fleet, for every set of instances, every settings   *)
(* request and every write that fails.                                     *)
(*                                                                         *)
(* The first three invariants do not need to know how an instance is       *)
(* resolved: they rest on the order in which an edit validates, writes and *)
(* commits.  The types, the positions and the ports do: the lemmas on      *)
(* FirstNot say which layer of the manifest a value comes from.            *)
(***************************************************************************)
EXTENDS Fleet, SequenceTheorems, TLAPS

\* The manifest, unless torn, is a sequence of instances that resolves.
Committed ==
    /\ manifest # Torn => manifest \in Seq(Instance)
    /\ SavedManifestResolves

----------------------------------------------------------------------------
(***************************************************************************)
(* Resolution: what FirstNot gives.                                        *)
(***************************************************************************)

\* FirstNot picks the first entry that is given.
LEMMA FirstNotIs ==
    ASSUME NEW e, NEW s, DOMAIN s \subseteq Int,
           NEW k \in DOMAIN s, s[k] # e,
           \A j \in DOMAIN s : s[j] # e => k <= j
    PROVE  FirstNot(e, s) = s[k]
<1> DEFINE G == {i \in DOMAIN s : s[i] # e}
<1>1. k \in G /\ \A y \in G : k <= y
  OBVIOUS
<1>2. /\ Min(G) \in G
      /\ \A y \in G : Min(G) <= y
  BY <1>1 DEF Min
<1>3. Min(G) \in Int /\ k \in Int /\ Min(G) <= k /\ k <= Min(G)
  BY <1>1, <1>2
<1>4. Min(G) = k
  BY <1>3
<1> QED
  BY <1>1, <1>4 DEF FirstNot

\* FirstNot of two layers: a port or an endpoint value and its default.
LEMMA FirstOfTwo ==
    ASSUME NEW e, NEW p, NEW q
    PROVE  FirstNot(e, <<p, q>>) =
             IF p # e THEN p ELSE q
<1> DEFINE s == <<p, q>>
<1>1. /\ DOMAIN s = {1, 2} /\ DOMAIN s \subseteq Int
      /\ s[1] = p /\ s[2] = q
  OBVIOUS
<1> HIDE DEF s
<1>2. CASE p # e
  <2>1. s[1] # e /\ \A j \in DOMAIN s : s[j] # e => 1 <= j
    BY <1>1, <1>2
  <2> QED
    BY <1>1, <1>2, <2>1, FirstNotIs DEF s
<1>3. CASE p = e /\ q # e
  <2>1. s[2] # e /\ \A j \in DOMAIN s : s[j] # e => 2 <= j
    BY <1>1, <1>3
  <2> QED
    BY <1>1, <1>3, <2>1, FirstNotIs DEF s
<1>4. CASE p = e /\ q = e
  BY <1>1, <1>4 DEF FirstNot, s
<1> QED
  BY <1>2, <1>3, <1>4

\* Of three layers: the advertised host.
LEMMA FirstOfThree ==
    ASSUME NEW e, NEW p, NEW q, NEW r
    PROVE  FirstNot(e, <<p, q, r>>) =
             IF p # e THEN p ELSE IF q # e THEN q ELSE r
<1> DEFINE s == <<p, q, r>>
<1>1. /\ DOMAIN s = {1, 2, 3} /\ DOMAIN s \subseteq Int
      /\ s[1] = p /\ s[2] = q /\ s[3] = r
  OBVIOUS
<1> HIDE DEF s
<1>2. CASE p # e
  <2>1. s[1] # e /\ \A j \in DOMAIN s : s[j] # e => 1 <= j
    BY <1>1, <1>2
  <2> QED
    BY <1>1, <1>2, <2>1, FirstNotIs DEF s
<1>3. CASE p = e /\ q # e
  <2>1. s[2] # e /\ \A j \in DOMAIN s : s[j] # e => 2 <= j
    BY <1>1, <1>3
  <2> QED
    BY <1>1, <1>3, <2>1, FirstNotIs DEF s
<1>4. CASE p = e /\ q = e /\ r # e
  <2>1. s[3] # e /\ \A j \in DOMAIN s : s[j] # e => 3 <= j
    BY <1>1, <1>4
  <2> QED
    BY <1>1, <1>4, <2>1, FirstNotIs DEF s
<1>5. CASE p = e /\ q = e /\ r = e
  BY <1>1, <1>5 DEF FirstNot, s
<1> QED
  BY <1>2, <1>3, <1>4, <1>5

\* Of four layers: the wire port.
LEMMA FirstOfFour ==
    ASSUME NEW e, NEW p, NEW q, NEW r, NEW t
    PROVE  FirstNot(e, <<p, q, r, t>>) =
             IF p # e THEN p ELSE IF q # e THEN q ELSE IF r # e THEN r ELSE t
<1> DEFINE s == <<p, q, r, t>>
<1>1. /\ DOMAIN s = {1, 2, 3, 4} /\ DOMAIN s \subseteq Int
      /\ s[1] = p /\ s[2] = q /\ s[3] = r /\ s[4] = t
  OBVIOUS
<1> HIDE DEF s
<1>2. CASE p # e
  <2>1. s[1] # e /\ \A j \in DOMAIN s : s[j] # e => 1 <= j
    BY <1>1, <1>2
  <2> QED
    BY <1>1, <1>2, <2>1, FirstNotIs DEF s
<1>3. CASE p = e /\ q # e
  <2>1. s[2] # e /\ \A j \in DOMAIN s : s[j] # e => 2 <= j
    BY <1>1, <1>3
  <2> QED
    BY <1>1, <1>3, <2>1, FirstNotIs DEF s
<1>4. CASE p = e /\ q = e /\ r # e
  <2>1. s[3] # e /\ \A j \in DOMAIN s : s[j] # e => 3 <= j
    BY <1>1, <1>4
  <2> QED
    BY <1>1, <1>4, <2>1, FirstNotIs DEF s
<1>5. CASE p = e /\ q = e /\ r = e /\ t # e
  <2>1. s[4] # e /\ \A j \in DOMAIN s : s[j] # e => 4 <= j
    BY <1>1, <1>5
  <2> QED
    BY <1>1, <1>5, <2>1, FirstNotIs DEF s
<1>6. CASE p = e /\ q = e /\ r = e /\ t = e
  BY <1>1, <1>6 DEF FirstNot, s
<1> QED
  BY <1>2, <1>3, <1>4, <1>5, <1>6

\* Of five layers: the listen host.
LEMMA FirstOfFive ==
    ASSUME NEW e, NEW p, NEW q, NEW r, NEW t, NEW u
    PROVE  FirstNot(e, <<p, q, r, t, u>>) =
             IF p # e THEN p ELSE IF q # e THEN q
             ELSE IF r # e THEN r ELSE IF t # e THEN t ELSE u
<1> DEFINE s == <<p, q, r, t, u>>
<1>1. /\ DOMAIN s = {1, 2, 3, 4, 5} /\ DOMAIN s \subseteq Int
      /\ s[1] = p /\ s[2] = q /\ s[3] = r /\ s[4] = t /\ s[5] = u
  OBVIOUS
<1> HIDE DEF s
<1>2. CASE p # e
  <2>1. s[1] # e /\ \A j \in DOMAIN s : s[j] # e => 1 <= j
    BY <1>1, <1>2
  <2> QED
    BY <1>1, <1>2, <2>1, FirstNotIs DEF s
<1>3. CASE p = e /\ q # e
  <2>1. s[2] # e /\ \A j \in DOMAIN s : s[j] # e => 2 <= j
    BY <1>1, <1>3
  <2> QED
    BY <1>1, <1>3, <2>1, FirstNotIs DEF s
<1>4. CASE p = e /\ q = e /\ r # e
  <2>1. s[3] # e /\ \A j \in DOMAIN s : s[j] # e => 3 <= j
    BY <1>1, <1>4
  <2> QED
    BY <1>1, <1>4, <2>1, FirstNotIs DEF s
<1>5. CASE p = e /\ q = e /\ r = e /\ t # e
  <2>1. s[4] # e /\ \A j \in DOMAIN s : s[j] # e => 4 <= j
    BY <1>1, <1>5
  <2> QED
    BY <1>1, <1>5, <2>1, FirstNotIs DEF s
<1>6. CASE p = e /\ q = e /\ r = e /\ t = e /\ u # e
  <2>1. s[5] # e /\ \A j \in DOMAIN s : s[j] # e => 5 <= j
    BY <1>1, <1>6
  <2> QED
    BY <1>1, <1>6, <2>1, FirstNotIs DEF s
<1>7. CASE p = e /\ q = e /\ r = e /\ t = e /\ u = e
  BY <1>1, <1>7 DEF FirstNot, s
<1> QED
  BY <1>2, <1>3, <1>4, <1>5, <1>6, <1>7

\* firstNonEmpty gives one of the names it is called with.
LEMMA NonEmptyOfTwo ==
    ASSUME NEW p, NEW q
    PROVE  firstNonEmpty(<<p, q>>) \in {p, q}
<1>1. \A e : FirstNot(e, <<p, q>>) \in {p, q}
  BY FirstOfTwo
<1> QED
  BY <1>1, Zenon DEF firstNonEmpty

\* Of three names.
LEMMA NonEmptyOfThree ==
    ASSUME NEW p, NEW q, NEW r
    PROVE  firstNonEmpty(<<p, q, r>>) \in {p, q, r}
<1>1. \A e : FirstNot(e, <<p, q, r>>) \in {p, q, r}
  BY FirstOfThree
<1> QED
  BY <1>1, Zenon DEF firstNonEmpty

\* Of five names.
LEMMA NonEmptyOfFive ==
    ASSUME NEW p, NEW q, NEW r, NEW t, NEW u
    PROVE  firstNonEmpty(<<p, q, r, t, u>>) \in {p, q, r, t, u}
<1>1. \A e : FirstNot(e, <<p, q, r, t, u>>) \in {p, q, r, t, u}
  BY FirstOfFive
<1> QED
  BY <1>1, Zenon DEF firstNonEmpty

----------------------------------------------------------------------------
\* Generation keeps the number and the order of the instances.
LEMMA GenerateFacts ==
    ASSUME NEW m \in Seq(Instance)
    PROVE  /\ Len(GenerateConfigs(m)) = Len(m)
           /\ DOMAIN GenerateConfigs(m) = DOMAIN m
           /\ \A i \in DOMAIN m : /\ GenerateConfigs(m)[i].inst.id = m[i].id
                                  /\ GenerateConfigs(m)[i].inst = Resolved(m)[i]
                                  /\ GenerateConfigs(m)[i].cfg = ConfigOf(Resolved(m)[i])
<1>1. DOMAIN m = 1..Len(m) /\ Len(m) \in Nat
  OBVIOUS
<1>2. DOMAIN GenerateConfigs(m) = 1..Len(m)
  BY <1>1 DEF GenerateConfigs
<1>3. Len(GenerateConfigs(m)) = Len(m)
  BY <1>1, <1>2 DEF GenerateConfigs
<1>4. ASSUME NEW i \in DOMAIN m
      PROVE  Resolved(m)[i].id = m[i].id
  BY <1>4 DEF Resolved, resolveInstance
<1> QED
  BY <1>1, <1>2, <1>3, <1>4 DEF GenerateConfigs

\* What is left of a manifest after a removal is a manifest.
LEMMA RemovalTyped ==
    ASSUME NEW m \in Seq(Instance), NEW k \in DOMAIN m
    PROVE  Without(m, k) \in Seq(Instance)
<1>1. Len(m) - 1 \in Nat /\ DOMAIN m = 1..Len(m)
  OBVIOUS
<1>2. \A i \in 1..(Len(m) - 1) : (IF i < k THEN m[i] ELSE m[i + 1]) \in Instance
  BY <1>1
<1> QED
  BY <1>1, <1>2 DEF Without

\* The legacy XML mode is a name, and not the empty one.
LEMMA LegacyName == Legacy \in Names /\ Legacy # ""
  BY XmlAssumption

\* An add request appends an instance.
LEMMA AddRequest ==
    ASSUME NEW in \in Instances, handleFleetInstancesAdd(in)
    PROVE  \E inst \in Instance : addFleetInstance(inst)
<1>1. in \in Instance /\ in.xml \in Names /\ Legacy \in Names
  BY FleetAssumption, LegacyName DEF Instance
<1>2. firstNonEmpty(<<in.xml, Legacy>>) \in Names
  BY <1>1, NonEmptyOfTwo
<1>3. [in EXCEPT !.xml = firstNonEmpty(<<in.xml, Legacy>>)] \in Instance
  BY <1>1, <1>2 DEF Instance
<1> QED
  BY <1>3 DEF handleFleetInstancesAdd

\* An edit that reaches Regenerate commits a manifest that resolves together
\* with the fleet generated from it; when a write fails, the manifest alone or
\* neither.
LEMMA RegenerateKinds ==
    ASSUME NEW m \in Seq(Instance), Regenerate(m)
    PROVE  \/ /\ ResolveInstances(m)
              /\ manifest' = m /\ generated' = GenerateConfigs(m)
           \/ /\ WritesFail /\ answer' = "error" /\ up' = up
              /\ manifest' = Torn /\ generated' = generated
           \/ /\ WritesFail /\ answer' = "error" /\ up' = up
              /\ ResolveInstances(m)
              /\ manifest' = m /\ generated' = generated
           \/ manifest' = manifest /\ generated' = generated /\ up' = up
  BY DEF Regenerate, Refuse, GenerateStops

\* Every step commits both, the manifest alone when its write fails late,
\* neither, or only changes the settings of an instance in memory.
LEMMA StepKinds ==
    ASSUME Committed, [Next]_vars
    PROVE  \/ \E m \in Seq(Instance) :
                /\ ResolveInstances(m)
                /\ manifest' = m /\ generated' = GenerateConfigs(m)
           \/ /\ WritesFail /\ answer' = "error" /\ up' = up
              /\ manifest' = Torn /\ generated' = generated
           \/ \E m \in Seq(Instance) :
                /\ WritesFail /\ answer' = "error" /\ up' = up
                /\ ResolveInstances(m)
                /\ manifest' = m /\ generated' = generated
           \/ manifest' = manifest /\ generated' = generated /\ (up' => up)
           \/ /\ EditSettings /\ manifest' = manifest /\ up' = up
              /\ \E i \in DOMAIN generated :
                    \E in \in Settings \cup {getInstanceSettings(i)} :
                        generated' = [generated EXCEPT ![i] =
                                        WithSettings(generated[i], in)]
<1>1. ASSUME NEW inst \in Instance, addFleetInstance(inst)
      PROVE  \/ \E m \in Seq(Instance) : Regenerate(m)
             \/ Refuse
  <2>1. CASE LoadManifest
    <3>1. Append(manifest, inst) \in Seq(Instance)
      BY <1>1, <2>1 DEF Committed, LoadManifest
    <3> QED
      BY <1>1, <3>1 DEF addFleetInstance
  <2>2. CASE ~LoadManifest
    BY <1>1, <2>2 DEF addFleetInstance
  <2> QED
    BY <2>1, <2>2
<1>2. ASSUME NEW id \in Ids, removeFleetInstance(id)
      PROVE  \/ \E m \in Seq(Instance) : Regenerate(m)
             \/ Refuse
  <2>1. CASE LoadManifest /\ \E k \in DOMAIN manifest : manifest[k].id = id
    <3>1. PICK k \in DOMAIN manifest : Regenerate(Without(manifest, k))
      BY <1>2, <2>1 DEF removeFleetInstance
    <3>2. Without(manifest, k) \in Seq(Instance)
      BY <2>1, RemovalTyped DEF Committed, LoadManifest
    <3> QED
      BY <3>1, <3>2
  <2>2. CASE ~(LoadManifest /\ \E k \in DOMAIN manifest : manifest[k].id = id)
    BY <1>2, <2>2 DEF removeFleetInstance
  <2> QED
    BY <2>1, <2>2
<1>3. ASSUME handleInstanceSettings
      PROVE  /\ EditSettings /\ manifest' = manifest /\ up' = up
             /\ \E i \in DOMAIN generated :
                   \E in \in Settings \cup {getInstanceSettings(i)} :
                       generated' = [generated EXCEPT ![i] =
                                       WithSettings(generated[i], in)]
  BY <1>3 DEF handleInstanceSettings, updateInstanceSettings
<1>4. ASSUME Stop
      PROVE  manifest' = manifest /\ generated' = generated /\ (up' => up)
  BY <1>4 DEF Stop
<1>5. ASSUME main
      PROVE  \/ /\ manifest \in Seq(Instance) /\ ResolveInstances(manifest)
                /\ manifest' = manifest /\ generated' = GenerateConfigs(manifest)
             \/ manifest' = manifest /\ generated' = generated /\ (up' => up)
  BY <1>5 DEF main, LoadManifest, Committed
<1>6. ASSUME UNCHANGED vars
      PROVE  manifest' = manifest /\ generated' = generated /\ (up' => up)
  BY <1>6 DEF vars
<1>7. ASSUME Refuse
      PROVE  manifest' = manifest /\ generated' = generated /\ (up' => up)
  BY <1>7 DEF Refuse
<1> QED
  BY <1>1, <1>2, <1>3, <1>4, <1>5, <1>6, <1>7, AddRequest, RegenerateKinds DEF Next

\* What the first manifest gives.
LEMMA InitCommitted ==
    Init => /\ Committed
            /\ \E m \in Seq(Instance) : /\ ResolveInstances(m)
                                         /\ generated = GenerateConfigs(m)
<1> SUFFICES ASSUME Init
             PROVE  /\ Committed
                    /\ \E m \in Seq(Instance) :
                          ResolveInstances(m) /\ generated = GenerateConfigs(m)
  OBVIOUS
<1>1. PICK inst \in Instance : /\ ResolveInstances(<<inst>>)
                               /\ manifest = <<inst>>
                               /\ generated = GenerateConfigs(<<inst>>)
  BY FleetAssumption DEF Init
<1>2. <<inst>> \in Seq(Instance)
  OBVIOUS
<1> QED
  BY <1>1, <1>2, FleetAssumption DEF Committed, SavedManifestResolves

\* The invariant is inductive.
LEMMA CommittedStep ==
    ASSUME Committed, [Next]_vars
    PROVE  Committed'
  BY StepKinds DEF Committed, SavedManifestResolves

----------------------------------------------------------------------------
\* SavedManifestResolves holds for every set of instances and settings and
\* every write that fails: addFleetInstance, removeFleetInstance and main
\* never leave a readable manifest behind that the next main rejects.
THEOREM SavedResolves == Spec => []SavedManifestResolves
<1>1. Init => Committed
  BY InitCommitted
<1>2. Committed /\ [Next]_vars => Committed'
  BY CommittedStep
<1>3. Committed => SavedManifestResolves
  BY DEF Committed
<1> QED
  BY <1>1, <1>2, <1>3, PTL DEF Spec

\* A fleet generated from the manifest names its instances.
LEMMA GeneratedSame ==
    ASSUME NEW m \in Seq(Instance), manifest' = m, generated' = GenerateConfigs(m)
    PROVE  SameInstances'
  BY GenerateFacts, FleetAssumption DEF SameInstances

\* Changing the settings of an instance keeps the ids and their order.
LEMMA SettingsKeepIds ==
    ASSUME SameInstances, NEW i \in DOMAIN generated, NEW in,
           generated' = [generated EXCEPT ![i] = WithSettings(generated[i], in)],
           manifest' = manifest
    PROVE  SameInstances'
  BY DEF SameInstances, WithSettings

\* MemoryMatchesManifest holds for every set of instances and settings and
\* every write that fails: addFleetInstance, removeFleetInstance and main
\* replace the manifest and s.generated together, and what a failed
\* writeManifest separates, the next edit or the next start joins.
THEOREM MemoryMatches == Spec => MemoryMatchesManifest
<1>1. Init => Committed
  BY InitCommitted
<1>2. Committed /\ [Next]_vars => Committed'
  BY CommittedStep
<1>3. Committed /\ [Next]_vars
        => [/\ SameInstances /\ answer' # "error" => SameInstances'
            /\ ~up /\ up' => SameInstances'
            /\ answer' = "ok" /\ manifest' # manifest => SameInstances']_vars
  BY StepKinds, GeneratedSame, SettingsKeepIds DEF SameInstances
<1> QED
  BY <1>1, <1>2, <1>3, PTL DEF Spec, MemoryMatchesManifest

----------------------------------------------------------------------------
\* As long as no settings are posted, the fleet in memory was generated from
\* some manifest that resolved.
FromManifest ==
    \E m \in Seq(Instance) : ResolveInstances(m) /\ generated = GenerateConfigs(m)

\* What the validation of the resolved instances says of two of them.
LEMMA ResolvedDistinct ==
    ASSUME NEW m \in Seq(Instance), ResolveInstances(m),
           NEW i \in DOMAIN m, NEW j \in DOMAIN m, i # j
    PROVE  /\ <<Resolved(m)[i].listen, Resolved(m)[i].wire>> #
              <<Resolved(m)[j].listen, Resolved(m)[j].wire>>
           /\ <<Resolved(m)[i].ep.host, Resolved(m)[i].ep.port>> #
              <<Resolved(m)[j].ep.host, Resolved(m)[j].ep.port>>
<1> DEFINE r == Resolved(m)
<1>1. DOMAIN r = DOMAIN m
  BY DEF Resolved
<1>2. {k \in DOMAIN r : <<r[k].listen, r[k].wire>> = <<r[i].listen, r[i].wire>>} = {i}
  BY <1>1 DEF ResolveInstances, validateResolvedInstances, Distinct
<1>3. {k \in DOMAIN r : <<r[k].ep.host, r[k].ep.port>> = <<r[i].ep.host, r[i].ep.port>>} = {i}
  BY <1>1 DEF ResolveInstances, validateResolvedInstances, Distinct
<1> QED
  BY <1>1, <1>2, <1>3

\* WireBindsUnique holds for every fleet as long as no settings are posted:
\* the addresses the children bind are the ones the resolution compared.
THEOREM WireUnique ==
    ASSUME ~EditSettings
    PROVE  Spec => []WireBindsUnique
<1>1. Init => Committed /\ FromManifest
  BY InitCommitted DEF FromManifest
<1>2. Committed /\ FromManifest /\ [Next]_vars => Committed' /\ FromManifest'
  BY CommittedStep, StepKinds DEF FromManifest
<1>3. FromManifest => WireBindsUnique
  <2> SUFFICES ASSUME FromManifest,
                      NEW i \in DOMAIN generated, NEW j \in DOMAIN generated,
                      i # j
               PROVE  /\ generated[i].cfg.listen # generated[j].cfg.listen
                      /\ <<generated[i].cfg.ep.host, generated[i].cfg.ep.port>> #
                         <<generated[j].cfg.ep.host, generated[j].cfg.ep.port>>
    BY DEF WireBindsUnique
  <2>1. PICK m \in Seq(Instance) : /\ ResolveInstances(m)
                                    /\ generated = GenerateConfigs(m)
    BY DEF FromManifest
  <2>2. i \in DOMAIN m /\ j \in DOMAIN m
    BY <2>1, GenerateFacts
  <2>3. /\ generated[i].cfg = ConfigOf(Resolved(m)[i])
        /\ generated[j].cfg = ConfigOf(Resolved(m)[j])
    BY <2>1, <2>2, GenerateFacts
  <2>4. \A e : /\ ConfigOf(e).listen = <<e.listen, e.wire>>
               /\ ConfigOf(e).ep = e.ep
    BY DEF ConfigOf
  <2> DEFINE ei == Resolved(m)[i]
             ej == Resolved(m)[j]
  <2>5. /\ <<ei.listen, ei.wire>> # <<ej.listen, ej.wire>>
        /\ <<ei.ep.host, ei.ep.port>> # <<ej.ep.host, ej.ep.port>>
    BY <2>1, <2>2, ResolvedDistinct
  <2>6. /\ generated[i].cfg.listen = <<ei.listen, ei.wire>>
        /\ generated[j].cfg.listen = <<ej.listen, ej.wire>>
        /\ generated[i].cfg.ep = ei.ep /\ generated[j].cfg.ep = ej.ep
    BY <2>3, <2>4
  <2> HIDE DEF ei, ej
  <2> QED
    BY <2>5, <2>6, Zenon
<1> QED
  BY <1>1, <1>2, <1>3, PTL DEF Spec

----------------------------------------------------------------------------
(***************************************************************************)
(* Types.                                                                  *)
(***************************************************************************)

\* A resolved instance has its type at every position of the manifest.
LEMMA ResolveTyped ==
    ASSUME NEW inst \in Instance, NEW idx \in Int
    PROVE  resolveInstance(idx, inst) \in EffectiveInstance
<1>0. Legacy \in Names
  BY LegacyName
<1>1. /\ Defaults.listen \in Names /\ Defaults.wireBase \in Int
      /\ Defaults.controlBase \in Int /\ Defaults.ep \in Endpoint
      /\ Defaults.url \in Names /\ Defaults.xml \in Names
      /\ Loopback \in Names /\ Legacy \in Names
  BY <1>0, FleetAssumption
<1>2. /\ inst.id \in Ids /\ inst.egm \in Names /\ inst.bind \in Names
      /\ inst.wire \in Int /\ inst.control \in Int /\ inst.ep \in Endpoint
      /\ inst.adv \in Names /\ inst.url \in Names /\ inst.xml \in Names
  BY <1>1 DEF Instance
<1> DEFINE merged  == mergeEndpoint(Defaults.ep, inst.ep)
           listen  == firstNonEmpty(<<inst.bind, inst.ep.bind, Defaults.ep.bind,
                                      Defaults.listen, Loopback>>)
           wire    == firstNonZero(<<inst.wire, inst.ep.port, Defaults.ep.port,
                                     Defaults.wireBase + idx>>)
           control == firstNonZero(<<inst.control, Defaults.controlBase + idx>>)
           bind    == firstNonEmpty(<<merged.bind, listen>>)
           host    == firstNonEmpty(<<merged.host, inst.adv, bind>>)
           port    == firstNonZero(<<merged.port, wire>>)
           url     == firstNonEmpty(<<inst.url, Defaults.url>>)
           xml     == firstNonEmpty(<<inst.xml, Defaults.xml, Legacy>>)
<1>3. /\ inst.ep.bind \in Names /\ inst.ep.host \in Names /\ inst.ep.port \in Int
      /\ Defaults.ep.bind \in Names /\ Defaults.ep.host \in Names
      /\ Defaults.ep.port \in Int
  BY <1>1, <1>2 DEF Endpoint
<1>4. merged.bind \in Names /\ merged.host \in Names /\ merged.port \in Int
  BY <1>3, FirstOfTwo, NonEmptyOfTwo DEF mergeEndpoint, firstNonZero
<1>5. listen \in Names
  BY <1>1, <1>2, <1>3, NonEmptyOfFive
<1>6. wire \in Int
  BY <1>1, <1>2, <1>3, FirstOfFour DEF firstNonZero
<1>7. control \in Int
  BY <1>1, <1>2, FirstOfTwo DEF firstNonZero
<1> HIDE DEF merged, listen, wire
<1>8. bind \in Names
  BY <1>4, <1>5, NonEmptyOfTwo
<1>9. port \in Int
  BY <1>4, <1>6, FirstOfTwo DEF firstNonZero
<1>10. url \in Names /\ xml \in Names
  <2>1. url \in {inst.url, Defaults.url}
    BY NonEmptyOfTwo
  <2>2. xml \in {inst.xml, Defaults.xml, Legacy}
    BY NonEmptyOfThree
  <2> QED
    BY <1>1, <1>2, <2>1, <2>2
<1> HIDE DEF bind
<1>11. host \in Names
  BY <1>2, <1>4, <1>8, NonEmptyOfThree
<1> HIDE DEF host, port, url, xml, control
<1>12. [bind |-> bind, host |-> host, port |-> port] \in Endpoint
  BY <1>8, <1>9, <1>11 DEF Endpoint
<1>13. resolveInstance(idx, inst) =
         [id |-> inst.id, egm |-> inst.egm, listen |-> listen, wire |-> wire,
          control |-> control, ep |-> [bind |-> bind, host |-> host, port |-> port],
          url |-> url, xml |-> xml]
  BY DEF resolveInstance, merged, listen, wire, control, bind, host, port, url, xml
<1> QED
  BY <1>2, <1>5, <1>6, <1>7, <1>10, <1>12, <1>13 DEF EffectiveInstance

\* So does the configuration of a resolved instance.
LEMMA ConfigTyped ==
    ASSUME NEW e \in EffectiveInstance
    PROVE  ConfigOf(e) \in Config
  BY FleetAssumption DEF EffectiveInstance, Config, ConfigOf, Address

\* And all that is generated from a manifest.
LEMMA GenerateTyped ==
    ASSUME NEW m \in Seq(Instance)
    PROVE  GenerateConfigs(m) \in Seq(GeneratedConfig)
<1>1. DOMAIN m = 1..Len(m) /\ Len(m) \in Nat
  OBVIOUS
<1>2. ASSUME NEW i \in 1..Len(m)
      PROVE  [inst |-> Resolved(m)[i], cfg |-> ConfigOf(Resolved(m)[i])]
               \in GeneratedConfig
  <2>1. Resolved(m)[i] = resolveInstance(i - 1, m[i])
    BY <1>1 DEF Resolved
  <2>2. Resolved(m)[i] \in EffectiveInstance
    BY <1>1, <2>1, ResolveTyped
  <2> QED
    BY <2>2, ConfigTyped DEF GeneratedConfig
<1> QED
  BY <1>1, <1>2 DEF GenerateConfigs

\* The files after writing some of them.
LEMMA WrittenTyped ==
    ASSUME TypeOK, NEW gen \in Seq(GeneratedConfig), NEW n \in 0..Len(gen)
    PROVE  Written(gen, n) \in [Ids -> Config \cup {NoFile, Torn}]
<1>1. ASSUME NEW id \in Ids, \E i \in 1..n : gen[i].inst.id = id
      PROVE  gen[CHOOSE i \in 1..n : gen[i].inst.id = id].cfg \in Config
  <2>1. (CHOOSE i \in 1..n : gen[i].inst.id = id) \in 1..n
    BY <1>1
  <2>2. \A i \in 1..n : gen[i] \in GeneratedConfig
    OBVIOUS
  <2> QED
    BY <2>1, <2>2 DEF GeneratedConfig
<1> QED
  BY <1>1 DEF Written, TypeOK

Files == [Ids -> Config \cup {NoFile, Torn}]

\* A manifest that resolves is not empty, and neither is what it generates.
LEMMA GenerateNonEmpty ==
    ASSUME NEW m \in Seq(Instance), ResolveInstances(m)
    PROVE  /\ m # <<>> /\ Len(m) \in Nat \ {0}
           /\ GenerateConfigs(m) # <<>>
<1>1. m # <<>>
  BY DEF ResolveInstances, ValidateManifest
<1> QED
  BY <1>1, GenerateFacts, GenerateTyped

\* The files when the writing of a fleet stopped half way.
LEMMA StopsTyped ==
    ASSUME TypeOK, NEW m \in Seq(Instance), GenerateStops(m)
    PROVE  file' \in Files
<1>1. ASSUME NEW n \in 0..Len(m)
      PROVE  Written(GenerateConfigs(m), n) \in Files
  <2>1. n \in 0..Len(GenerateConfigs(m))
    BY GenerateFacts
  <2> QED
    BY <2>1, GenerateTyped, WrittenTyped DEF Files
<1>2. \A n \in 1..Len(m) : n - 1 \in 0..Len(m)
  OBVIOUS
<1> QED
  BY <1>1, <1>2 DEF GenerateStops, Files

\* The files when all of them were written.
LEMMA AllWrittenTyped ==
    ASSUME TypeOK, NEW m \in Seq(Instance)
    PROVE  Written(GenerateConfigs(m), Len(m)) \in Files
<1>1. Len(m) \in 0..Len(GenerateConfigs(m))
  BY GenerateFacts
<1> QED
  BY <1>1, GenerateTyped, WrittenTyped DEF Files

\* Every outcome of the tail of an edit keeps the types.
LEMMA RegenerateTyped ==
    ASSUME TypeOK, NEW m \in Seq(Instance), Regenerate(m)
    PROVE  TypeOK'
<1>1. CASE ResolveInstances(m)
  <2>1. /\ m # <<>>
        /\ GenerateConfigs(m) \in Seq(GeneratedConfig) /\ GenerateConfigs(m) # <<>>
        /\ Written(GenerateConfigs(m), Len(m)) \in Files
    BY <1>1, GenerateNonEmpty, GenerateTyped, AllWrittenTyped
  <2>2. file' \in Files
    BY <1>1, <2>1, StopsTyped DEF Regenerate
  <2>3. manifest' \in {manifest, m, Torn} /\ generated' \in {generated, GenerateConfigs(m)}
    BY <1>1 DEF Regenerate
  <2>4. up' = up /\ answer' \in {"ok", "error"}
    BY <1>1 DEF Regenerate
  <2> QED
    BY <2>1, <2>2, <2>3, <2>4 DEF TypeOK, Files
<1>2. CASE ~ResolveInstances(m)
  BY <1>2 DEF Regenerate, Refuse, TypeOK
<1> QED
  BY <1>1, <1>2

\* The settings of an instance, whether posted or shown, keep its type.
LEMMA SettingsTyped ==
    ASSUME TypeOK, NEW i \in DOMAIN generated,
           NEW in \in Settings \cup {getInstanceSettings(i)}
    PROVE  WithSettings(generated[i], in) \in GeneratedConfig
<1>1. generated[i] \in GeneratedConfig
  BY DEF TypeOK
<1>2. generated[i].inst \in EffectiveInstance /\ generated[i].cfg \in Config
  BY <1>1 DEF GeneratedConfig
<1>3. in \in SettingsBody
  <2>1. Legacy \in Names /\ generated[i].cfg.xml \in Names
    BY <1>2, LegacyName DEF Config
  <2>2. firstNonEmpty(<<generated[i].cfg.xml, Legacy>>) \in Names
    BY <2>1, NonEmptyOfTwo
  <2> QED
    BY <1>2, <2>2, FleetAssumption
       DEF getInstanceSettings, EffectiveInstance, SettingsBody
<1>4. /\ in.listen \in Names /\ in.wire \in Int /\ in.control \in Int
      /\ in.ep \in Endpoint /\ in.url \in Names
      /\ firstNonEmpty(<<in.xml, Legacy>>) \in Names
  <2>1. in.xml \in Names /\ Legacy \in Names
    BY <1>3, LegacyName DEF SettingsBody
  <2>2. firstNonEmpty(<<in.xml, Legacy>>) \in Names
    BY <2>1, NonEmptyOfTwo
  <2> QED
    BY <1>3, <2>2 DEF SettingsBody
<1>5. [generated[i].inst EXCEPT !.listen = in.listen, !.wire = in.wire,
                                !.control = in.control, !.ep = in.ep,
                                !.url = in.url] \in EffectiveInstance
  BY <1>2, <1>4 DEF EffectiveInstance
<1>6. [generated[i].cfg EXCEPT !.listen = <<in.listen, in.wire>>,
                               !.control = <<in.listen, in.control>>,
                               !.ep = in.ep, !.url = in.url,
                               !.xml = firstNonEmpty(<<in.xml, Legacy>>)] \in Config
  BY <1>2, <1>4 DEF Config, Address
<1> QED
  BY <1>5, <1>6 DEF WithSettings, GeneratedConfig

\* The types are kept by every step; one part per action.
LEMMA TypeStep ==
    ASSUME TypeOK, Committed, [Next]_vars
    PROVE  TypeOK'
<1>1. ASSUME NEW inst \in Instance, addFleetInstance(inst)
      PROVE  TypeOK'
  <2>1. CASE Refuse
    BY <2>1 DEF Refuse, TypeOK
  <2>2. CASE ~Refuse
    <3>1. LoadManifest /\ Regenerate(Append(manifest, inst))
      BY <1>1, <2>2 DEF addFleetInstance
    <3>2. Append(manifest, inst) \in Seq(Instance)
      BY <3>1 DEF LoadManifest, TypeOK
    <3> QED
      BY <3>1, <3>2, RegenerateTyped
  <2> QED
    BY <2>1, <2>2
<1>2. ASSUME NEW id \in Ids, removeFleetInstance(id)
      PROVE  TypeOK'
  <2>1. CASE Refuse
    BY <2>1 DEF Refuse, TypeOK
  <2>2. CASE ~Refuse
    <3>1. LoadManifest /\ \E k \in DOMAIN manifest : Regenerate(Without(manifest, k))
      BY <1>2, <2>2 DEF removeFleetInstance
    <3>2. PICK k \in DOMAIN manifest : Regenerate(Without(manifest, k))
      BY <3>1
    <3>3. Without(manifest, k) \in Seq(Instance)
      BY <3>1, RemovalTyped DEF LoadManifest, TypeOK
    <3> QED
      BY <3>2, <3>3, RegenerateTyped
  <2> QED
    BY <2>1, <2>2
<1>3. ASSUME handleInstanceSettings
      PROVE  TypeOK'
  <2>1. PICK i \in DOMAIN generated :
          \E in \in Settings \cup {getInstanceSettings(i)} :
              updateInstanceSettings(i, in)
    BY <1>3 DEF handleInstanceSettings
  <2>2. PICK in \in Settings \cup {getInstanceSettings(i)} :
              updateInstanceSettings(i, in)
    BY <2>1
  <2> DEFINE gen == WithSettings(generated[i], in)
  <2>3. gen \in GeneratedConfig /\ gen.inst.id \in Ids /\ gen.cfg \in Config
    BY SettingsTyped DEF GeneratedConfig, EffectiveInstance
  <2> HIDE DEF gen
  <2>4. /\ generated' = [generated EXCEPT ![i] = gen]
        /\ \E f \in {file[gen.inst.id], Torn, gen.cfg} :
              file' = [file EXCEPT ![gen.inst.id] = f]
        /\ manifest' = manifest /\ up' = up /\ answer' \in {"ok", "error"}
    BY <2>2 DEF updateInstanceSettings, gen
  <2>5. generated' \in Seq(GeneratedConfig) /\ generated' # <<>>
    BY <2>3, <2>4 DEF TypeOK
  <2>6. file' \in Files
    BY <2>3, <2>4 DEF TypeOK, Files
  <2> QED
    BY <2>4, <2>5, <2>6 DEF TypeOK, Files
<1>4. ASSUME Stop
      PROVE  TypeOK'
  BY <1>4 DEF Stop, TypeOK
<1>5. ASSUME main
      PROVE  TypeOK'
  <2>1. manifest \in Seq(Instance) /\ ResolveInstances(manifest)
    BY <1>5 DEF main, LoadManifest, TypeOK
  <2>2. /\ GenerateConfigs(manifest) \in Seq(GeneratedConfig)
        /\ GenerateConfigs(manifest) # <<>>
        /\ Written(GenerateConfigs(manifest), Len(manifest)) \in Files
    BY <2>1, GenerateNonEmpty, GenerateTyped, AllWrittenTyped
  <2>3. file' \in Files
    BY <1>5, <2>1, <2>2, StopsTyped DEF main
  <2>4. /\ generated' \in {generated, GenerateConfigs(manifest)}
        /\ manifest' = manifest /\ answer' = answer /\ up' \in {up, TRUE}
    BY <1>5 DEF main
  <2> QED
    BY <2>1, <2>2, <2>3, <2>4 DEF TypeOK, Files
<1>6. ASSUME UNCHANGED vars
      PROVE  TypeOK'
  BY <1>6 DEF vars, TypeOK
<1> QED
  BY <1>1, <1>2, <1>3, <1>4, <1>5, <1>6, AddRequest DEF Next

\* What the supervisor starts from.
LEMMA InitTyped == Init => TypeOK
<1> SUFFICES ASSUME Init PROVE TypeOK
  OBVIOUS
<1>1. PICK inst \in Instance :
         /\ ResolveInstances(<<inst>>)
         /\ manifest = <<inst>>
         /\ generated = GenerateConfigs(<<inst>>)
         /\ file = [id \in Ids |-> IF id = inst.id
                                   THEN GenerateConfigs(<<inst>>)[1].cfg
                                   ELSE NoFile]
         /\ up = TRUE
         /\ answer = "none"
  BY FleetAssumption DEF Init
<1>2. <<inst>> \in Seq(Instance) /\ DOMAIN <<inst>> = {1}
  OBVIOUS
<1>3. /\ GenerateConfigs(<<inst>>) \in Seq(GeneratedConfig)
      /\ GenerateConfigs(<<inst>>) # <<>>
      /\ DOMAIN GenerateConfigs(<<inst>>) = {1}
  BY <1>1, <1>2, GenerateNonEmpty, GenerateTyped, GenerateFacts
<1>4. GenerateConfigs(<<inst>>)[1].cfg \in Config
  <2>1. GenerateConfigs(<<inst>>)[1] \in GeneratedConfig
    BY <1>3, ElementOfSeq
  <2> QED
    BY <2>1 DEF GeneratedConfig
<1> QED
  BY <1>1, <1>2, <1>3, <1>4 DEF TypeOK

\* TypeOK holds for every set of instances and settings and every write that
\* fails; with it, no sequence of removals empties the fleet.
THEOREM TypeCorrect == Spec => []TypeOK
<1>1. Init => TypeOK /\ Committed
  BY InitTyped, InitCommitted
<1>2. TypeOK /\ Committed /\ [Next]_vars => TypeOK' /\ Committed'
  BY TypeStep, CommittedStep
<1> QED
  BY <1>1, <1>2, PTL DEF Spec

----------------------------------------------------------------------------
(***************************************************************************)
(* What a request may change.                                              *)
(***************************************************************************)

\* A supervisor that is down has no request to answer.
DownIsSilent == ~up => answer = "none"

\* Only Stop takes the supervisor down, and it clears the answer.
LEMMA DownIsSilentStep ==
    ASSUME DownIsSilent, [Next]_vars
    PROVE  DownIsSilent'
<1>1. ASSUME NEW m, up, Regenerate(m)
      PROVE  up'
  BY <1>1 DEF Regenerate, Refuse
<1>2. ASSUME NEW inst \in Instance, addFleetInstance(inst)
      PROVE  up'
  BY <1>1, <1>2 DEF addFleetInstance, Refuse
<1>3. ASSUME NEW id \in Ids, removeFleetInstance(id)
      PROVE  up'
  BY <1>1, <1>3 DEF removeFleetInstance, Refuse
<1>4. ASSUME handleInstanceSettings
      PROVE  up'
  BY <1>4 DEF handleInstanceSettings, updateInstanceSettings
<1>5. CASE Stop
  BY <1>5 DEF Stop, DownIsSilent
<1>6. CASE main
  BY <1>6 DEF main, DownIsSilent
<1>7. CASE UNCHANGED vars
  BY <1>7 DEF vars, DownIsSilent
<1> QED
  BY <1>2, <1>3, <1>4, <1>5, <1>6, <1>7, AddRequest DEF Next, DownIsSilent

\* RefusedChangesNothing holds for every fleet and all settings as long as
\* no write fails: an edit that is refused is refused before
\* validateAndGenerateFleet wrote the first file.
THEOREM RefusedUnchanged ==
    ASSUME ~WritesFail
    PROVE  Spec => RefusedChangesNothing
<1>1. Init => DownIsSilent
  BY DEF Init, DownIsSilent
<1>2. DownIsSilent /\ [Next]_vars => DownIsSilent'
  BY DownIsSilentStep
<1>3. DownIsSilent /\ [Next]_vars
        => [answer' = "error" => UNCHANGED <<manifest, generated, file>>]_vars
  <2> SUFFICES ASSUME DownIsSilent, Next, answer' = "error"
               PROVE  UNCHANGED <<manifest, generated, file>>
    OBVIOUS
  <2>1. ASSUME NEW m, Regenerate(m)
        PROVE  UNCHANGED <<manifest, generated, file>>
    BY <2>1 DEF Regenerate, Refuse, GenerateStops
  <2>2. CASE Refuse
    BY <2>2 DEF Refuse
  <2>3. ASSUME NEW inst \in Instance, addFleetInstance(inst)
        PROVE  UNCHANGED <<manifest, generated, file>>
    BY <2>1, <2>2, <2>3 DEF addFleetInstance
  <2>4. ASSUME NEW id \in Ids, removeFleetInstance(id)
        PROVE  UNCHANGED <<manifest, generated, file>>
    BY <2>1, <2>2, <2>4 DEF removeFleetInstance
  <2>5. CASE handleInstanceSettings
    BY <2>5 DEF handleInstanceSettings, updateInstanceSettings
  <2>6. CASE Stop
    BY <2>6 DEF Stop
  <2>7. CASE main
    BY <2>7 DEF main, DownIsSilent
  <2> QED
    BY <2>3, <2>4, <2>5, <2>6, <2>7, AddRequest DEF Next
<1> QED
  BY <1>1, <1>2, <1>3, PTL DEF Spec, RefusedChangesNothing

----------------------------------------------------------------------------
\* The ids of a manifest that validates are distinct.
LEMMA IdsDistinct ==
    ASSUME NEW m, ValidateManifest(m),
           NEW i \in DOMAIN m, NEW j \in DOMAIN m, m[i].id = m[j].id
    PROVE  i = j
<1>1. {k \in DOMAIN m : m[k].id = m[i].id} = {i}
  BY DEF ValidateManifest, Distinct
<1> QED
  BY <1>1

\* Once all files of a fleet are written, each holds the configuration of its
\* own instance: no instance overwrites the file of another.
LEMMA WrittenAll ==
    ASSUME NEW m \in Seq(Instance), ResolveInstances(m), NEW i \in DOMAIN m
    PROVE  Written(GenerateConfigs(m), Len(m))[GenerateConfigs(m)[i].inst.id]
             = GenerateConfigs(m)[i].cfg
<1> DEFINE g == GenerateConfigs(m)
           k == CHOOSE x \in 1..Len(m) : g[x].inst.id = g[i].inst.id
<1>1. DOMAIN m = 1..Len(m) /\ \A x \in DOMAIN m : g[x].inst.id = m[x].id
  BY GenerateFacts
<1>2. g[i].inst.id \in Ids
  <2>1. m[i] \in Instance
    OBVIOUS
  <2> QED
    BY <1>1, <2>1 DEF Instance
<1> HIDE DEF g
<1>3. k \in 1..Len(m) /\ g[k].inst.id = g[i].inst.id
  BY <1>1
<1>4. k = i
  BY <1>1, <1>3, IdsDistinct DEF ResolveInstances
<1> HIDE DEF k
<1>5. Written(g, Len(m))[g[i].inst.id] = g[k].cfg
  BY <1>1, <1>2 DEF Written, k
<1> QED
  BY <1>4, <1>5 DEF g

\* AcknowledgedIsOnDisk holds for every fleet, all settings and every write
\* that fails: what addFleetInstance, removeFleetInstance,
\* updateInstanceSettings or main newly put in s.generated is on disk when
\* they succeed.
THEOREM AcknowledgedOnDisk == Spec => AcknowledgedIsOnDisk
<1>1. Init => TypeOK /\ Committed
  BY InitTyped, InitCommitted
<1>2. TypeOK /\ Committed /\ [Next]_vars => TypeOK' /\ Committed'
  BY TypeStep, CommittedStep
<1>3. TypeOK /\ Committed /\ [Next]_vars
        => [answer' # "error" =>
              \A i \in DOMAIN generated' :
                 generated'[i] \notin {generated[k] : k \in DOMAIN generated}
                 => file'[generated'[i].inst.id] = generated'[i].cfg]_vars
  <2> SUFFICES ASSUME TypeOK, Committed, Next, answer' # "error",
                      NEW i \in DOMAIN generated',
                      generated'[i] \notin {generated[k] : k \in DOMAIN generated}
               PROVE  file'[generated'[i].inst.id] = generated'[i].cfg
    BY DEF vars
  <2>0. generated' # generated
    OBVIOUS
  <2>1. ASSUME NEW m \in Seq(Instance), Regenerate(m)
        PROVE  file'[generated'[i].inst.id] = generated'[i].cfg
    <3>1. /\ ResolveInstances(m)
          /\ file' = Written(GenerateConfigs(m), Len(m))
          /\ generated' = GenerateConfigs(m)
      BY <2>0, <2>1 DEF Regenerate, Refuse
    <3>2. i \in DOMAIN m
      BY <3>1, GenerateFacts
    <3> QED
      BY <3>1, <3>2, WrittenAll
  <2>2. ~Refuse
    BY <2>0 DEF Refuse
  <2>3. ASSUME NEW inst \in Instance, addFleetInstance(inst)
        PROVE  file'[generated'[i].inst.id] = generated'[i].cfg
    <3>1. LoadManifest /\ Regenerate(Append(manifest, inst))
      BY <2>2, <2>3 DEF addFleetInstance
    <3>2. Append(manifest, inst) \in Seq(Instance)
      BY <3>1 DEF LoadManifest, TypeOK
    <3> QED
      BY <2>1, <3>1, <3>2
  <2>4. ASSUME NEW id \in Ids, removeFleetInstance(id)
        PROVE  file'[generated'[i].inst.id] = generated'[i].cfg
    <3>1. LoadManifest /\ \E k \in DOMAIN manifest : Regenerate(Without(manifest, k))
      BY <2>2, <2>4 DEF removeFleetInstance
    <3>2. PICK k \in DOMAIN manifest : Regenerate(Without(manifest, k))
      BY <3>1
    <3>3. Without(manifest, k) \in Seq(Instance)
      BY <3>1, RemovalTyped DEF LoadManifest, TypeOK
    <3> QED
      BY <2>1, <3>2, <3>3
  <2>5. CASE handleInstanceSettings
    <3>1. PICK k \in DOMAIN generated :
            \E in \in Settings \cup {getInstanceSettings(k)} :
                updateInstanceSettings(k, in)
      BY <2>5 DEF handleInstanceSettings
    <3>2. PICK in \in Settings \cup {getInstanceSettings(k)} :
                updateInstanceSettings(k, in)
      BY <3>1
    <3> DEFINE gen == WithSettings(generated[k], in)
    <3>3. gen.inst.id \in Ids
      BY SettingsTyped DEF GeneratedConfig, EffectiveInstance
    <3> HIDE DEF gen
    <3>4. /\ generated' = [generated EXCEPT ![k] = gen]
          /\ file' = [file EXCEPT ![gen.inst.id] = gen.cfg]
      BY <3>2 DEF updateInstanceSettings, gen
    <3>5. i = k
      BY <3>4
    <3>6. generated'[i] = gen
      BY <3>4, <3>5
    <3> QED
      BY <3>3, <3>4, <3>6 DEF TypeOK
  <2>6. ~Stop
    BY <2>0 DEF Stop
  <2>7. CASE main
    <3>1. /\ manifest \in Seq(Instance) /\ ResolveInstances(manifest)
          /\ file' = Written(GenerateConfigs(manifest), Len(manifest))
          /\ generated' = GenerateConfigs(manifest)
      BY <2>0, <2>7 DEF main, LoadManifest, TypeOK
    <3>2. i \in DOMAIN manifest
      BY <3>1, GenerateFacts
    <3> QED
      BY <3>1, <3>2, WrittenAll
  <2> QED
    BY <2>3, <2>4, <2>5, <2>6, <2>7, AddRequest DEF Next
<1> QED
  BY <1>1, <1>2, <1>3, PTL DEF Spec, AcknowledgedIsOnDisk

----------------------------------------------------------------------------
(***************************************************************************)
(* The fleet in memory and the manifest.                                   *)
(***************************************************************************)

\* As long as no settings are posted and no write fails, the fleet in memory
\* is the one the manifest on disk generates.
InSync == manifest # Torn => generated = GenerateConfigs(manifest)

\* The first fleet is generated from the first manifest.
LEMMA InSyncInit == Init => InSync
  BY DEF Init, InSync

\* The manifest and s.generated are replaced together or not at all.
LEMMA InSyncStep ==
    ASSUME ~EditSettings, ~WritesFail, Committed, InSync, [Next]_vars
    PROVE  InSync'
  BY StepKinds DEF InSync

\* RestartKeepsFleet holds for every fleet as long as no settings are posted
\* and no write fails: main generates from the manifest what the supervisor
\* that wrote it had in memory.
THEOREM RestartKeeps ==
    ASSUME ~EditSettings, ~WritesFail
    PROVE  Spec => RestartKeepsFleet
<1>1. Init => Committed /\ InSync
  BY InitCommitted, InSyncInit
<1>2. Committed /\ InSync /\ [Next]_vars => Committed' /\ InSync'
  BY CommittedStep, InSyncStep
<1>3. Committed /\ InSync /\ [Next]_vars => [~up /\ up' => generated' = generated]_vars
  <2> SUFFICES ASSUME InSync, Next, ~up, up'
               PROVE  generated' = generated
    OBVIOUS
  <2>1. main
    BY AddRequest DEF Next, addFleetInstance, removeFleetInstance,
                      handleInstanceSettings, Stop
  <2> QED
    BY <2>1 DEF main, LoadManifest, InSync
<1> QED
  BY <1>1, <1>2, <1>3, PTL DEF Spec, RestartKeepsFleet

----------------------------------------------------------------------------
\* An instance whose ports are given resolves alike at every position.
LEMMA PositionIrrelevant ==
    ASSUME NEW inst \in Instance, inst.wire # 0, inst.control # 0,
           NEW p \in Int, NEW q \in Int
    PROVE  resolveInstance(p, inst) = resolveInstance(q, inst)
<1>1. ASSUME NEW x \in Int
      PROVE  /\ firstNonZero(<<inst.wire, inst.ep.port, Defaults.ep.port,
                               Defaults.wireBase + x>>) = inst.wire
             /\ firstNonZero(<<inst.control, Defaults.controlBase + x>>)
                  = inst.control
  BY FirstOfTwo, FirstOfFour DEF firstNonZero
<1> QED
  BY <1>1 DEF resolveInstance

\* What is generated for a position depends on the instance there and on the
\* position alone.
LEMMA GenerateAt ==
    ASSUME NEW m \in Seq(Instance), NEW n \in Seq(Instance),
           NEW i \in DOMAIN m, NEW j \in DOMAIN n,
           resolveInstance(i - 1, m[i]) = resolveInstance(j - 1, n[j])
    PROVE  GenerateConfigs(m)[i] = GenerateConfigs(n)[j]
  BY DEF GenerateConfigs, Resolved

\* The ids of a fleet that was generated from a manifest are distinct.
LEMMA GeneratedDistinct ==
    ASSUME FromManifest, NEW i \in DOMAIN generated, NEW j \in DOMAIN generated,
           generated[i].inst.id = generated[j].inst.id
    PROVE  i = j
<1>1. PICK m \in Seq(Instance) : ResolveInstances(m) /\ generated = GenerateConfigs(m)
  BY DEF FromManifest
<1>2. /\ i \in DOMAIN m /\ j \in DOMAIN m
      /\ generated[i].inst.id = m[i].id /\ generated[j].inst.id = m[j].id
  BY <1>1, GenerateFacts
<1>3. m[i].id = m[j].id
  BY <1>2
<1> QED
  BY <1>1, <1>2, <1>3, IdsDistinct DEF ResolveInstances

\* An addition moves nobody.
LEMMA AddMovesNobody ==
    ASSUME Committed, InSync, LoadManifest, NEW inst \in Instance,
           \A k \in DOMAIN manifest : manifest[k].id # inst.id,
           generated' = GenerateConfigs(Append(manifest, inst)),
           NEW i \in DOMAIN generated, NEW j \in DOMAIN generated',
           generated[i].inst.id = generated'[j].inst.id
    PROVE  generated[i] = generated'[j]
<1> DEFINE m == Append(manifest, inst)
<1>1. /\ manifest \in Seq(Instance) /\ ValidateManifest(manifest)
      /\ generated = GenerateConfigs(manifest)
  BY DEF LoadManifest, Committed, InSync
<1>2. /\ m \in Seq(Instance) /\ DOMAIN m = 1..(Len(manifest) + 1)
      /\ DOMAIN manifest = 1..Len(manifest) /\ Len(manifest) \in Nat
      /\ \A k \in DOMAIN manifest : m[k] = manifest[k]
      /\ m[Len(manifest) + 1] = inst
  BY <1>1
<1> HIDE DEF m
<1>3. /\ i \in DOMAIN manifest /\ generated[i].inst.id = manifest[i].id
      /\ j \in DOMAIN m /\ generated'[j].inst.id = m[j].id
  BY <1>1, <1>2, GenerateFacts DEF m
<1>4. m[j].id = manifest[i].id
  BY <1>3
<1>5. j \in DOMAIN manifest
  BY <1>2, <1>3, <1>4
<1>6. j = i
  BY <1>1, <1>2, <1>3, <1>4, <1>5, IdsDistinct
<1>7. m[j] = manifest[i]
  BY <1>2, <1>5, <1>6
<1>8. GenerateConfigs(manifest)[i] = GenerateConfigs(m)[j]
  BY <1>1, <1>2, <1>3, <1>6, <1>7, GenerateAt
<1> QED
  BY <1>1, <1>8 DEF m

\* A removal moves those after the removed one whose ports are not given.
LEMMA RemoveMovesShifted ==
    ASSUME Committed, InSync, LoadManifest, NEW k \in DOMAIN manifest,
           generated' = GenerateConfigs(Without(manifest, k)),
           NEW i \in DOMAIN generated, NEW j \in DOMAIN generated',
           generated[i].inst.id = generated'[j].inst.id,
           generated[i] # generated'[j]
    PROVE  /\ j < i
           /\ manifest[i].wire = 0 \/ manifest[i].control = 0
<1> DEFINE m == Without(manifest, k)
<1>1. /\ manifest \in Seq(Instance) /\ ValidateManifest(manifest)
      /\ generated = GenerateConfigs(manifest)
  BY DEF LoadManifest, Committed, InSync
<1>2. m \in Seq(Instance)
  BY <1>1, RemovalTyped
<1>3. /\ DOMAIN manifest = 1..Len(manifest) /\ Len(manifest) \in Nat
      /\ DOMAIN m = 1..(Len(manifest) - 1)
      /\ \A x \in DOMAIN m : m[x] = IF x < k THEN manifest[x] ELSE manifest[x + 1]
  BY <1>1 DEF Without
<1> HIDE DEF m
<1>4. /\ i \in DOMAIN manifest /\ generated[i].inst.id = manifest[i].id
      /\ j \in DOMAIN m /\ generated'[j].inst.id = m[j].id
  BY <1>1, <1>2, GenerateFacts DEF m
<1>5. m[j].id = manifest[i].id
  BY <1>4
<1>6. resolveInstance(i - 1, manifest[i]) # resolveInstance(j - 1, m[j])
  BY <1>1, <1>2, <1>4, GenerateAt DEF m
<1>7. ~(j < k)
  <2> SUFFICES ASSUME j < k PROVE FALSE
    OBVIOUS
  <2>1. m[j] = manifest[j] /\ j \in DOMAIN manifest
    BY <1>3, <1>4
  <2>2. j = i
    BY <1>1, <1>4, <1>5, <2>1, IdsDistinct
  <2> QED
    BY <1>6, <2>1, <2>2
<1>8. m[j] = manifest[j + 1] /\ j + 1 \in DOMAIN manifest
  BY <1>3, <1>4, <1>7
<1>9. j + 1 = i
  BY <1>1, <1>4, <1>5, <1>8, IdsDistinct
<1>10. j < i
  BY <1>3, <1>4, <1>9
<1>11. manifest[i] \in Instance /\ i - 1 \in Int /\ j - 1 \in Int
  BY <1>1, <1>3, <1>4
<1> QED
  BY <1>6, <1>8, <1>9, <1>10, <1>11, PositionIrrelevant

\* OnlyShiftedInstancesMove holds for every fleet as long as no settings are
\* posted and no write fails: addFleetInstance moves no other instance,
\* removeFleetInstance only those after the removed one that leave a port to
\* their position, and main none.
THEOREM OnlyShiftedMove ==
    ASSUME ~EditSettings, ~WritesFail
    PROVE  Spec => OnlyShiftedInstancesMove
<1>1. Init => Committed /\ InSync /\ FromManifest
  BY InitCommitted, InSyncInit DEF FromManifest
<1>2. Committed /\ InSync /\ FromManifest /\ [Next]_vars
        => Committed' /\ InSync' /\ FromManifest'
  BY CommittedStep, InSyncStep, StepKinds DEF FromManifest
<1>3. Committed /\ InSync /\ FromManifest /\ [Next]_vars
        => [\A i \in DOMAIN generated, j \in DOMAIN generated' :
              (generated[i].inst.id = generated'[j].inst.id
                 /\ generated[i] # generated'[j])
              => /\ j < i
                 /\ manifest[i].wire = 0 \/ manifest[i].control = 0]_vars
  <2> SUFFICES ASSUME Committed, InSync, FromManifest, Next,
                      NEW i \in DOMAIN generated, NEW j \in DOMAIN generated',
                      generated[i].inst.id = generated'[j].inst.id,
                      generated[i] # generated'[j]
               PROVE  /\ j < i
                      /\ manifest[i].wire = 0 \/ manifest[i].control = 0
    OBVIOUS
  <2>0. generated' # generated
    BY GeneratedDistinct
  <2>1. ~Refuse
    BY <2>0 DEF Refuse
  <2>2. ASSUME NEW inst \in Instance, addFleetInstance(inst)
        PROVE  FALSE
    <3>1. /\ LoadManifest
          /\ \A x \in DOMAIN manifest : manifest[x].id # inst.id
          /\ Regenerate(Append(manifest, inst))
      BY <2>1, <2>2 DEF addFleetInstance
    <3>2. generated' = GenerateConfigs(Append(manifest, inst))
      BY <2>0, <3>1 DEF Regenerate, Refuse
    <3> QED
      BY <3>1, <3>2, AddMovesNobody
  <2>3. ASSUME NEW id \in Ids, removeFleetInstance(id)
        PROVE  /\ j < i
               /\ manifest[i].wire = 0 \/ manifest[i].control = 0
    <3>1. LoadManifest /\ \E k \in DOMAIN manifest : Regenerate(Without(manifest, k))
      BY <2>1, <2>3 DEF removeFleetInstance
    <3>2. PICK k \in DOMAIN manifest : Regenerate(Without(manifest, k))
      BY <3>1
    <3>3. generated' = GenerateConfigs(Without(manifest, k))
      BY <2>0, <3>2 DEF Regenerate, Refuse
    <3> QED
      BY <3>1, <3>3, RemoveMovesShifted
  <2>4. ~handleInstanceSettings
    BY DEF handleInstanceSettings
  <2>5. ~Stop
    BY <2>0 DEF Stop
  <2>6. ~main
    BY <2>0 DEF main, LoadManifest, InSync
  <2> QED
    BY <2>2, <2>3, <2>4, <2>5, <2>6, AddRequest DEF Next
<1> QED
  BY <1>1, <1>2, <1>3, PTL DEF Spec, OnlyShiftedInstancesMove

----------------------------------------------------------------------------
(***************************************************************************)
(* Which children come up.                                                 *)
(***************************************************************************)

\* The port of a resolved instance, as its child defaults it, and its mode.
LEMMA ResolvedLoads ==
    ASSUME NEW inst \in Instance, ValidInstance(inst), NEW idx \in Int
    PROVE  ValidateConfig(ConfigOf(resolveInstance(idx, inst)))
             <=> /\ firstNonZero(<<inst.ep.port, Defaults.ep.port, inst.wire,
                                   Defaults.wireBase + idx>>) \in 1..MaxPort
                 /\ firstNonEmpty(<<inst.xml, Defaults.xml, Legacy>>) \in XmlModes
<1> DEFINE e == resolveInstance(idx, inst)
           mport == firstNonZero(<<inst.ep.port, Defaults.ep.port>>)
           wire  == firstNonZero(<<inst.wire, inst.ep.port, Defaults.ep.port,
                                   Defaults.wireBase + idx>>)
           given == firstNonZero(<<inst.ep.port, Defaults.ep.port, inst.wire,
                                   Defaults.wireBase + idx>>)
           mode  == firstNonEmpty(<<inst.xml, Defaults.xml, Legacy>>)
<1>1. /\ e.ep.port = firstNonZero(<<mport, wire>>)
      /\ e.wire = wire
      /\ e.url = firstNonEmpty(<<inst.url, Defaults.url>>)
      /\ e.xml = mode
  BY DEF resolveInstance, mergeEndpoint
<1>2. mport = IF inst.ep.port # 0 THEN inst.ep.port ELSE Defaults.ep.port
  BY FirstOfTwo DEF firstNonZero
<1>3. wire = IF inst.wire # 0 THEN inst.wire
             ELSE IF inst.ep.port # 0 THEN inst.ep.port
             ELSE IF Defaults.ep.port # 0 THEN Defaults.ep.port
             ELSE Defaults.wireBase + idx
  BY FirstOfFour DEF firstNonZero
<1>4. given = IF inst.ep.port # 0 THEN inst.ep.port
              ELSE IF Defaults.ep.port # 0 THEN Defaults.ep.port
              ELSE IF inst.wire # 0 THEN inst.wire
              ELSE Defaults.wireBase + idx
  BY FirstOfFour DEF firstNonZero
<1>5. firstNonZero(<<mport, wire>>) = IF mport # 0 THEN mport ELSE wire
  BY FirstOfTwo DEF firstNonZero
<1>6. firstNonZero(<<e.ep.port, e.wire>>) = IF e.ep.port # 0 THEN e.ep.port ELSE e.wire
  BY FirstOfTwo DEF firstNonZero
<1> HIDE DEF mport, wire, given, e
<1>7. firstNonZero(<<e.ep.port, e.wire>>) = given
  BY <1>1, <1>2, <1>3, <1>4, <1>5, <1>6
<1>8. e.url # "bad"
  <2>1. e.url \in {inst.url, Defaults.url}
    BY <1>1, NonEmptyOfTwo
  <2> QED
    BY <2>1, FleetAssumption DEF ValidInstance
<1>9. firstNonEmpty(<<e.xml, Legacy>>) = mode
  <2>1. mode # ""
    <3>1. \A x, y, z, u : u # x => FirstNot(x, <<y, z, u>>) # x
      BY FirstOfThree
    <3> QED
      BY <3>1, LegacyName, Zenon DEF firstNonEmpty
  <2> HIDE DEF mode
  <2>2. \A x, y, z : y # x => FirstNot(x, <<y, z>>) = y
    BY FirstOfTwo
  <2> QED
    BY <1>1, <2>1, <2>2 DEF firstNonEmpty
<1> HIDE DEF mode
<1>10. /\ ConfigOf(e).ep = e.ep /\ ConfigOf(e).listen[2] = e.wire
       /\ ConfigOf(e).url = e.url /\ (ConfigOf(e).engine <=> e.url # "")
       /\ ConfigOf(e).xml = e.xml
  BY DEF ConfigOf
<1>11. ValidateConfig(ConfigOf(e)) <=> given \in 1..MaxPort /\ mode \in XmlModes
  BY <1>7, <1>8, <1>9, <1>10 DEF ValidateConfig
<1> QED
  BY <1>11 DEF e, given, mode

\* GeneratedLoads holds for every fleet as long as no settings are posted and
\* no write fails: whatever edits were accepted, runtime.LoadConfig refuses the
\* file of an instance exactly when its port or its XML mode, which
\* ValidateManifest does not check, is none.
THEOREM GeneratedAccepted ==
    ASSUME ~EditSettings, ~WritesFail
    PROVE  Spec => []GeneratedLoads
<1>1. Init => Committed /\ InSync
  BY InitCommitted, InSyncInit
<1>2. Committed /\ InSync /\ [Next]_vars => Committed' /\ InSync'
  BY CommittedStep, InSyncStep
<1>3. Committed /\ InSync => GeneratedLoads
  <2> SUFFICES ASSUME Committed, InSync, manifest # Torn, NEW i \in DOMAIN manifest
               PROVE  ValidateConfig(generated[i].cfg)
                        <=> /\ GivenPort(i) \in 1..MaxPort
                            /\ GivenMode(i) \in XmlModes
    BY DEF GeneratedLoads
  <2>1. /\ manifest \in Seq(Instance) /\ ResolveInstances(manifest)
        /\ generated = GenerateConfigs(manifest)
    BY DEF Committed, SavedManifestResolves, InSync
  <2>2. generated[i].cfg = ConfigOf(resolveInstance(i - 1, manifest[i]))
    BY <2>1, GenerateFacts DEF Resolved
  <2>3. /\ manifest[i] \in Instance /\ ValidInstance(manifest[i])
        /\ i - 1 \in Int /\ Defaults.wireBase + i - 1 = Defaults.wireBase + (i - 1)
    BY <2>1, FleetAssumption DEF ResolveInstances, ValidateManifest
  <2>4. /\ GivenPort(i) = firstNonZero(<<manifest[i].ep.port, Defaults.ep.port,
                             manifest[i].wire, Defaults.wireBase + (i - 1)>>)
        /\ GivenMode(i) = firstNonEmpty(<<manifest[i].xml, Defaults.xml, Legacy>>)
    BY <2>3 DEF GivenPort, GivenMode
  <2> QED
    BY <2>2, <2>3, <2>4, ResolvedLoads
<1> QED
  BY <1>1, <1>2, <1>3, PTL DEF Spec
============================================================================
