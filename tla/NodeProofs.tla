----------------------------- MODULE NodeProofs -----------------------------
(***************************************************************************)
(* Proofs about a node, in two parts.                                      *)
(*                                                                         *)
(* What its flash is good for (NodeStore), whatever the number of peers,   *)
(* the moments at which the power fails, and the operations on the flash   *)
(* that fail.  Those about the identity and the planet are for the firmware *)
(* in qemu-wrapper/, whose keys do not depend on the node's own address.   *)
(*                                                                         *)
(* Its contact with the roots (NodeOnline), for any roots and any periods that*)
(* leave time for two exchanges with a root before the node counts as offline.*)
(***************************************************************************)
EXTENDS NodeStore, NodeOnline, SetFacts, FiniteSetTheorems, TLAPS

Secret == <<"secret", 0>>
Public == <<"public", 0>>
Planet == <<"planet", 0>>

\* The identity in flash is the one that was kept, and a boot in which nothing went
\* wrong with it uses it.  A new one is made only if there is none, or none was read.
SecretOK ==
  /\ pc \in Steps
  /\ pc \notin {"off", "getSecret"} => identity \in Identities
  /\ Secret \in DOMAIN nvs => nvs[Secret] \in Identities
  /\ kept = IF Secret \in DOMAIN nvs THEN nvs[Secret] ELSE Nothing
  /\ pc = "putSecret" => kept = Nothing \/ <<"get", "secret">> \in failed
  /\ pc \notin {"off", "getSecret", "putSecret"} /\ Spared("secret") => identity = kept

\* Behind the check no public identity of another node is left, if it could be made.
PublicOK ==
  /\ Public \in DOMAIN nvs => nvs[Public] \in Identities
  /\ pc \in {"planet", "default", "up"} /\ Spared("public") /\ Public \in DOMAIN nvs
       => nvs[Public] = identity

\* The flash holds the newest planet, and so does a node that could read it, or a
\* newer one that it could not store.
PlanetOK ==
  /\ Planet \in DOMAIN nvs => nvs[Planet] \in Default..(Default + MaxPlanet)
  /\ newest = IF Planet \in DOMAIN nvs THEN nvs[Planet] ELSE 0
  /\ planet \in 0..(Default + MaxPlanet)
  /\ pc \notin {"default", "up"} => planet = 0
  /\ pc \in {"default", "up"} /\ <<"get", "planet">> \notin failed => planet >= newest

StoreInv == SecretOK /\ PublicOK /\ PlanetOK

\* The keys of the wrapper firmware.
LEMMA Keys ==
  ASSUME Port = "wrapper", NEW id
  PROVE  /\ Key("secret", id) = Secret
         /\ Key("public", id) = Public
         /\ Key("planet", id) = Planet
         /\ Key("peer", id) = <<"peer", Low[id]>>
         /\ Secret # Public /\ Secret # Planet /\ Public # Planet
         /\ \A k \in {Secret, Public, Planet} : k # <<"peer", Low[id]>>
  BY DEF Key, Secret, Public, Planet

\* Storing an object changes what is under its key, and nothing else.
LEMMA StoreEffect ==
  ASSUME NEW type, NEW id, NEW object, Store(type, id, object), NEW k, k = Key(type, id)
  PROVE  /\ failed' = failed
         /\ k \in DOMAIN nvs' /\ nvs'[k] = object
         /\ \A x : x # k => /\ x \in DOMAIN nvs' <=> x \in DOMAIN nvs
                            /\ x \in DOMAIN nvs => nvs'[x] = nvs[x]
  <1>1. /\ nvs' = [x \in DOMAIN nvs \cup {k} |-> IF x = k THEN object ELSE nvs[x]]
        /\ failed' = failed
    BY DEF Store
  <1>2. DOMAIN nvs' = DOMAIN nvs \cup {k}
    BY <1>1
  <1>3. \A x \in DOMAIN nvs' : nvs'[x] = IF x = k THEN object ELSE nvs[x]
    BY <1>1
  <1> QED BY <1>1, <1>2, <1>3

\* What has failed is remembered until the next boot.
LEMMA FailEffect ==
  ASSUME NEW op, NEW type, Fail(op, type)
  PROVE  /\ nvs' = nvs /\ failed \subseteq failed'
         /\ type # "peer" => <<op, type>> \in failed'
         /\ \A o, t : <<o, t>> \in failed' => <<o, t>> \in failed \/ (o = op /\ t = type)
  BY DEF Fail

\* A get changes nothing in flash, and returns what is there or has failed.
LEMMA GetEffect ==
  ASSUME Port = "wrapper", NEW type, NEW id, NEW object, Get(type, id, object)
  PROVE  /\ nvs' = nvs /\ failed \subseteq failed'
         /\ \A o, t : <<o, t>> \in failed' => <<o, t>> \in failed \/ (o = "get" /\ t = type)
         /\ \/ object = Found(type, id)
            \/ object = Nothing /\ (type # "peer" => <<"get", type>> \in failed')
  <1>1. CASE object = Found(type, id) /\ UNCHANGED <<nvs, failed>>
    <2>0. nvs' = nvs /\ object = Found(type, id)
      BY <1>1
    <2>1. failed' = failed
      BY <1>1
    <2>2. \A o, t : <<o, t>> \in failed' => <<o, t>> \in failed \/ (o = "get" /\ t = type)
      BY <2>1, Zenon
    <2>3. failed \subseteq failed'
      BY <2>1, Zenon
    <2> QED BY <2>0, <2>2, <2>3
  <1>2. CASE object = Fallback(type) /\ Fail("get", type)
    <2>1. /\ nvs' = nvs /\ failed \subseteq failed'
          /\ type # "peer" => <<"get", type>> \in failed'
          /\ \A o, t : <<o, t>> \in failed' => <<o, t>> \in failed \/ (o = "get" /\ t = type)
      <3>1. Fail("get", type)
        BY <1>2
      <3> QED BY <3>1 DEF Fail
    <2>2. object = Nothing
      BY <1>2 DEF Fallback
    <2> QED BY <2>1, <2>2, Zenon
  <1> QED BY <1>1, <1>2 DEF Get

\* An operation on objects of one type leaves those of the others alone.
Untouched(k) ==
  /\ k \in DOMAIN nvs' <=> k \in DOMAIN nvs
  /\ k \in DOMAIN nvs => nvs'[k] = nvs[k]

\* So does a put, whether it succeeds or not.
LEMMA PutEffect ==
  ASSUME NEW type, NEW id, NEW object, Put(type, id, object)
  PROVE  /\ failed \subseteq failed'
         /\ \A o, t : <<o, t>> \in failed' => <<o, t>> \in failed \/ (o = "put" /\ t = type)
         /\ \A k : k # Key(type, id) => Untouched(k)
         /\ \/ Untouched(Key(type, id)) /\ (type # "peer" => <<"put", type>> \in failed')
            \/ Key(type, id) \in DOMAIN nvs' /\ nvs'[Key(type, id)] = object
  <1>1. CASE Store(type, id, object)
    <2>0. /\ Key(type, id) \in DOMAIN nvs' /\ nvs'[Key(type, id)] = object
          /\ \A k : k # Key(type, id) => Untouched(k)
      BY <1>1, StoreEffect DEF Untouched
    <2>1. failed' = failed
      BY <1>1, StoreEffect
    <2>2. \A o, t : <<o, t>> \in failed' => <<o, t>> \in failed \/ (o = "put" /\ t = type)
      BY <2>1, Zenon
    <2>3. failed \subseteq failed'
      BY <2>1, Zenon
    <2> QED BY <2>0, <2>2, <2>3
  <1>2. CASE Fail("put", type)
    <2>1. /\ nvs' = nvs /\ failed \subseteq failed'
          /\ type # "peer" => <<"put", type>> \in failed'
          /\ \A o, t : <<o, t>> \in failed' => <<o, t>> \in failed \/ (o = "put" /\ t = type)
      <3>1. Fail("put", type)
        BY <1>2
      <3> QED BY <3>1 DEF Fail
    <2>2. \A k : Untouched(k)
      BY <2>1 DEF Untouched
    <2> QED BY <2>1, <2>2, Zenon
  <1> QED BY <1>1, <1>2 DEF Put

\* A planet is used: it is stored under the planet's key, or the put failed.
LEMMA UsePlanetEffect ==
  ASSUME Port = "wrapper", NEW v, UsePlanet(v)
  PROVE  /\ failed \subseteq failed' /\ planet' = v
         /\ \A o, t : <<o, t>> \in failed' => <<o, t>> \in failed \/ (o = "put" /\ t = "planet")
         /\ \A k : k # Planet => Untouched(k)
         /\ \/ Untouched(Planet) /\ newest' = newest
            \/ /\ Planet \in DOMAIN nvs' /\ nvs'[Planet] = v
               /\ newest' = IF v > newest \/ <<"get", "planet">> \in failed THEN v ELSE newest
  <1>1. Key("planet", PlanetId) = Planet
    BY Keys
  <1>2. CASE /\ Store("planet", PlanetId, v)
             /\ newest' = IF v > newest \/ <<"get", "planet">> \in failed THEN v ELSE newest
    <2>0. /\ Planet \in DOMAIN nvs' /\ nvs'[Planet] = v
          /\ \A k : k # Planet => Untouched(k)
      BY <1>1, <1>2, StoreEffect DEF Untouched
    <2>1. failed' = failed
      BY <1>2, StoreEffect
    <2>2. \A o, t : <<o, t>> \in failed' => <<o, t>> \in failed \/ (o = "put" /\ t = "planet")
      BY <2>1, Zenon
    <2>3. failed \subseteq failed'
      BY <2>1, Zenon
    <2>4. planet' = v
      BY DEF UsePlanet
    <2> QED BY <1>2, <2>0, <2>2, <2>3, <2>4
  <1>3. CASE Fail("put", "planet") /\ UNCHANGED newest
    <2>1. /\ nvs' = nvs /\ failed \subseteq failed'
          /\ \A o, t : <<o, t>> \in failed' => <<o, t>> \in failed \/ (o = "put" /\ t = "planet")
      <3>1. Fail("put", "planet")
        BY <1>3
      <3> QED BY <3>1 DEF Fail
    <2>2. planet' = v /\ \A k : Untouched(k)
      BY <2>1 DEF Untouched, UsePlanet
    <2> QED BY <1>3, <2>1, <2>2, Zenon
  <1> QED BY <1>2, <1>3 DEF UsePlanet
-----------------------------------------------------------------------------
(* The identity and its public half.                                       *)

\* A step that leaves the identity and its key alone, and moves on in the boot.
LEMMA SecretStays ==
  ASSUME SecretOK, Untouched(Secret), UNCHANGED <<identity, kept>>, pc' \in Steps,
         pc \notin {"off", "getSecret", "putSecret"}, pc' \notin {"off", "getSecret", "putSecret"},
         Spared("secret")' => Spared("secret")
  PROVE  SecretOK'
  BY DEF SecretOK, Untouched

\* The same of the public one.
LEMMA PublicStays ==
  ASSUME PublicOK, Untouched(Public), UNCHANGED identity,
         pc' \in {"planet", "default", "up"} => pc \in {"planet", "default", "up"},
         Spared("public")' => Spared("public")
  PROVE  PublicOK'
  BY DEF PublicOK, Untouched

\* The same of the planet.
LEMMA PlanetStays ==
  ASSUME PlanetOK, Untouched(Planet), UNCHANGED <<planet, newest>>,
         pc' \in {"default", "up"} <=> pc \in {"default", "up"},
         <<"get", "planet">> \in failed => <<"get", "planet">> \in failed'
  PROVE  PlanetOK'
  BY DEF PlanetOK, Untouched

\* What nothing was added to has been spared if it is.
LEMMA SparedBack ==
  ASSUME NEW type, failed \subseteq failed'
  PROVE  Spared(type)' => Spared(type)
  BY DEF Spared

\* An empty flash and a node that is off satisfy the invariant.
LEMMA InitStore == Init => StoreInv
  BY StoreAssumption
  DEF Init, StoreInv, SecretOK, PublicOK, PlanetOK, Steps, Secret, Public, Planet

\* Power comes, with the flash as it was or erased, and goes.
LEMMA StepPower ==
  ASSUME StoreInv, PowerOn \/ PowerFailure
  PROVE  StoreInv'
  <1>1. CASE PowerFailure
    BY <1>1, StoreAssumption
    DEF PowerFailure, StoreInv, SecretOK, PublicOK, PlanetOK, Steps
  <1>2. CASE PowerOn /\ UNCHANGED <<nvs, kept, newest>>
    BY <1>2 DEF PowerOn, StoreInv, SecretOK, PublicOK, PlanetOK, Steps
  <1>3. CASE PowerOn /\ nvs' = <<>> /\ kept' = Nothing /\ newest' = 0
    <2>1. DOMAIN nvs' = {}
      BY <1>3
    <2>2. Secret \notin DOMAIN nvs' /\ Public \notin DOMAIN nvs' /\ Planet \notin DOMAIN nvs'
      BY <2>1
    <2> QED BY <1>3, <2>2 DEF PowerOn, StoreInv, SecretOK, PublicOK, PlanetOK, Steps
  <1> QED BY <1>1, <1>2, <1>3 DEF PowerOn

\* The secret is read, or a new one is made.
LEMMA StepGetSecret ==
  ASSUME Port = "wrapper", StoreInv, LoadSecret \/ Generate
  PROVE  StoreInv'
  <1>0. /\ pc = "getSecret" /\ pc' \in {"getPublic", "putSecret"}
        /\ UNCHANGED <<planet, peers, kept, newest>>
        /\ \E s : Get("secret", 0, s)
    BY DEF LoadSecret, Generate
  <1>1. /\ nvs' = nvs /\ failed \subseteq failed'
        /\ \A o, t : <<o, t>> \in failed' => <<o, t>> \in failed \/ (o = "get" /\ t = "secret")
    BY <1>0, GetEffect
  <1>2. PublicOK' /\ PlanetOK'
    <2>1. Untouched(Public) /\ Untouched(Planet)
      BY <1>1 DEF Untouched
    <2>2. PlanetOK'
      BY <1>0, <1>1, <2>1, PlanetStays DEF StoreInv
    <2>3. PublicOK'
      BY <1>0, <1>1 DEF StoreInv, PublicOK
    <2> QED BY <2>2, <2>3
  <1>3. Found("secret", 0) = IF Secret \in DOMAIN nvs THEN nvs[Secret] ELSE Nothing
    BY Keys DEF Found, Fallback
  <1>4. Found("secret", 0) = kept
    BY <1>3 DEF StoreInv, SecretOK
  <1>5. CASE LoadSecret
    <2>1. PICK s \in Identities \cup {TestIdentity} : Get("secret", 0, s) /\ identity' = s
      BY <1>5 DEF LoadSecret
    <2>2. s # Nothing
      BY StoreAssumption
    <2>3. s = kept
      BY <1>4, <2>1, <2>2, GetEffect
    <2>4. s \in Identities
      BY <2>2, <2>3 DEF StoreInv, SecretOK
    <2> QED BY <1>0, <1>1, <1>2, <1>5, <2>1, <2>3, <2>4 DEF LoadSecret, StoreInv, SecretOK, Steps
  <1>6. CASE Generate
    <2>1. kept = Nothing \/ <<"get", "secret">> \in failed'
      BY <1>4, <1>6, GetEffect DEF Generate
    <2> QED BY <1>0, <1>1, <1>2, <1>6, <2>1 DEF Generate, StoreInv, SecretOK, Steps
  <1> QED BY <1>5, <1>6

\* A new secret replaces what was kept only if that could not be read.
LEMMA StepPutSecret ==
  ASSUME Port = "wrapper", StoreInv, PutSecret
  PROVE  StoreInv'
  <1>0. /\ pc = "putSecret" /\ pc' = "putPublic" /\ UNCHANGED <<identity, planet, peers, newest>>
        /\ identity \in Identities
        /\ Key("secret", identity) = Secret /\ Secret # Public /\ Secret # Planet
    BY Keys DEF PutSecret, StoreInv, SecretOK
  <1>1. Put("secret", identity, identity)
    BY DEF PutSecret, Put
  <1>2. Untouched(Public) /\ Untouched(Planet) /\ failed \subseteq failed'
    BY <1>0, <1>1, PutEffect
  <1>3. PublicOK' /\ PlanetOK'
    <2>1. PlanetOK'
      BY <1>0, <1>2, PlanetStays DEF StoreInv
    <2>2. PublicOK'
      BY <1>0, <1>2 DEF StoreInv, PublicOK, Untouched
    <2> QED BY <2>1, <2>2
  <1>4. CASE /\ Store("secret", identity, identity)
             /\ kept' = IF kept = Nothing \/ <<"get", "secret">> \in failed THEN identity ELSE kept
    <2>1. Secret \in DOMAIN nvs' /\ nvs'[Secret] = identity
      BY <1>0, <1>4, StoreEffect
    <2>2. kept' = identity
      BY <1>0, <1>4 DEF StoreInv, SecretOK
    <2> QED BY <1>0, <1>3, <2>1, <2>2 DEF StoreInv, SecretOK, Steps
  <1>5. CASE Fail("put", "secret") /\ UNCHANGED kept
    <2>1. nvs' = nvs /\ <<"put", "secret">> \in failed'
      BY <1>5, FailEffect
    <2>2. ~ Spared("secret")'
      BY <2>1 DEF Spared
    <2> QED BY <1>0, <1>3, <1>5, <2>1, <2>2 DEF StoreInv, SecretOK, Steps
  <1> QED BY <1>4, <1>5 DEF PutSecret

\* The public identity is stored, or checked and then stored.
LEMMA StepPublic ==
  ASSUME Port = "wrapper", StoreInv, PutPublic \/ CheckPublic
  PROVE  StoreInv'
  <1>1. /\ pc \in {"putPublic", "getPublic"} /\ pc' \in {"planet", "putPublic"}
        /\ UNCHANGED <<identity, planet, peers, kept, newest>>
        /\ identity \in Identities
        /\ Key("public", identity) = Public /\ Secret # Public /\ Planet # Public
    BY Keys DEF PutPublic, CheckPublic, StoreInv, SecretOK
  <1>2. /\ failed \subseteq failed' /\ Untouched(Secret) /\ Untouched(Planet)
        /\ Public \in DOMAIN nvs' => nvs'[Public] \in Identities
        /\ pc' = "planet" /\ Spared("public")' /\ Public \in DOMAIN nvs' => nvs'[Public] = identity
    <2>1. CASE PutPublic
      <3>1. Put("public", identity, identity)
        BY <2>1 DEF PutPublic
      <3>2. /\ failed \subseteq failed' /\ Untouched(Secret) /\ Untouched(Planet)
            /\ \/ Untouched(Public) /\ <<"put", "public">> \in failed'
               \/ Public \in DOMAIN nvs' /\ nvs'[Public] = identity
        BY <1>1, <3>1, PutEffect
      <3> QED BY <1>1, <3>2 DEF StoreInv, PublicOK, Untouched, Spared
    <2>2. CASE CheckPublic
      <3>1. PICK s \in Identities \cup {TestIdentity, Nothing} :
              /\ Get("public", identity, s)
              /\ pc' = IF s \in {Nothing, identity} THEN "planet" ELSE "putPublic"
        BY <2>2 DEF CheckPublic
      <3>2. /\ nvs' = nvs /\ failed \subseteq failed'
            /\ s = Found("public", identity) \/ <<"get", "public">> \in failed'
        BY <3>1, GetEffect
      <3>3. Public \in DOMAIN nvs => Found("public", identity) = nvs[Public] /\ nvs[Public] # Nothing
        BY <1>1, StoreAssumption DEF Found, StoreInv, PublicOK
      <3> QED BY <1>1, <3>1, <3>2, <3>3 DEF StoreInv, PublicOK, Untouched, Spared
    <2> QED BY <2>1, <2>2
  <1>3. SecretOK'
    BY <1>1, <1>2, SecretStays, SparedBack DEF StoreInv, Steps
  <1>4. PlanetOK'
    BY <1>1, <1>2, PlanetStays DEF StoreInv
  <1>5. PublicOK'
    BY <1>1, <1>2 DEF PublicOK
  <1> QED BY <1>3, <1>4, <1>5 DEF StoreInv
-----------------------------------------------------------------------------
(* The planet, and the other steps.                                        *)

\* A step of the planet does nothing to the identity.
LEMMA IdentityApart ==
  ASSUME StoreInv, failed \subseteq failed', Untouched(Secret), Untouched(Public),
         UNCHANGED <<identity, kept>>,
         pc \in {"planet", "default", "up"}, pc' \in {"planet", "default", "up"}
  PROVE  SecretOK' /\ PublicOK'
  <1>1. SecretOK'
    BY SecretStays, SparedBack DEF StoreInv, Steps
  <1>2. PublicOK'
    BY PublicStays, SparedBack DEF StoreInv
  <1> QED BY <1>1, <1>2

\* addWorld, of the planet in flash to begin with, then of any.
LEMMA StepAddWorld ==
  ASSUME Port = "wrapper", StoreInv, NEW v \in Default..(Default + MaxPlanet), AddWorld(v),
         pc \in {"default", "up"} \/ v = newest, pc' \in {"default", "up"}
  PROVE  PlanetOK' /\ failed \subseteq failed' /\ Untouched(Secret) /\ Untouched(Public)
  <1>0. Default \in Nat \ {0} /\ MaxPlanet \in Nat /\ v \in Nat /\ v > 0
    BY StoreAssumption
  <1>1. planet \in Nat /\ newest \in Nat
    BY <1>0 DEF StoreInv, PlanetOK
  <1>2. CASE v > planet /\ UsePlanet(v)
    <2>1. /\ failed \subseteq failed' /\ planet' = v
          /\ \A o, t : <<o, t>> \in failed' => <<o, t>> \in failed \/ (o = "put" /\ t = "planet")
          /\ \A k : k # Planet => Untouched(k)
          /\ \/ Untouched(Planet) /\ newest' = newest
             \/ /\ Planet \in DOMAIN nvs' /\ nvs'[Planet] = v
                /\ newest' = IF v > newest \/ <<"get", "planet">> \in failed THEN v ELSE newest
      BY <1>2, UsePlanetEffect
    <2>2. Secret # Planet /\ Public # Planet
      BY Keys
    <2>3. <<"get", "planet">> \in failed' <=> <<"get", "planet">> \in failed
      BY <2>1
    <2>4. <<"get", "planet">> \notin failed => v >= newest
      BY <1>0, <1>1, <1>2 DEF StoreInv, PlanetOK
    <2>5. v \in 0..(Default + MaxPlanet)
      BY <1>0
    <2>6. CASE Untouched(Planet) /\ newest' = newest
      BY <1>0, <1>1, <2>1, <2>3, <2>4, <2>5, <2>6 DEF StoreInv, PlanetOK, Untouched
    <2>7. CASE /\ Planet \in DOMAIN nvs' /\ nvs'[Planet] = v
               /\ newest' = IF v > newest \/ <<"get", "planet">> \in failed THEN v ELSE newest
      <3>1. newest' = v
        BY <1>0, <1>1, <2>4, <2>7
      <3> QED BY <1>0, <2>1, <2>2, <2>5, <2>7, <3>1 DEF PlanetOK
    <2>8. PlanetOK'
      BY <2>1, <2>6, <2>7
    <2> QED BY <2>1, <2>2, <2>8
  <1>3. CASE v <= planet /\ UNCHANGED <<planet, nvs, newest, failed>>
    <2>1. pc \in {"default", "up"}
      BY <1>0, <1>1, <1>3 DEF StoreInv, PlanetOK
    <2> QED BY <1>3, <2>1 DEF StoreInv, PlanetOK, Untouched
  <1> QED BY <1>2, <1>3 DEF AddWorld

\* The planets that the node boots with, and those that it hears of.
LEMMA StepPlanet ==
  ASSUME Port = "wrapper", StoreInv,
         \/ CachedPlanet \/ DefaultPlanet
         \/ \E v \in Default..(Default + MaxPlanet) : LearnWorld(v)
  PROVE  StoreInv'
  <1>0. Default \in Default..(Default + MaxPlanet) /\ Nothing \notin Default..(Default + MaxPlanet)
    BY StoreAssumption
  <1>1. /\ pc \in {"planet", "default", "up"} /\ pc' \in {"default", "up"}
        /\ UNCHANGED <<identity, kept>>
    BY DEF CachedPlanet, DefaultPlanet, LearnWorld
  <1>2. CASE \E v \in Default..(Default + MaxPlanet) :
               AddWorld(v) /\ (pc \in {"default", "up"} \/ v = newest)
    BY <1>1, <1>2, StepAddWorld, IdentityApart DEF StoreInv
  <1>3. CASE CachedPlanet /\ Get("planet", 0, Nothing) /\ UNCHANGED <<planet, newest>>
    <2>1. /\ nvs' = nvs /\ failed \subseteq failed' /\ pc = "planet"
          /\ Found("planet", 0) = Nothing \/ <<"get", "planet">> \in failed'
      BY <1>3, GetEffect DEF CachedPlanet
    <2>2. Found("planet", 0) = IF Planet \in DOMAIN nvs THEN nvs[Planet] ELSE Nothing
      BY Keys DEF Found, Fallback
    <2>3. <<"get", "planet">> \notin failed' => newest = 0
      BY <1>0, <2>1, <2>2 DEF StoreInv, PlanetOK
    <2>4. planet = 0
      BY <2>1 DEF StoreInv, PlanetOK
    <2>5. PlanetOK'
      BY <1>1, <1>3, <2>1, <2>3, <2>4, StoreAssumption DEF StoreInv, PlanetOK
    <2> QED BY <1>1, <2>1, <2>5, IdentityApart DEF StoreInv, Untouched
  <1>4. CASE CachedPlanet /\ Found("planet", 0) # Nothing /\ AddWorld(Found("planet", 0))
    <2>1. Found("planet", 0) = IF Planet \in DOMAIN nvs THEN nvs[Planet] ELSE Nothing
      BY Keys DEF Found, Fallback
    <2>2. Found("planet", 0) \in Default..(Default + MaxPlanet) /\ Found("planet", 0) = newest
      BY <1>4, <2>1 DEF StoreInv, PlanetOK
    <2> QED BY <1>2, <1>4, <2>2
  <1>5. CASE DefaultPlanet
    BY <1>0, <1>2, <1>5 DEF DefaultPlanet
  <1>6. CASE \E v \in Default..(Default + MaxPlanet) : LearnWorld(v)
    BY <1>2, <1>6 DEF LearnWorld
  <1> QED BY <1>3, <1>4, <1>5, <1>6 DEF CachedPlanet

\* The cache of peers has keys of its own.
LEMMA StepPeers ==
  ASSUME Port = "wrapper", StoreInv, \E a \in Peers : AddPeer(a) \/ GetPeer(a) \/ SavePeer(a)
  PROVE  StoreInv'
  <1>1. /\ pc = "up" /\ pc' = "up" /\ UNCHANGED <<identity, planet, kept, newest>>
    BY DEF AddPeer, GetPeer, SavePeer
  <1>2. /\ failed \subseteq failed'
        /\ Untouched(Secret) /\ Untouched(Public) /\ Untouched(Planet)
        /\ <<"get", "planet">> \in failed => <<"get", "planet">> \in failed'
    <2>1. CASE \E a \in Peers : AddPeer(a)
      BY <2>1 DEF AddPeer, Untouched
    <2>2. CASE \E a \in Peers : GetPeer(a)
      BY <2>2, GetEffect DEF GetPeer, Untouched
    <2>3. CASE \E a \in Peers : SavePeer(a)
      <3>1. PICK a \in Peers : SavePeer(a)
        BY <2>3
      <3>2. Put("peer", peers[a], peers[a])
        BY <3>1 DEF SavePeer
      <3>3. \A k \in {Secret, Public, Planet} : k # Key("peer", peers[a])
        BY Keys
      <3> QED BY <3>2, <3>3, PutEffect
    <2> QED BY <2>1, <2>2, <2>3
  <1>3. PlanetOK'
    BY <1>1, <1>2, PlanetStays DEF StoreInv
  <1> QED BY <1>1, <1>2, <1>3, IdentityApart DEF StoreInv

\* Every step keeps the invariant.
LEMMA StepStore ==
  ASSUME Port = "wrapper", StoreInv, [Next]_vars
  PROVE  StoreInv'
  <1>1. CASE UNCHANGED vars
    BY <1>1 DEF vars, StoreInv, SecretOK, PublicOK, PlanetOK, Spared
  <1> QED
    BY <1>1, StepPower, StepGetSecret, StepPutSecret, StepPublic, StepPlanet, StepPeers
    DEF Next, Boot

\* The invariant holds in the wrapper firmware, whatever fails and whenever.
THEOREM StoreInvariant == Port = "wrapper" => (Spec => []StoreInv)
  <1> SUFFICES ASSUME Port = "wrapper" PROVE Spec => []StoreInv
    OBVIOUS
  <1>1. StoreInv /\ [Next]_vars => StoreInv'
    BY StepStore
  <1> QED BY <1>1, InitStore, PTL DEF Spec

\* A secret identity that was stored is the node's after every later boot in which
\* it can be read (Node::Node with zt_state_put and zt_state_get), until the
\* partition is erased.
THEOREM SameNode == Port = "wrapper" => (Spec => []SameIdentity)
  <1> SUFFICES ASSUME Port = "wrapper" PROVE Spec => []SameIdentity
    OBVIOUS
  <1>1. StoreInv => SameIdentity
    BY DEF StoreInv, SecretOK, SameIdentity
  <1> QED BY <1>1, StoreInvariant, PTL

\* A boot that can read and store the public identity leaves none but its own
\* (Node::Node), whatever earlier ones left behind.
THEOREM PublicOwn == Port = "wrapper" => (Spec => []PublicMatches)
  <1> SUFFICES ASSUME Port = "wrapper" PROVE Spec => []PublicMatches
    OBVIOUS
  <1>1. StoreInv => PublicMatches
    BY Keys DEF StoreInv, PublicOK, PublicMatches, Found, Fallback
  <1> QED BY <1>1, StoreInvariant, PTL

\* A planet that was stored (Topology::addWorld) is not lost to an older one by a
\* restart that can read it, whichever puts failed.
THEOREM PlanetKept == Port = "wrapper" => (Spec => []NewestPlanet)
  <1> SUFFICES ASSUME Port = "wrapper" PROVE Spec => []NewestPlanet
    OBVIOUS
  <1>1. StoreInv => NewestPlanet
    BY DEF StoreInv, PlanetOK, NewestPlanet
  <1> QED BY <1>1, StoreInvariant, PTL
-----------------------------------------------------------------------------
(* The cache of peers, in either firmware.                                 *)

\* Peers are cached under their own keys, and found under keys that are the same.
CacheInv ==
  /\ \A k \in DOMAIN nvs : k[1] = "peer" => nvs[k] \in Peers /\ k = <<"peer", Low[nvs[k]]>>
  /\ peers \in [Peers -> Peers \cup {Nothing}]
  /\ PeersAlike

\* What is cached is cached under its key.
CachedRight(cache) ==
  \A k \in DOMAIN cache : k[1] = "peer" => cache[k] \in Peers /\ k = <<"peer", Low[cache[k]]>>

\* Storing an object that is not a peer leaves the cached peers alone.
LEMMA CacheStays ==
  ASSUME CachedRight(nvs), NEW type \in {"secret", "public", "planet"}, NEW id, NEW object,
         Store(type, id, object)
  PROVE  CachedRight(nvs')
  <1>1. Key(type, id)[1] = type
    BY DEF Key
  <1>2. ASSUME NEW k \in DOMAIN nvs', k[1] = "peer"
        PROVE  nvs'[k] \in Peers /\ k = <<"peer", Low[nvs'[k]]>>
    <2>1. k # Key(type, id)
      BY <1>1, <1>2
    <2>2. k \in DOMAIN nvs /\ nvs'[k] = nvs[k]
      BY <1>2, <2>1, StoreEffect
    <2> QED BY <1>2, <2>2 DEF CachedRight
  <1> QED BY <1>2 DEF CachedRight

\* Every step keeps the invariant of the cache.
LEMMA StepCache ==
  ASSUME CacheInv, [Next]_vars
  PROVE  CacheInv'
  <1>0. CachedRight(nvs) /\ peers \in [Peers -> Peers \cup {Nothing}] /\ PeersAlike
    BY DEF CacheInv, CachedRight
  <1>1. CASE UNCHANGED vars
    BY <1>1 DEF vars, CacheInv, PeersAlike
  <1>2. CASE PowerOn
    <2>1. UNCHANGED peers /\ (nvs' = nvs \/ DOMAIN nvs' = {})
      BY <1>2 DEF PowerOn
    <2> QED BY <2>1 DEF CacheInv, PeersAlike
  <1>3. CASE PowerFailure
    BY <1>3 DEF PowerFailure, NoPeers, CacheInv, PeersAlike
  <1>4. CASE Boot \/ \E v \in Default..(Default + MaxPlanet) : LearnWorld(v)
    <2>1. UNCHANGED peers
      BY <1>4
      DEF Boot, LoadSecret, Generate, PutSecret, PutPublic, CheckPublic, CachedPlanet,
          DefaultPlanet, LearnWorld
    <2>2. \/ UNCHANGED nvs
          \/ \E type \in {"secret", "public", "planet"} : \E id, object : Store(type, id, object)
      BY <1>4
      DEF Boot, LoadSecret, Generate, PutSecret, PutPublic, CheckPublic, CachedPlanet,
          DefaultPlanet, LearnWorld, AddWorld, UsePlanet, Put, Get, Fail
    <2>3. CachedRight(nvs')
      BY <1>0, <2>2, CacheStays
    <2> QED BY <1>0, <2>1, <2>3 DEF CacheInv, CachedRight, PeersAlike
  <1>5. CASE \E a \in Peers : AddPeer(a)
    BY <1>5 DEF AddPeer, CacheInv, PeersAlike
  <1>6. CASE \E a \in Peers : GetPeer(a)
    <2>1. PICK a \in Peers : GetPeer(a)
      BY <1>6
    <2>2. PICK p \in Peers \cup {Nothing} : Get("peer", a, p) /\ peers' = [peers EXCEPT ![a] = p]
      BY <2>1 DEF GetPeer
    <2>3. nvs' = nvs /\ (p = Found("peer", a) \/ p = Nothing)
      BY <2>2 DEF Get, Fallback, Fail
    <2>4. Key("peer", a) = <<"peer", Low[a]>> /\ Fallback("peer") = Nothing
      BY DEF Key, Fallback
    <2>5. p # Nothing => <<"peer", Low[a]>> \in DOMAIN nvs /\ p = nvs[<<"peer", Low[a]>>]
      BY <2>3, <2>4 DEF Found
    <2>6. p # Nothing => Low[p] = Low[a]
      <3> SUFFICES ASSUME p # Nothing PROVE Low[p] = Low[a]
        OBVIOUS
      <3>1. <<"peer", Low[a]>> = <<"peer", Low[p]>>
        BY <1>0, <2>5 DEF CachedRight
      <3> QED BY <3>1
    <2> QED BY <1>0, <2>2, <2>3, <2>6 DEF CacheInv, CachedRight, PeersAlike
  <1>7. CASE \E a \in Peers : SavePeer(a)
    <2>1. PICK a \in Peers : SavePeer(a)
      BY <1>7
    <2>2. peers[a] \in Peers /\ peers' = [peers EXCEPT ![a] = Nothing]
      BY <1>0, <2>1 DEF SavePeer
    <2>3. Put("peer", peers[a], peers[a]) /\ Key("peer", peers[a]) = <<"peer", Low[peers[a]]>>
      BY <2>1 DEF SavePeer, Key
    <2>4. CachedRight(nvs')
      <3>1. CASE Store("peer", peers[a], peers[a])
        BY <1>0, <2>2, <2>3, <3>1, StoreEffect DEF CachedRight
      <3>2. CASE Fail("put", "peer")
        BY <1>0, <3>2 DEF Fail
      <3> QED BY <2>3, <3>1, <3>2 DEF Put
    <2> QED BY <1>0, <2>2, <2>4 DEF CacheInv, CachedRight, PeersAlike
  <1> QED BY <1>1, <1>2, <1>3, <1>4, <1>5, <1>6, <1>7 DEF Next

\* A peer from the cache (Topology::getPeer, _savePeer) is the one its address
\* belongs to, or one that has the low 32 bits of its address in common with it.
THEOREM CachedPeersAlike == Spec => []PeersAlike
  <1>1. Init => CacheInv
    BY DEF Init, NoPeers, CacheInv, PeersAlike
  <1>2. CacheInv /\ [Next]_vars => CacheInv'
    BY StepCache
  <1>3. CacheInv => PeersAlike
    BY DEF CacheInv
  <1> QED BY <1>1, <1>2, <1>3, PTL DEF Spec
-----------------------------------------------------------------------------
(* The contact with the roots, and the online status (NodeOnline).         *)

\* The constants are numbers.
LEMMA OnlineConstants ==
  /\ Interval \in Nat \ {0} /\ HelloPeriod \in Nat \ {0} /\ PingPeriod \in Nat \ {0}
  /\ Expiration \in Nat \ {0} /\ Timeout \in Nat \ {0} /\ MaxLost \in Nat
  /\ 2 * (HelloPeriod + Interval) < Timeout /\ MaxLost > 1
  BY OnlineAssumption

\* A saturated age grows by one, or stays at its cap.
LEMMA OnlineOlderFacts ==
  ASSUME NEW cap \in Nat, NEW age \in 0..cap
  PROVE  Older(age, cap) \in 0..cap /\ Older(age, cap) <= age + 1
         /\ (age < cap => Older(age, cap) = age + 1)
  BY DEF Older

\* At boot the invariant holds.
LEMMA OnlineInitIInv == OnlineInit => OnlineIInv
  <1> SUFFICES ASSUME OnlineInit PROVE OnlineIInv
    OBVIOUS
  <1>1. Cap \in Nat
    BY OnlineConstants DEF Cap
  <1>2. OnlineTypeOK
    <2>1. /\ 0 \in 0..Cap /\ 0 \in 0..(HelloPeriod + 1) /\ Expiration \in 0..Expiration
          /\ 0 \in 0..Interval /\ 0 \in 0..MaxLost
      BY <1>1, OnlineConstants
    <2>2. path \in [Roots -> BOOLEAN]
      BY Zenon DEF OnlineInit
    <2> QED BY <2>1, <2>2 DEF OnlineInit, OnlineTypeOK, NoCheck
  <1>3. CheckOK /\ FreshOK /\ ContactOK
    BY DEF OnlineInit, NoCheck, CheckOK, FreshOK, ContactOK
  <1> QED BY <1>2, <1>3 DEF OnlineIInv

\* The newest receive time that a check sees is one of those that it looks at.
LEMMA OnlineSeenFacts ==
  ASSUME OnlineTypeOK
  PROVE  LET S == {uptime} \cup {lastReceive[r] : r \in Roots}
         IN /\ Min(S) \in 0..Cap
            /\ uptime = Min(S) \/ \E r \in Roots : lastReceive[r] = Min(S)
  <1> DEFINE S == {uptime} \cup {lastReceive[r] : r \in Roots}
  <1>1. Cap \in Nat
    BY OnlineConstants DEF Cap
  <1>2. S \in SUBSET (0..Cap) /\ S # {} /\ S \in SUBSET Nat
    BY <1>1 DEF OnlineTypeOK
  <1>3. Min(S) \in S
    <2> HIDE DEF S
    <2> QED BY <1>2, MinOf
  <1>4. Min(S) \in 0..Cap
    <2> HIDE DEF S
    <2> QED BY <1>2, <1>3
  <1> QED BY <1>3, <1>4

\* A check begins: it sees the newest receive time, and has every root before it.
LEMMA OnlineStepBeginCheck ==
  ASSUME OnlineIInv, BeginCheck
  PROVE  OnlineIInv'
  <1> DEFINE S == {uptime} \cup {lastReceive[r] : r \in Roots}
  <1>1. /\ ~ check.on /\ sinceCheck >= Interval /\ sinceCheck' = 0
        /\ check' = [on |-> TRUE, todo |-> Roots, seen |-> Min(S)]
        /\ UNCHANGED <<uptime, lastReceive, lastHello, path, lr, online, asked, lost, heard>>
    BY DEF BeginCheck
  <1>2. Min(S) \in 0..Cap /\ (uptime = Min(S) \/ \E r \in Roots : lastReceive[r] = Min(S))
    BY OnlineSeenFacts DEF OnlineIInv
  <1> HIDE DEF S
  <1>3. OnlineTypeOK'
    BY <1>1, <1>2, OnlineConstants DEF OnlineIInv, OnlineTypeOK, Cap
  <1>4. sinceCheck = Interval /\ sinceCheck > 0 /\ asked = {}
    BY <1>1, OnlineConstants DEF OnlineIInv, OnlineTypeOK, CheckOK
  <1>5. CheckOK'
    BY <1>1, <1>4 DEF CheckOK
  <1>6. Cap \in Nat /\ Cap = Timeout + sinceCheck
    BY <1>4, OnlineConstants DEF Cap
  <1>7. FreshOK'
    <2>1. FreshWithin(check.seen + 1)'
      BY <1>1, <1>2, <1>6 DEF FreshWithin
    <2>2. online' => FreshWithin(Cap)'
      BY <1>1, <1>6 DEF OnlineIInv, FreshOK, FreshWithin, Cap
    <2> QED BY <1>1, <2>1, <2>2 DEF FreshOK, FreshWithin
  <1>8. ContactOK'
    BY <1>1, <1>4 DEF OnlineIInv, ContactOK, Before, Round, OnlineTypeOK, CheckOK
  <1> QED BY <1>3, <1>5, <1>7, <1>8 DEF OnlineIInv

\* A root that needs no HELLO yet: the last one to it is no older than a period.
LEMMA OnlineStepSkipRoot ==
  ASSUME OnlineIInv, NEW q \in Roots, SkipRoot(q)
  PROVE  OnlineIInv'
  <1>1. /\ q \in check.todo /\ ~ HelloDue(q) /\ check' = [check EXCEPT !.todo = @ \ {q}]
        /\ UNCHANGED <<uptime, lastReceive, lastHello, path, lr, sinceCheck, online, asked, lost, heard>>
    BY DEF SkipRoot
  <1>2. check.on /\ check'.on = check.on /\ check'.seen = check.seen /\ check'.todo = check.todo \ {q}
    BY <1>1 DEF OnlineIInv, OnlineTypeOK, CheckOK
  <1>3. OnlineTypeOK'
    BY <1>1 DEF OnlineIInv, OnlineTypeOK
  <1>4. CheckOK' /\ FreshOK'
    BY <1>1, <1>2 DEF OnlineIInv, CheckOK, FreshOK, FreshWithin
  <1>5. lastHello[q] <= HelloPeriod
    BY <1>1, OnlineConstants DEF HelloDue, OnlineIInv, OnlineTypeOK
  <1>6. ContactOK'
    <2> SUFFICES ASSUME NEW r \in heard, lost[r] <= 1, r \notin asked
                 PROVE  /\ lastHello[r] <= HelloPeriod => lastReceive[r] <= Before(r) + lastHello[r]
                        /\ lastReceive[r] <= Before(r) + HelloPeriod
                                + (IF r \in check.todo \ {q} THEN Interval ELSE sinceCheck)
      BY <1>1, <1>2 DEF OnlineIInv, ContactOK, Before
    <2>1. r \in Roots /\ lastReceive[r] \in Nat /\ lastHello[r] \in Nat /\ Before(r) \in Nat /\ sinceCheck \in Nat
      BY OnlineConstants DEF OnlineIInv, OnlineTypeOK, Before, Round
    <2>2. /\ lastHello[r] <= HelloPeriod => lastReceive[r] <= Before(r) + lastHello[r]
          /\ lastReceive[r] <= Before(r) + HelloPeriod
                                + (IF r \in check.todo THEN Interval ELSE sinceCheck)
      BY DEF OnlineIInv, ContactOK
    <2>3. CASE r = q
      BY <1>5, <2>1, <2>2, <2>3, OnlineConstants
    <2>4. CASE r # q
      BY <2>2, <2>4
    <2> QED BY <2>3, <2>4
  <1> QED BY <1>3, <1>4, <1>6 DEF OnlineIInv

\* A root gets its HELLO, no later than a period and one interval after the last.
LEMMA OnlineStepPingRoot ==
  ASSUME OnlineIInv, NEW q \in Roots, PingRoot(q)
  PROVE  OnlineIInv'
  <1>1. /\ q \in check.todo /\ asked' = asked \cup {q} /\ check' = [check EXCEPT !.todo = @ \ {q}]
        /\ lastHello' = IF lastHello[q] >= PingPeriod THEN [lastHello EXCEPT ![q] = 0] ELSE lastHello
        /\ path' = [path EXCEPT ![q] = @ /\ lr[q] < Expiration]
        /\ UNCHANGED <<uptime, lastReceive, lr, sinceCheck, online, lost, heard>>
    BY DEF PingRoot
  <1>2. check.on /\ check'.on = check.on /\ check'.seen = check.seen /\ check'.todo = check.todo \ {q}
    BY <1>1 DEF OnlineIInv, OnlineTypeOK, CheckOK
  <1>3. OnlineTypeOK'
    <2>1. lastHello' \in [Roots -> 0..(HelloPeriod + 1)]
      BY <1>1, OnlineConstants DEF OnlineIInv, OnlineTypeOK
    <2>2. path' \in [Roots -> BOOLEAN]
      BY <1>1, Zenon DEF OnlineIInv, OnlineTypeOK
    <2> QED BY <1>1, <2>1, <2>2 DEF OnlineIInv, OnlineTypeOK
  <1>4. CheckOK' /\ FreshOK'
    BY <1>1, <1>2 DEF OnlineIInv, CheckOK, FreshOK, FreshWithin
  <1>5. ContactOK'
    <2> SUFFICES ASSUME NEW r \in heard, lost[r] <= 1
                 PROVE  IF r \in asked'
                          THEN lastReceive[r] <= Before(r) + Round
                          ELSE /\ lastHello'[r] <= HelloPeriod => lastReceive[r] <= Before(r) + lastHello'[r]
                               /\ lastReceive[r] <= Before(r) + HelloPeriod
                                     + (IF r \in check.todo \ {q} THEN Interval ELSE sinceCheck)
      BY <1>1, <1>2 DEF ContactOK, Before
    <2>1. r \in Roots /\ lastReceive[r] \in Nat /\ lastHello[r] \in Nat /\ Before(r) \in Nat /\ sinceCheck \in Nat
      BY OnlineConstants DEF OnlineIInv, OnlineTypeOK, Before, Round
    <2>2. IF r \in asked
            THEN lastReceive[r] <= Before(r) + Round
            ELSE /\ lastHello[r] <= HelloPeriod => lastReceive[r] <= Before(r) + lastHello[r]
                 /\ lastReceive[r] <= Before(r) + HelloPeriod
                                + (IF r \in check.todo THEN Interval ELSE sinceCheck)
      BY DEF OnlineIInv, ContactOK
    <2>3. CASE r = q
      <3>1. r \notin asked
        BY <1>1, <2>3 DEF OnlineIInv, CheckOK
      <3> QED BY <1>1, <2>1, <2>2, <2>3, <3>1, OnlineConstants DEF Round
    <2>4. CASE r # q
      <3>1. lastHello'[r] = lastHello[r]
        BY <1>1, <2>1, <2>4 DEF OnlineIInv, OnlineTypeOK
      <3> QED BY <1>1, <2>2, <2>4, <3>1
    <2> QED BY <2>3, <2>4
  <1> QED BY <1>3, <1>4, <1>5 DEF OnlineIInv

\* The check ends, and sets the status by what it saw.
LEMMA OnlineStepUpdateOnline ==
  ASSUME OnlineIInv, UpdateOnline
  PROVE  OnlineIInv'
  <1>1. /\ check.on /\ check.todo = {} /\ online' = (check.seen < Timeout) /\ check' = NoCheck
        /\ UNCHANGED <<uptime, lastReceive, lastHello, path, lr, sinceCheck, asked, lost, heard>>
    BY DEF UpdateOnline
  <1>2. ~ check'.on /\ check'.todo = {}
    BY <1>1 DEF NoCheck
  <1>3. OnlineTypeOK'
    BY <1>1, OnlineConstants DEF OnlineIInv, OnlineTypeOK, NoCheck, Cap
  <1>4. CheckOK'
    BY <1>1, <1>2 DEF OnlineIInv, CheckOK
  <1>5. FreshOK'
    <2>1. sinceCheck = 0 /\ FreshWithin(check.seen + 1) /\ check.seen \in Nat
      BY <1>1, OnlineConstants DEF OnlineIInv, CheckOK, FreshOK, OnlineTypeOK, Cap
    <2>2. check.seen < Timeout => FreshWithin(Timeout)
      BY <2>1, OnlineConstants DEF FreshWithin, OnlineIInv, OnlineTypeOK, Cap
    <2>3. online' => check.seen < Timeout
      BY <1>1
    <2>4. FreshWithin(Timeout) => FreshWithin(Timeout + sinceCheck)'
      BY <1>1, <2>1, OnlineConstants DEF FreshWithin
    <2> QED BY <1>2, <2>2, <2>3, <2>4 DEF FreshOK
  <1>6. ContactOK'
    BY <1>1, <1>2 DEF OnlineIInv, ContactOK, Before
  <1> QED BY <1>3, <1>4, <1>5, <1>6 DEF OnlineIInv

\* A root is heard from.
LEMMA OnlineStepHeard ==
  ASSUME OnlineIInv, NEW q \in Roots, Answer(q) \/ Traffic(q)
  PROVE  OnlineIInv'
  <1>1. /\ lastReceive' = [lastReceive EXCEPT ![q] = 0] /\ lost' = [lost EXCEPT ![q] = 0]
        /\ heard' = heard \cup {q} /\ asked' \subseteq asked /\ asked \ {q} \subseteq asked'
        /\ UNCHANGED <<uptime, lastHello, sinceCheck, check, online>>
    BY DEF Answer, Traffic
  <1>2. lastReceive \in [Roots -> 0..Cap] /\ lost \in [Roots -> 0..MaxLost] /\ Cap \in Nat
    BY OnlineConstants DEF OnlineIInv, OnlineTypeOK, Cap
  <1>3. path' \in [Roots -> BOOLEAN] /\ lr' \in [Roots -> 0..Expiration]
    <2>1. path \in [Roots -> BOOLEAN] /\ lr \in [Roots -> 0..Expiration]
      BY DEF OnlineIInv, OnlineTypeOK
    <2>2. path' \in {path, [path EXCEPT ![q] = TRUE]}
      BY DEF Answer, Traffic
    <2>3. path' \in [Roots -> BOOLEAN]
      BY <2>1, <2>2
    <2>4. lr' \in {lr, [lr EXCEPT ![q] = 0]}
      BY DEF Answer, Traffic
    <2>5. 0 \in 0..Expiration
      BY OnlineConstants
    <2> QED BY <2>1, <2>3, <2>4, <2>5
  <1>4. OnlineTypeOK'
    BY <1>1, <1>2, <1>3, OnlineConstants DEF OnlineIInv, OnlineTypeOK
  <1>5. CheckOK'
    BY <1>1 DEF OnlineIInv, CheckOK
  <1>6. \A r \in Roots : lastReceive'[r] \in Nat /\ lastReceive[r] \in Nat /\ lastReceive'[r] <= lastReceive[r]
    BY <1>1, <1>2
  <1>7. FreshOK'
    <2>1. ASSUME NEW b \in Int, FreshWithin(b) PROVE FreshWithin(b)'
      BY <1>1, <1>6, <2>1 DEF FreshWithin
    <2>2. check.seen + 1 \in Int /\ Cap \in Int /\ Timeout + sinceCheck \in Int
      BY <1>2, OnlineConstants DEF OnlineIInv, OnlineTypeOK
    <2> QED BY <1>1, <2>1, <2>2 DEF OnlineIInv, FreshOK, FreshWithin, Cap
  <1>8. ContactOK'
    <2> SUFFICES ASSUME NEW r \in heard', lost'[r] <= 1
                 PROVE  IF r \in asked'
                          THEN lastReceive'[r] <= Before(r)' + Round
                          ELSE /\ lastHello[r] <= HelloPeriod => lastReceive'[r] <= Before(r)' + lastHello[r]
                               /\ lastReceive'[r] <= Before(r)' + HelloPeriod
                                     + (IF r \in check.todo THEN Interval ELSE sinceCheck)
      BY <1>1 DEF ContactOK, Round
    <2>1. r \in Roots /\ lastHello[r] \in Nat /\ sinceCheck \in Nat
      BY <1>1, OnlineConstants DEF OnlineIInv, OnlineTypeOK
    <2>2. CASE r = q
      <3>1. lastReceive'[r] = 0 /\ Before(r)' = 0
        BY <1>1, <1>2, <2>2 DEF Before
      <3> QED BY <2>1, <3>1, OnlineConstants DEF Round
    <2>3. CASE r # q
      <3>1. r \in heard /\ lastReceive'[r] = lastReceive[r] /\ lost'[r] = lost[r] /\ (r \in asked' <=> r \in asked)
        BY <1>1, <1>2, <2>1, <2>3
      <3> QED BY <3>1 DEF OnlineIInv, ContactOK, Before
    <2> QED BY <2>2, <2>3
  <1> QED BY <1>4, <1>5, <1>7, <1>8 DEF OnlineIInv

\* The second failure in a row is no longer covered; after the first, the root has
\* been silent for one round at most.
LEMMA OnlineStepLose ==
  ASSUME OnlineIInv, NEW q \in Roots, Lose(q)
  PROVE  OnlineIInv'
  <1>1. /\ q \in asked /\ asked' = asked \ {q} /\ lost' = [lost EXCEPT ![q] = Older(@, MaxLost)]
        /\ UNCHANGED <<uptime, lastReceive, lastHello, path, lr, sinceCheck, check, online, heard>>
    BY DEF Lose
  <1>2. lost \in [Roots -> 0..MaxLost] /\ Older(lost[q], MaxLost) \in 0..MaxLost
    BY OnlineConstants, OnlineOlderFacts DEF OnlineIInv, OnlineTypeOK
  <1>3. OnlineTypeOK'
    BY <1>1, <1>2 DEF OnlineIInv, OnlineTypeOK
  <1>4. CheckOK' /\ FreshOK'
    BY <1>1 DEF OnlineIInv, CheckOK, FreshOK, FreshWithin
  <1>5. ContactOK'
    <2> SUFFICES ASSUME NEW r \in heard, lost'[r] <= 1
                 PROVE  IF r \in asked \ {q}
                          THEN lastReceive[r] <= Before(r)' + Round
                          ELSE /\ lastHello[r] <= HelloPeriod => lastReceive[r] <= Before(r)' + lastHello[r]
                               /\ lastReceive[r] <= Before(r)' + HelloPeriod
                                     + (IF r \in check.todo THEN Interval ELSE sinceCheck)
      BY <1>1 DEF ContactOK, Round
    <2>1. /\ r \in Roots /\ lastReceive[r] \in Nat /\ lastHello[r] \in Nat /\ Before(r) \in Nat
          /\ sinceCheck \in Nat /\ lost[r] \in 0..MaxLost
      BY OnlineConstants DEF OnlineIInv, OnlineTypeOK, Before, Round
    <2>2. CASE r = q
      <3>1. lost'[r] = Older(lost[r], MaxLost)
        BY <1>1, <1>2, <2>2
      <3>2. lost[r] = 0 /\ lost'[r] = 1
        BY <2>1, <3>1, OnlineConstants DEF Older
      <3>3. Before(r)' = Round /\ lastReceive[r] <= 0 + Round
        BY <1>1, <2>1, <2>2, <3>2 DEF OnlineIInv, ContactOK, Before
      <3> QED BY <2>1, <2>2, <3>3, OnlineConstants DEF Round
    <2>3. CASE r # q
      <3>1. lost'[r] = lost[r]
        BY <1>1, <1>2, <2>1, <2>3
      <3> QED BY <2>3, <3>1 DEF OnlineIInv, ContactOK, Before
    <2> QED BY <2>2, <2>3
  <1> QED BY <1>3, <1>4, <1>5 DEF OnlineIInv

\* Time passes: no HELLO is under way and no check is due.
LEMMA OnlineStepTick ==
  ASSUME OnlineIInv, Tick
  PROVE  OnlineIInv'
  <1>1. /\ ~ check.on /\ sinceCheck < Interval /\ asked = {}
        /\ uptime' = Older(uptime, Cap)
        /\ lastReceive' = [r \in Roots |-> Older(lastReceive[r], Cap)]
        /\ lastHello' = [r \in Roots |-> Older(lastHello[r], HelloPeriod + 1)]
        /\ lr' = [r \in Roots |-> Older(lr[r], Expiration)]
        /\ sinceCheck' = sinceCheck + 1
        /\ UNCHANGED <<path, check, online, asked, lost, heard>>
    BY DEF Tick
  <1>2. Cap \in Nat /\ Cap = Timeout + Interval /\ sinceCheck \in Nat
    BY OnlineConstants DEF Cap, OnlineIInv, OnlineTypeOK
  <1>3. uptime \in 0..Cap /\ uptime' \in 0..Cap /\ uptime' <= uptime + 1
    BY <1>1, <1>2, OnlineOlderFacts DEF OnlineIInv, OnlineTypeOK
  <1>4. ASSUME NEW r \in Roots
        PROVE  /\ lastReceive[r] \in 0..Cap /\ lastReceive'[r] \in 0..Cap /\ lastReceive'[r] <= lastReceive[r] + 1
               /\ lastHello[r] \in 0..(HelloPeriod + 1) /\ lastHello'[r] \in 0..(HelloPeriod + 1)
               /\ lastHello'[r] <= HelloPeriod => lastHello'[r] = lastHello[r] + 1
               /\ lr'[r] \in 0..Expiration
    <2>1. lastReceive[r] \in 0..Cap /\ lastHello[r] \in 0..(HelloPeriod + 1) /\ lr[r] \in 0..Expiration
      BY DEF OnlineIInv, OnlineTypeOK
    <2>2. /\ lastReceive'[r] = Older(lastReceive[r], Cap) /\ lastHello'[r] = Older(lastHello[r], HelloPeriod + 1)
          /\ lr'[r] = Older(lr[r], Expiration)
      BY <1>1
    <2> QED BY <1>2, <2>1, <2>2, OnlineConstants DEF Older
  <1>5. OnlineTypeOK'
    <2>1. /\ lastReceive' \in [Roots -> 0..Cap] /\ lastHello' \in [Roots -> 0..(HelloPeriod + 1)]
          /\ lr' \in [Roots -> 0..Expiration]
      BY <1>1, <1>4
    <2>2. sinceCheck' \in 0..Interval
      BY <1>1, <1>2, OnlineConstants
    <2> QED BY <1>1, <1>3, <2>1, <2>2 DEF OnlineIInv, OnlineTypeOK
  <1>6. CheckOK'
    BY <1>1 DEF OnlineIInv, CheckOK
  <1>7. FreshOK'
    <2>1. ASSUME online PROVE FreshWithin(Timeout + sinceCheck)'
      <3>1. FreshWithin(Timeout + sinceCheck)
        BY <1>1, <2>1 DEF OnlineIInv, FreshOK
      <3>2. CASE uptime < Timeout + sinceCheck
        BY <1>1, <1>2, <1>3, <3>2, OnlineConstants DEF FreshWithin
      <3>3. CASE \E r \in Roots : lastReceive[r] < Timeout + sinceCheck
        <4>1. PICK r \in Roots : lastReceive[r] < Timeout + sinceCheck
          BY <3>3
        <4>2. lastReceive'[r] < Timeout + sinceCheck'
          BY <1>1, <1>2, <1>4, <4>1, OnlineConstants
        <4> QED BY <4>2 DEF FreshWithin
      <3> QED BY <3>1, <3>2, <3>3 DEF FreshWithin
    <2> QED BY <1>1, <2>1 DEF FreshOK
  <1>8. ContactOK'
    <2> SUFFICES ASSUME NEW r \in heard, lost[r] <= 1
                 PROVE  /\ lastHello'[r] <= HelloPeriod => lastReceive'[r] <= Before(r) + lastHello'[r]
                        /\ lastReceive'[r] <= Before(r) + HelloPeriod + (sinceCheck + 1)
      BY <1>1 DEF OnlineIInv, CheckOK, ContactOK, Before, Round
    <2>1. r \in Roots /\ Before(r) \in Nat
      BY OnlineConstants DEF OnlineIInv, OnlineTypeOK, Before, Round
    <2>2. /\ lastHello[r] <= HelloPeriod => lastReceive[r] <= Before(r) + lastHello[r]
          /\ lastReceive[r] <= Before(r) + HelloPeriod + sinceCheck
      BY <1>1 DEF OnlineIInv, CheckOK, ContactOK
    <2> QED BY <1>2, <1>4, <2>1, <2>2, OnlineConstants
  <1> QED BY <1>5, <1>6, <1>7, <1>8 DEF OnlineIInv

\* Every step keeps the invariant.
LEMMA OnlineStepIInv == OnlineIInv /\ [OnlineNext]_onlineVars => OnlineIInv'
  <1> SUFFICES ASSUME OnlineIInv, [OnlineNext]_onlineVars PROVE OnlineIInv'
    OBVIOUS
  <1>1. CASE UNCHANGED onlineVars
    BY <1>1 DEF OnlineIInv, OnlineTypeOK, CheckOK, FreshOK, FreshWithin, ContactOK, Before, onlineVars
  <1>2. CASE OnlineNext
    BY <1>2, OnlineStepBeginCheck, OnlineStepSkipRoot, OnlineStepPingRoot,
       OnlineStepUpdateOnline, OnlineStepHeard, OnlineStepLose, OnlineStepTick
    DEF OnlineNext
  <1> QED BY <1>1, <1>2

\* The inductive invariant of the ping check holds always: the silence of a root is
\* bounded by its exchanges (Node::processBackgroundTasks, _PingPeersThatNeedPing).
THEOREM OnlineInvariant == OnlineSpec => []OnlineIInv
  BY OnlineInitIInv, OnlineStepIInv, PTL DEF OnlineSpec

\* A root of which at most one exchange in a row failed never counts as silent: two
\* rounds of HELLOs fit into ZT_PEER_ACTIVITY_TIMEOUT, although a root with a path
\* is asked so rarely, and an expired path is noticed only at the next HELLO.
THEOREM LossForgiven == OnlineSpec => []OneLossForgiven
  <1>1. OnlineIInv => OneLossForgiven
    <2> SUFFICES ASSUME OnlineIInv, NEW r \in heard, lost[r] <= 1
                 PROVE  lastReceive[r] < Timeout
      BY DEF OneLossForgiven
    <2>1. r \in Roots /\ lastReceive[r] \in Nat /\ sinceCheck \in 0..Interval
      BY OnlineConstants DEF OnlineIInv, OnlineTypeOK, Cap
    <2>2. Before(r) \in {0, Round}
      BY DEF Before
    <2>3. lastReceive[r] <= Before(r) + Round
      <3>1. CASE r \in asked
        BY <3>1 DEF OnlineIInv, ContactOK
      <3>2. CASE r \notin asked
        <4>1. lastReceive[r] <= Before(r) + HelloPeriod
                                + (IF r \in check.todo THEN Interval ELSE sinceCheck)
          BY <3>2 DEF OnlineIInv, ContactOK
        <4> QED BY <2>1, <2>2, <4>1, OnlineConstants DEF Round
      <3> QED BY <3>1, <3>2
    <2> QED BY <2>1, <2>2, <2>3, OnlineConstants DEF Round
  <1> QED BY <1>1, OnlineInvariant, PTL

\* _online is never older than the last check, whatever comes in during a check: an
\* online node heard a root less than the timeout and one interval ago.
THEOREM StatusFresh == OnlineSpec => []OnlineFresh
  <1>1. OnlineIInv => OnlineFresh
    <2> SUFFICES ASSUME OnlineIInv, online
                 PROVE  uptime < Cap \/ \E r \in Roots : lastReceive[r] < Cap
      BY DEF OnlineFresh
    <2>1. FreshWithin(IF check.on THEN Cap ELSE Timeout + sinceCheck)
      BY DEF OnlineIInv, FreshOK
    <2>2. sinceCheck \in 0..Interval /\ Cap = Timeout + Interval
      BY DEF OnlineIInv, OnlineTypeOK, Cap
    <2>3. uptime \in Nat /\ \A r \in Roots : lastReceive[r] \in Nat
      BY OnlineConstants DEF OnlineIInv, OnlineTypeOK, Cap
    <2>4. CASE check.on
      BY <2>1, <2>4 DEF FreshWithin
    <2>5. CASE ~ check.on
      BY <2>1, <2>2, <2>3, <2>5, OnlineConstants DEF FreshWithin
    <2> QED BY <2>4, <2>5
  <1> QED BY <1>1, OnlineInvariant, PTL
=============================================================================
