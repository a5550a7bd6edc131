----------------------------- MODULE PairingKeys -----------------------------
(***************************************************************************)
(* How each end of the Reachy link finds the keys of a frame.  A resolution *)
(* asks its stores one after the other (the pairing row, the endpoint, the  *)
(* key binding, the signing key, the HMAC root), and each question is an    *)
(* await: between two of them the pairing may be rotated, replaced or       *)
(* revoked.  The stores are ports of the code, so an answer is any value a  *)
(* store can hold by then, one generation or the next of every part, or a   *)
(* refusal; nothing ties it to the answers before.  What ties the parts     *)
(* together is only what the resolver compares.                             *)
(*                                                                         *)
(* A generation stands for the id, generation and digest the code compares  *)
(* together.  Bytes are named by the generation whose digest they have.     *)
(***************************************************************************)
EXTENDS Naturals

CONSTANTS MaxKeyGeneration   \* bound: generations of each part

VARIABLES res   \* the resolution: what was asked, what was read, where it is

pairingVars == <<res>>

-----------------------------------------------------------------------------
KeyGeneration == 1..MaxKeyGeneration

\* PairingMaterial and the endpoint it must agree with: the certificates and
\* the TLS key (endpoint), the core's and the device's signing key, the HMAC root.
PairingMaterial == [endpoint : KeyGeneration, server : KeyGeneration, device : KeyGeneration,
             hmac : KeyGeneration]

\* A binding repeats the stable part of the material and names the keys of one
\* direction.  window: where now lies relative to active_from..accept_until.
Binding == [direction : {"core_to_edge", "edge_to_core"}, endpoint : KeyGeneration,
            server : KeyGeneration, signing : KeyGeneration, hmac : KeyGeneration,
            window : {"early", "open", "over"}]

Idle == [at |-> "idle"]

PairingInit == res = Idle

\* A resolution begins, over a TLS peer certificate: the keys an end sends
\* with now, or the keys a received frame names.
MayBegin == res.at \in {"idle", "resolved", "refused"}

CoreSends(peer) ==
    /\ MayBegin
    /\ res' = [at |-> "row", end |-> "core", way |-> "out", peer |-> peer]

CoreReceives(peer, signing, hmac) ==
    /\ MayBegin
    /\ res' = [at |-> "row", end |-> "core", way |-> "in", peer |-> peer,
               signing |-> signing, hmac |-> hmac]

EdgeSends(peer) ==
    /\ MayBegin
    /\ res' = [at |-> "state", end |-> "edge", way |-> "out", peer |-> peer]

EdgeReceives(peer, signing, hmac) ==
    /\ MayBegin
    /\ res' = [at |-> "state", end |-> "edge", way |-> "in", peer |-> peer,
               signing |-> signing, hmac |-> hmac]

\* The store refuses (revoked, unknown key, unreadable): PermissionError.
StoreRefuses ==
    /\ res.at \in {"row", "state", "endpoint", "binding", "signing", "hmac"}
    /\ res' = [at |-> "refused"]

\* r goes on at the next store if it may, and ends with a refusal otherwise.
GoOn(may, r) == res' = IF may THEN r ELSE [at |-> "refused"]

Extend(place, more) ==
    [f \in DOMAIN res \cup DOMAIN more |->
        IF f = "at" THEN place ELSE IF f \in DOMAIN more THEN more[f] ELSE res[f]]

Direction ==
    IF (res.end = "core") = (res.way = "out") THEN "core_to_edge" ELSE "edge_to_core"

-----------------------------------------------------------------------------
\* The core's pairing row, then its endpoint, which must agree.
CoreReadsRow(material) ==
    /\ res.at = "row"
    /\ res' = Extend("endpoint", [material |-> material])

\* The edge has both in one commissioning state, read without an await.
EdgeReadsState(material) ==
    /\ res.at = "state"
    /\ GoOn(res.peer = material.endpoint, Extend("binding", [material |-> material]))

\* validate_pairing.
ValidatePairing(material, endpoint) == material = endpoint

CoreReadsEndpoint(endpoint) ==
    /\ res.at = "endpoint"
    /\ GoOn(/\ ValidatePairing(res.material, endpoint)
            /\ res.peer = res.material.endpoint,
            Extend("binding", [endpoint |-> endpoint]))

-----------------------------------------------------------------------------
\* _current_signing_tuple.
CurrentSigning(material, direction) ==
    IF direction = "core_to_edge" THEN material.server ELSE material.device

\* A plausible bug: the keys of a binding may be older than the material's.
CoreBindingIsStable(binding, material) ==
    /\ binding.direction = Direction
    /\ binding.window = "open"
    /\ binding.endpoint = material.endpoint
    /\ binding.server = material.server

\* _require_binding_matches_pairing of the core: the parts that a key rotation
\* leaves alone always, the keys too when they are for sending.
CoreBindingMatches(binding, material) ==
    /\ binding.direction = Direction
    /\ binding.window = "open"
    /\ binding.endpoint = material.endpoint
    /\ binding.server = material.server
    /\ res.way = "out" => /\ binding.signing = CurrentSigning(material, Direction)
                          /\ binding.hmac = material.hmac

\* The edge's lets the server key of a received frame be another than the
\* material's, as long as it is the key that signs.
EdgeBindingMatches(binding, material) ==
    /\ binding.direction = Direction
    /\ binding.window = "open"
    /\ binding.endpoint = material.endpoint
    /\ IF res.way = "in"
       THEN binding.server = binding.signing
       ELSE /\ binding.server = material.server
            /\ binding.signing = CurrentSigning(material, Direction)
            /\ binding.hmac = material.hmac

\* _require_requested_binding: a received frame gets the keys it names.
RequestedBinding(binding) ==
    res.way = "in" => binding.signing = res.signing /\ binding.hmac = res.hmac

CoreReadsBinding(binding) ==
    /\ res.at = "binding" /\ res.end = "core"
    /\ GoOn(CoreBindingMatches(binding, res.material) /\ RequestedBinding(binding),
            Extend("signing", [binding |-> binding]))

EdgeReadsBinding(binding) ==
    /\ res.at = "binding" /\ res.end = "edge"
    /\ GoOn(EdgeBindingMatches(binding, res.material) /\ RequestedBinding(binding),
            Extend("signing", [binding |-> binding]))

-----------------------------------------------------------------------------
\* The signing key under the binding's id, whatever generation it is by now,
\* must have the digest of the binding; so must the HMAC root.
SigningMatches(key) == key = res.binding.signing

HmacMatches(root) == root = res.binding.hmac

CoreReadsSigning(key) ==
    /\ res.at = "signing" /\ res.end = "core"
    /\ GoOn(SigningMatches(key), Extend("hmac", [signer |-> key]))

CoreReadsHmac(root) ==
    /\ res.at = "hmac"
    /\ GoOn(HmacMatches(root), Extend("resolved", [root |-> root]))

\* The edge's own keys are files; what it reads must also have the digests of
\* the endpoint.
EdgeLoadsKeys(key, root) ==
    /\ res.at = "signing" /\ res.end = "edge" /\ res.way = "out"
    /\ GoOn(/\ SigningMatches(key) /\ key = res.material.device
            /\ HmacMatches(root) /\ root = res.material.hmac,
            Extend("resolved", [signer |-> key, root |-> root]))

\* The core's keys come to the edge with the binding.
EdgeTakesKeys(key, root) ==
    /\ res.at = "signing" /\ res.end = "edge" /\ res.way = "in"
    /\ GoOn(SigningMatches(key) /\ HmacMatches(root),
            Extend("resolved", [signer |-> key, root |-> root]))

PairingNext ==
    \/ StoreRefuses
    \/ \E p \in KeyGeneration : CoreSends(p) \/ EdgeSends(p)
    \/ \E p, s, h \in KeyGeneration : CoreReceives(p, s, h) \/ EdgeReceives(p, s, h)
    \/ \E m \in PairingMaterial : CoreReadsRow(m) \/ EdgeReadsState(m) \/ CoreReadsEndpoint(m)
    \/ \E b \in Binding : CoreReadsBinding(b) \/ EdgeReadsBinding(b)
    \/ \E g \in KeyGeneration : CoreReadsSigning(g) \/ CoreReadsHmac(g)
    \/ \E g, h \in KeyGeneration : EdgeLoadsKeys(g, h) \/ EdgeTakesKeys(g, h)

PairingSpec == PairingInit /\ [][PairingNext]_pairingVars

-----------------------------------------------------------------------------
\* Keys are never handed out mixed, whatever was rotated between the reads.
\* Those for sending are the signing key of this end and the HMAC root of the
\* very material that is handed out with them; those for a received frame are
\* the ones the frame names, from a binding that accepts frames now; and the
\* TLS peer is the one of that material.
ResolvedIsCoherent ==
    res.at = "resolved" =>
        /\ res.peer = res.material.endpoint
        /\ res.binding.endpoint = res.material.endpoint
        /\ res.binding.window = "open"
        /\ res.way = "out" => /\ res.signer = CurrentSigning(res.material, Direction)
                              /\ res.root = res.material.hmac
        /\ res.way = "in" => res.signer = res.signing /\ res.root = res.hmac
=============================================================================
