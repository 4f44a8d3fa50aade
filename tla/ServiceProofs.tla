----------------------------- MODULE ServiceProofs -----------------------------
(***************************************************************************)
(* The SOAP services, for any configurations, request bodies and number of *)
(* cache slots: types; the first start; what is advertised, acknowledged   *)
(* and accepted.                                                           *)
(***************************************************************************)
EXTENDS ServiceProperties, TLAPS

(* What is sent to the handlers is the name of an action of the service,   *)
(* or "fault".                                                             *)
LEMMA Dispatched ==
    ASSUME NEW u \in URIs, NEW b
    PROVE  Dispatch(u, b) \in Handlers
  <1> DEFINE IsFirst(i) == /\ ActionsOf[u][i] \in b.mentions
                           /\ \A j \in 1 .. i - 1 : ActionsOf[u][j] \notin b.mentions
  <1>1. CASE b # NoBody /\ \E i \in DOMAIN ActionsOf[u] : IsFirst(i)
    <2>1. PICK k \in DOMAIN ActionsOf[u] : k = CHOOSE i \in DOMAIN ActionsOf[u] : IsFirst(i)
      BY <1>1
    <2>2. Dispatch(u, b) = ActionsOf[u][k]
      BY <1>1, <2>1 DEF Dispatch
    <2>3. QED
      BY <2>2 DEF Handlers
  <1>2. CASE ~(b # NoBody /\ \E i \in DOMAIN ActionsOf[u] : IsFirst(i))
    BY <1>2 DEF Dispatch, Handlers
  <1>3. QED
    BY <1>1, <1>2

(* A nonce is written over the oldest one.                                 *)
LEMMA RememberTypes ==
    ASSUME NEW cache \in Cache, NEW nonce \in Nonces
    PROVE  /\ Remember(cache, nonce) \in Cache
           /\ Remember(cache, nonce).slots = [cache.slots EXCEPT ![cache.next] = nonce]
           /\ Remember(cache, nonce).next = IF cache.next = NonceSlots - 1 THEN 0
                                            ELSE cache.next + 1
  <1>1. /\ NonceSlots \in Nat \ {0} /\ cache.next \in 0 .. NonceSlots - 1
        /\ cache.slots \in [0 .. NonceSlots - 1 -> Nonces \cup {NoNonce}]
    BY WsseAssumption DEF Cache
  <1>2. (cache.next + 1) % NonceSlots = IF cache.next = NonceSlots - 1 THEN 0
                                        ELSE cache.next + 1
    BY ONLY <1>1
  <1>3. (cache.next + 1) % NonceSlots \in 0 .. NonceSlots - 1
    BY ONLY <1>1, <1>2
  <1>4. [cache.slots EXCEPT ![cache.next] = nonce]
          \in [0 .. NonceSlots - 1 -> Nonces \cup {NoNonce}]
    BY ONLY <1>1
  <1>5. QED
    BY <1>2, <1>3, <1>4 DEF Remember, Cache

(* A digest that passes the gate has a nonce the cache does not know.      *)
LEMMA Fresh ==
    ASSUME TypeOK, ~Open, Verdict = "OK", ~TokenOf(body).text
    PROVE  /\ body.token.value \in Nonces
           /\ \A i \in 0 .. NonceSlots - 1 : s_nonce_cache.slots[i] # body.token.value
  <1>1. /\ TokenOf(body).nonce \notin {"absent", "malformed"}
        /\ TokenOf(body).value \notin Remembered(s_nonce_cache)
    BY DEF Verdict, Verify
  <1>2. body # NoBody /\ TokenOf(body) = body.token
    BY <1>1 DEF TokenOf, NoToken
  <1>3. body \in Bodies
    BY <1>2 DEF TypeOK, HttpdType
  <1>4. body.token \in Token
    BY <1>3, ServiceAssumption DEF BodyType
  <1>5. body.token.nonce = "good"
    BY <1>1, <1>2, <1>4 DEF Token
  <1>6. body.token.value \in Nonces
    BY <1>3, <1>4, <1>5, ServiceAssumption DEF Token
  <1>7. QED
    BY <1>1, <1>2, <1>6, WsseAssumption DEF Remembered

-----------------------------------------------------------------------------
(* Types, and that a request being served is one for a service.            *)
IInv == TypeOK /\ (hpc # "idle" => uri \in URIs)

LEMMA Given ==
    /\ MaxStarts \in Nat /\ ZeroConfig \in Config
    /\ \A c \in Configs : c \in Config /\ c.scopes \in {"null", "own"}
    /\ {"none", "fault"} \subseteq Handlers
  <1>1. MaxStarts \in Nat /\ Configs \subseteq {c \in Config : c.scopes # "default"}
    BY ServiceAssumption
  <1>2. \A c \in Configs : c \in Config /\ c.scopes \in {"null", "own"}
    BY ONLY <1>1 DEF Config
  <1>3. ZeroConfig \in Config
    BY DEF ZeroConfig, Config
  <1>4. {"none", "fault"} \subseteq Handlers
    BY DEF Handlers
  <1>5. QED
    BY <1>1, <1>2, <1>3, <1>4

LEMMA TypeInit == Init => IInv
  <1> SUFFICES ASSUME Init PROVE TypeOK
    BY DEF Init, IInv
  <1>1. ApplicationType
    <2>1. starts \in 0 .. MaxStarts
      <3>1. starts = 0 /\ MaxStarts \in Nat
        BY Given DEF Init
      <3>2. QED
        BY ONLY <3>1
    <2>2. s_cfg \in Config /\ cfg \in Configs \cup {ZeroConfig}
      BY Given DEF Init
    <2>3. QED
      BY <2>1, <2>2 DEF Init, ApplicationType, Pointers
  <1>2. s_nonce_cache \in Cache
    BY WsseAssumption DEF Init, EmptyCache, Cache
  <1>3. HttpdType
    <2>1. handler \in Handlers /\ body \in Bodies \cup {NoBody}
      BY Given DEF Init
    <2>2. accepted \in Seq(Nonces)
      BY DEF Init
    <2>3. QED
      BY <1>2, <2>1, <2>2 DEF Init, HttpdType, Pointers
  <1>4. QED
    BY <1>1, <1>3 DEF TypeOK

LEMMA ApplicationTypeStep == IInv /\ Application => IInv'
  <1> SUFFICES ASSUME IInv, Application PROVE IInv'
    OBVIOUS
  <1>1. HttpdType'
    <2>1. UNCHANGED <<hpc, requestVars, gateVars>>
      BY DEF Application, onvif_c_start, onvif_c_cfg_set, CopyMember, DeriveScopes,
         NameScopes, Register, StartDiscovery, onvif_c_stop, AppOnly
    <2>2. QED
      BY <2>1 DEF IInv, TypeOK, HttpdType, requestVars, gateVars
  <1>2. ApplicationType'
    <2> USE DEF IInv, TypeOK, ApplicationType, configVars
    <2>1. ASSUME NEW c \in Configs, onvif_c_start(c) PROVE ApplicationType'
      <3>1. starts' \in 0 .. MaxStarts
        <4>1. starts \in 0 .. MaxStarts /\ starts < MaxStarts /\ starts' = starts + 1
          BY <2>1 DEF onvif_c_start
        <4>2. MaxStarts \in Nat
          BY Given
        <4>3. QED
          BY ONLY <4>1, <4>2
      <3>2. QED
        BY <2>1, <3>1 DEF onvif_c_start
    <2>2. ASSUME NEW f \in Members, CopyMember(f) PROVE ApplicationType'
      <3>1. cfg \in Config
        BY Given
      <3>2. s_cfg' \in Config
        <4>1. CASE f = "scopes"
          BY <2>2, <3>1, <4>1 DEF CopyMember, Config
        <4>2. CASE f = "events_enabled"
          BY <2>2, <3>1, <4>2 DEF CopyMember, Config
        <4>3. CASE f = "auth"
          BY <2>2, <3>1, <4>3 DEF CopyMember, Config
        <4>4. CASE f = "seams"
          BY <2>2, <3>1, <4>4 DEF CopyMember, Config
        <4>5. QED
          BY <4>1, <4>2, <4>3, <4>4 DEF Members
      <3>3. QED
        BY <2>2, <3>2 DEF CopyMember, URIs
    <2>3. CASE DeriveScopes
      BY <2>3 DEF DeriveScopes
    <2>4. CASE NameScopes
      BY <2>4 DEF NameScopes, DerivedScopes, Config, URIs
    <2>5. ASSUME NEW u \in URIs, Register(u) PROVE ApplicationType'
      BY <2>5 DEF Register, URIs, AfterMedia2
    <2>6. CASE StartDiscovery \/ onvif_c_stop
      BY <2>6 DEF StartDiscovery, onvif_c_stop, Pointers
    <2>7. QED
      BY <2>1, <2>2, <2>3, <2>4, <2>5, <2>6 DEF Application, onvif_c_cfg_set
  <1>3. UNCHANGED <<hpc, uri>>
    BY DEF Application, onvif_c_start, onvif_c_cfg_set, CopyMember, DeriveScopes,
       NameScopes, Register, StartDiscovery, onvif_c_stop, AppOnly, requestVars
  <1>4. QED
    BY <1>1, <1>2, <1>3 DEF IInv, TypeOK

LEMMA ResponderTypeStep == IInv /\ Responder => IInv'
  <1> SUFFICES ASSUME IInv, Responder PROVE IInv'
    OBVIOUS
  <1>1. HttpdType'
    BY DEF IInv, TypeOK, HttpdType, Responder, ReadScopes, ScopesRead, AppOnly, requestVars, gateVars
  <1>2. ApplicationType'
    BY DEF IInv, TypeOK, ApplicationType, Responder, ReadScopes, ScopesRead, configVars, Pointers,
       Config
  <1>3. QED
    BY <1>1, <1>2 DEF IInv, TypeOK, Responder, ReadScopes, ScopesRead, AppOnly, requestVars

LEMMA HttpdTypeStep == IInv /\ Httpd => IInv'
  <1> SUFFICES ASSUME IInv, Httpd PROVE IInv'
    OBVIOUS
  <1>1. ApplicationType'
    <2>1. UNCHANGED <<configVars, appVars>>
      BY DEF Httpd, Accept, GatePasses, GateRefuses, DispatchAction, Apply, Send, Finish,
         HttpdOnly
    <2>2. QED
      BY <2>1 DEF IInv, TypeOK, ApplicationType, configVars, appVars
  <1>2. HttpdType'
    <2> USE DEF IInv, TypeOK, HttpdType, HttpdOnly, requestVars
    <2>1. ASSUME NEW u \in URIs, NEW b \in Bodies \cup {NoBody}, Accept(u, b)
          PROVE  HttpdType'
      BY <2>1 DEF Accept
    <2>2. CASE GatePasses
      <3>1. CASE Open \/ TokenOf(body).text
        BY <2>2, <3>1 DEF GatePasses
      <3>2. CASE ~(Open \/ TokenOf(body).text)
        <4>1. body.token.value \in Nonces
          BY <2>2, <3>2, Fresh DEF GatePasses
        <4>2. /\ s_nonce_cache' = Remember(s_nonce_cache, body.token.value)
              /\ accepted' = Append(accepted, body.token.value)
          BY <2>2, <3>2 DEF GatePasses
        <4>3. s_nonce_cache' \in Cache
          BY <4>1, <4>2, RememberTypes
        <4>4. accepted' \in Seq(Nonces)
          BY <4>1, <4>2
        <4>5. QED
          BY <2>2, <4>3, <4>4 DEF GatePasses
      <3>3. QED
        BY <3>1, <3>2
    <2>3. CASE GateRefuses
      BY <2>3 DEF GateRefuses
    <2>4. CASE DispatchAction
      <3>1. handler' \in Handlers
        BY <2>4, Dispatched DEF DispatchAction
      <3>2. scopes' \in Pointers
        BY <2>4 DEF DispatchAction, Pointers, ApplicationType, Config
      <3>3. advertised' \subseteq URIs
        BY <2>4 DEF DispatchAction, Advertised
      <3>4. QED
        BY <2>4, <3>1, <3>2, <3>3 DEF DispatchAction
    <2>5. CASE Apply
      BY <2>5 DEF Apply, Outcome
    <2>6. CASE Send
      BY <2>6 DEF Send
    <2>7. CASE Finish
      BY <2>7, Given DEF Finish, Pointers
    <2>8. QED
      BY <2>1, <2>2, <2>3, <2>4, <2>5, <2>6, <2>7 DEF Httpd
  <1>3. hpc' # "idle" => uri' \in URIs
    BY DEF IInv, Httpd, Accept, GatePasses, GateRefuses, DispatchAction, Apply, Send, Finish,
       requestVars
  <1>4. QED
    BY <1>1, <1>2, <1>3 DEF IInv, TypeOK

LEMMA ServiceTypeStep == IInv /\ [Next]_vars => IInv'
  <1> SUFFICES ASSUME IInv, [Next]_vars PROVE IInv'
    OBVIOUS
  <1>1. CASE Application
    BY <1>1, ApplicationTypeStep
  <1>2. CASE Responder
    BY <1>2, ResponderTypeStep
  <1>3. CASE Httpd
    BY <1>3, HttpdTypeStep
  <1>4. CASE \E t \in Times : SetClock(t)
    BY <1>4 DEF SetClock, configVars, appVars, requestVars, IInv, TypeOK, ApplicationType,
       HttpdType
  <1>5. CASE UNCHANGED vars
    BY <1>5 DEF vars, configVars, appVars, requestVars, gateVars, IInv, TypeOK,
       ApplicationType, HttpdType
  <1>6. QED
    BY <1>1, <1>2, <1>3, <1>4, <1>5 DEF Next

LEMMA ServiceInvariant == Spec => []IInv
  BY TypeInit, ServiceTypeStep, PTL DEF Spec

(* Every variable of the services keeps its type, the replay cache and its *)
(* counter included.                                                       *)
THEOREM ServiceTypeCorrect == Spec => []TypeOK
  <1>1. IInv => TypeOK
    BY DEF IInv
  <1>2. QED
    BY <1>1, ServiceInvariant, PTL

-----------------------------------------------------------------------------
(* The replay cache. The slot of the nonce accepted d tokens before the    *)
(* newest one.                                                             *)
SlotOf(next, d) == IF next - 1 - d >= 0 THEN next - 1 - d ELSE next - 1 - d + NonceSlots

(* The cache holds the last NonceSlots nonces accepted.                    *)
CacheInv ==
    \A d \in 0 .. NonceSlots - 1 :
        d < Len(accepted) =>
            s_nonce_cache.slots[SlotOf(s_nonce_cache.next, d)] = accepted[Len(accepted) - d]

LEMMA SlotsInUse ==
    ASSUME NEW next \in 0 .. NonceSlots - 1, NEW d \in 0 .. NonceSlots - 1,
           NEW later, later = IF next = NonceSlots - 1 THEN 0 ELSE next + 1
    PROVE  /\ SlotOf(later, 0) = next
           /\ SlotOf(next, d) \in 0 .. NonceSlots - 1
  <1>1. NonceSlots \in Nat \ {0}
    BY WsseAssumption
  <1>2. QED
    BY <1>1 DEF SlotOf

LEMMA AcceptedStep ==
    ASSUME IInv, CacheInv, NonceOnce, NEW v \in Nonces,
           \A i \in 0 .. NonceSlots - 1 : s_nonce_cache.slots[i] # v,
           s_nonce_cache' = Remember(s_nonce_cache, v), accepted' = Append(accepted, v)
    PROVE  CacheInv' /\ NonceOnce'
  <1> DEFINE n == Len(accepted)
             next == s_nonce_cache.next
             slots == s_nonce_cache.slots
  <1>1. /\ NonceSlots \in Nat \ {0} /\ next \in 0 .. NonceSlots - 1
        /\ slots \in [0 .. NonceSlots - 1 -> Nonces \cup {NoNonce}]
        /\ s_nonce_cache \in Cache /\ accepted \in Seq(Nonces) /\ n \in Nat
    BY WsseAssumption DEF IInv, TypeOK, HttpdType, Cache
  <1>2. /\ Len(accepted') = n + 1 /\ accepted'[n + 1] = v
        /\ \A i \in 1 .. n : accepted'[i] = accepted[i]
    BY <1>1
  <1>3. /\ s_nonce_cache'.slots = [slots EXCEPT ![next] = v]
        /\ s_nonce_cache'.next = IF next = NonceSlots - 1 THEN 0 ELSE next + 1
    BY <1>1, RememberTypes
  <1>4. ASSUME NEW d \in 0 .. NonceSlots - 1, d < n + 1
        PROVE  s_nonce_cache'.slots[SlotOf(s_nonce_cache'.next, d)] = accepted'[n + 1 - d]
    <2>1. CASE d = 0
      <3>1. SlotOf(s_nonce_cache'.next, 0) = next
        BY <1>1, <1>3, SlotsInUse
      <3>2. s_nonce_cache'.slots[next] = v
        BY <1>1, <1>3
      <3>3. QED
        BY <1>1, <1>2, <2>1, <3>1, <3>2
    <2>2. CASE d > 0
      <3>1. d - 1 \in 0 .. NonceSlots - 1 /\ d - 1 < n /\ n + 1 - d \in 1 .. n
        BY <1>1, <1>4, <2>2
      <3>2. /\ SlotOf(s_nonce_cache'.next, d) = SlotOf(next, d - 1)
            /\ SlotOf(next, d - 1) # next /\ SlotOf(next, d - 1) \in 0 .. NonceSlots - 1
        <4>1. d \in 1 .. NonceSlots - 1
          BY <1>1, <2>2
        <4>2. \A some \in 0 .. NonceSlots - 1 : \A later :
                later = (IF some = NonceSlots - 1 THEN 0 ELSE some + 1) =>
                  /\ SlotOf(later, d) = SlotOf(some, d - 1) /\ SlotOf(some, d - 1) # some
                  /\ SlotOf(some, d - 1) \in 0 .. NonceSlots - 1
          BY <4>1, WsseAssumption DEF SlotOf
        <4>3. QED
          BY <1>1, <1>3, <4>2
      <3>3. s_nonce_cache'.slots[SlotOf(next, d - 1)] = slots[SlotOf(next, d - 1)]
        BY <1>1, <1>3, <3>2
      <3>4. slots[SlotOf(next, d - 1)] = accepted[n - (d - 1)]
        BY <3>1 DEF CacheInv
      <3>5. n - (d - 1) = n + 1 - d
        BY <1>1, <3>1
      <3>6. QED
        BY <1>2, <3>1, <3>2, <3>3, <3>4, <3>5
    <2>3. d = 0 \/ d > 0
      BY ONLY <1>1, d \in 0 .. NonceSlots - 1
    <2>4. QED
      BY <2>1, <2>2, <2>3
  <1>5. ASSUME NEW i \in 1 .. n, accepted[i] = v
        PROVE  n + 1 - i > NonceSlots
    <2>1. SUFFICES ASSUME n + 1 - i <= NonceSlots PROVE FALSE
      BY <1>1
    <2>2. n - i \in 0 .. NonceSlots - 1 /\ n - i < n /\ n - (n - i) = i
      BY <1>1, <2>1
    <2>3. slots[SlotOf(next, n - i)] = accepted[i]
      BY <2>2 DEF CacheInv
    <2>4. SlotOf(next, n - i) \in 0 .. NonceSlots - 1
      BY <1>1, <2>2, SlotsInUse
    <2>5. QED
      BY <1>5, <2>3, <2>4
  <1>6. CacheInv'
    BY <1>2, <1>4 DEF CacheInv
  <1>7. NonceOnce'
    <2> SUFFICES ASSUME NEW i \in 1 .. n + 1, NEW j \in 1 .. n + 1,
                        i < j, accepted'[i] = accepted'[j]
                 PROVE  j - i > NonceSlots
      BY <1>2 DEF NonceOnce
    <2>1. CASE j = n + 1
      <3>1. i \in 1 .. n
        BY <1>1, <2>1
      <3>2. QED
        BY <1>2, <1>5, <2>1, <3>1
    <2>2. CASE j # n + 1
      <3>1. i \in 1 .. n /\ j \in 1 .. n
        BY <1>1, <2>2
      <3>2. QED
        BY <1>2, <3>1 DEF NonceOnce
    <2>3. QED
      BY <2>1, <2>2
  <1>8. QED
    BY <1>6, <1>7

(* With any number of slots, a nonce is not accepted again before as many  *)
(* others were.                                                            *)
THEOREM ServiceNonceOnce == Spec => []NonceOnce
  <1>1. Init => CacheInv /\ NonceOnce
    BY DEF Init, CacheInv, NonceOnce
  <1>2. IInv /\ CacheInv /\ NonceOnce /\ [Next]_vars => CacheInv' /\ NonceOnce'
    <2> SUFFICES ASSUME IInv, CacheInv, NonceOnce, [Next]_vars
                 PROVE  CacheInv' /\ NonceOnce'
      OBVIOUS
    <2>1. CASE UNCHANGED <<s_nonce_cache, accepted>>
      BY <2>1 DEF CacheInv, NonceOnce
    <2>2. CASE GatePasses /\ ~(Open \/ TokenOf(body).text)
      <3>1. /\ body.token.value \in Nonces
            /\ \A i \in 0 .. NonceSlots - 1 : s_nonce_cache.slots[i] # body.token.value
        BY <2>2, Fresh DEF IInv, GatePasses
      <3>2. /\ s_nonce_cache' = Remember(s_nonce_cache, body.token.value)
            /\ accepted' = Append(accepted, body.token.value)
        BY <2>2 DEF GatePasses
      <3>3. QED
        BY <3>1, <3>2, AcceptedStep
    <2>3. CASE GatePasses /\ (Open \/ TokenOf(body).text)
      BY <2>1, <2>3 DEF GatePasses
    <2>4. CASE ~GatePasses
      <3>1. UNCHANGED <<s_nonce_cache, accepted>>
        BY <2>4 DEF Next, vars, gateVars, Application, onvif_c_start, onvif_c_cfg_set,
           CopyMember, DeriveScopes, NameScopes, Register, StartDiscovery, onvif_c_stop,
           AppOnly, Responder, ReadScopes, ScopesRead, Httpd, Accept, GateRefuses,
           DispatchAction, Apply, Send, Finish, SetClock
      <3>2. QED
        BY <2>1, <3>1
    <2>5. QED
      BY <2>2, <2>3, <2>4
  <1>3. QED
    BY <1>1, <1>2, ServiceInvariant, PTL DEF Spec
-----------------------------------------------------------------------------
(* Setters. Until the dispatch nothing is applied and nothing is answered; *)
(* from the host's answer on, the two agree.                               *)
ApplyInv ==
    /\ hpc \in {"idle", "gate", "dispatch"} => handler = "none" /\ ~applied
    /\ hpc = "apply" => ~applied
    /\ hpc \in {"send", "done"} /\ handler \in Setters =>
         /\ answer = "ack" => applied
         /\ answer = "fault" => ~applied
         /\ answer # "data"

LEMMA ApplyStep == IInv /\ ApplyInv /\ [Next]_vars => ApplyInv'
  <1> SUFFICES ASSUME IInv, ApplyInv, [Next]_vars PROVE ApplyInv'
    OBVIOUS
  <1> USE DEF ApplyInv
  <1>1. CASE UNCHANGED <<hpc, handler, applied, answer>>
    BY <1>1
  <1>2. ASSUME NEW u \in URIs, NEW b \in Bodies \cup {NoBody}, Accept(u, b) PROVE ApplyInv'
    BY <1>2 DEF Accept
  <1>3. CASE GatePasses
    BY <1>3 DEF GatePasses, requestVars
  <1>4. CASE GateRefuses
    BY <1>4 DEF GateRefuses, Setters
  <1>5. CASE DispatchAction
    BY <1>5 DEF DispatchAction
  <1>6. CASE Apply
    BY <1>6 DEF Apply, Outcome
  <1>7. CASE Send
    BY <1>7 DEF Send
  <1>8. CASE Finish
    BY <1>8 DEF Finish
  <1>9. Application \/ Responder \/ (\E t \in Times : SetClock(t)) \/ UNCHANGED vars
        => UNCHANGED <<hpc, handler, applied, answer>>
    BY DEF vars, requestVars, Application, onvif_c_start, onvif_c_cfg_set, CopyMember,
       DeriveScopes, NameScopes, Register, StartDiscovery, onvif_c_stop, AppOnly, Responder,
       ReadScopes, ScopesRead, SetClock
  <1>10. QED
    BY <1>1, <1>2, <1>3, <1>4, <1>5, <1>6, <1>7, <1>8, <1>9 DEF Next, Httpd

(* The host's answer is the device's answer: a setter is acknowledged only *)
(* when it was carried out and faulted only when it was not.               *)
THEOREM ServiceApplyOrFault == Spec => []ApplyOrFault
  <1>1. Init => ApplyInv
    BY DEF Init, ApplyInv
  <1>2. ApplyInv => ApplyOrFault
    BY DEF ApplyInv, ApplyOrFault
  <1>3. QED
    BY <1>1, <1>2, ApplyStep, ServiceInvariant, PTL DEF Spec

-----------------------------------------------------------------------------
(* Registration. What a start has behind it is registered, and the         *)
(* configuration stays as it is until the next one.                        *)
Behind ==
    CASE apc = "media_service" -> {"device_service"}
      [] apc = "media2_service" -> {"device_service", "media_service"}
      [] apc = "events_service" \/ apc = "discovery" \/ started ->
             {"device_service", "media_service", "media2_service"}
      [] OTHER -> {}

ServedInv ==
    /\ started => apc = "idle"
    /\ Behind \subseteq registered
    /\ (apc = "discovery" \/ started) /\ s_cfg.events_enabled => "events_service" \in registered

LEMMA ServedStep == IInv /\ ServedInv /\ [Next]_vars => ServedInv'
  <1> SUFFICES ASSUME IInv, ServedInv, [Next]_vars PROVE ServedInv'
    OBVIOUS
  <1> USE DEF ServedInv, Behind
  <1>1. CASE UNCHANGED <<s_cfg, registered, apc, started>>
    BY <1>1
  <1>2. ASSUME NEW c \in Configs, onvif_c_start(c) PROVE ServedInv'
    BY <1>2 DEF onvif_c_start
  <1>3. ASSUME NEW f \in Members, CopyMember(f) PROVE ServedInv'
    BY <1>3 DEF CopyMember
  <1>4. CASE DeriveScopes
    BY <1>4 DEF DeriveScopes
  <1>5. CASE NameScopes
    BY <1>5 DEF NameScopes
  <1>6. ASSUME NEW u \in URIs, Register(u) PROVE ServedInv'
    BY <1>6 DEF Register, AfterMedia2, URIs, configVars
  <1>7. CASE StartDiscovery
    BY <1>7 DEF StartDiscovery, configVars
  <1>8. onvif_c_stop \/ Responder \/ Httpd \/ (\E t \in Times : SetClock(t)) \/ UNCHANGED vars
        => UNCHANGED <<s_cfg, registered, apc, started>>
    BY DEF vars, configVars, appVars, onvif_c_stop, Responder, ReadScopes, ScopesRead, SetClock,
       Httpd, Accept, GatePasses, GateRefuses, DispatchAction, Apply, Send, Finish, HttpdOnly
  <1>9. QED
    BY <1>1, <1>2, <1>3, <1>4, <1>5, <1>6, <1>7, <1>8 DEF Next, Application, onvif_c_cfg_set

(* After a start that succeeded the device names no endpoint that it does  *)
(* not serve, whatever was registered by the starts before.                *)
THEOREM ServiceAdvertisedIsServed == Spec => AdvertisedIsServed
  <1>1. Init => ServedInv
    BY DEF Init, ServedInv, Behind
  <1>2. ServedInv => (started /\ DispatchAction => advertised' \subseteq registered)
    BY DEF ServedInv, Behind, DispatchAction, Advertised, URIs
  <1>3. QED
    BY <1>1, <1>2, ServedStep, ServiceInvariant, PTL DEF Spec, AdvertisedIsServed

-----------------------------------------------------------------------------
(* The first start. Nobody is there while the configuration is written;    *)
(* afterwards its scopes can be read.                                      *)
Alone ==
    /\ registered = {} /\ ~responder /\ hpc = "idle" /\ scopes = "nothing" /\ held = "nothing"
    /\ s_cfg.scopes # "default"

FirstInv ==
    /\ cfg.scopes # "default" /\ starts \in Nat
    /\ hpc = "idle" => scopes = "nothing"
    /\ starts = 0 => apc = "idle" /\ Alone
    /\ starts = 1 => IF apc \in {"copy", "derive", "name"} THEN Alone
                     ELSE /\ s_cfg.scopes # "null"
                          /\ s_cfg.scopes = "default" => default_scopes = "whole"
                          /\ ScopesReadWhole

LEMMA FirstStep == IInv /\ FirstInv /\ [Next]_vars => FirstInv'
  <1> SUFFICES ASSUME IInv, FirstInv, [Next]_vars PROVE FirstInv'
    OBVIOUS
  <1> USE DEF FirstInv, Alone, ScopesReadWhole, Readable
  <1>1. CASE UNCHANGED <<s_cfg, default_scopes, registered, responder, apc, cfg, starts, hpc,
                         scopes, held>>
    BY <1>1
  <1>2. ASSUME NEW c \in Configs, onvif_c_start(c) PROVE FirstInv'
    <2>1. c.scopes # "default"
      BY ServiceAssumption
    <2>2. QED
      BY <1>2, <2>1 DEF onvif_c_start, AppOnly, configVars, requestVars
  <1>3. ASSUME NEW f \in Members, CopyMember(f) PROVE FirstInv'
    <2>1. s_cfg'.scopes = IF f = "scopes" THEN cfg.scopes ELSE s_cfg.scopes
      BY <1>3 DEF CopyMember, IInv, TypeOK, ApplicationType, Config
    <2>2. QED
      BY <1>3, <2>1 DEF CopyMember, AppOnly, requestVars
  <1>4. CASE DeriveScopes
    BY <1>4 DEF DeriveScopes, AppOnly, requestVars
  <1>5. CASE NameScopes
    <2>1. s_cfg'.scopes = "default"
      BY <1>5 DEF NameScopes, DerivedScopes, IInv, TypeOK, ApplicationType, Config
    <2>2. QED
      BY <1>5, <2>1 DEF NameScopes, AppOnly, requestVars
  <1>6. ASSUME NEW u \in URIs, Register(u) PROVE FirstInv'
    BY <1>6 DEF Register, AfterMedia2, URIs, configVars, AppOnly, requestVars
  <1>7. CASE StartDiscovery
    BY <1>7 DEF StartDiscovery, configVars, AppOnly, requestVars
  <1>8. CASE onvif_c_stop
    BY <1>8 DEF onvif_c_stop, configVars, AppOnly, requestVars
  <1>9. CASE Responder
    BY <1>9 DEF Responder, ReadScopes, ScopesRead, configVars, AppOnly, requestVars
  <1>10. ASSUME NEW u \in URIs, NEW b \in Bodies \cup {NoBody}, Accept(u, b) PROVE FirstInv'
    BY <1>10 DEF Accept, HttpdOnly, configVars, appVars
  <1>11. CASE DispatchAction
    BY <1>11 DEF DispatchAction, HttpdOnly, configVars, appVars
  <1>12. CASE GatePasses \/ GateRefuses \/ Apply \/ Send
    BY <1>12 DEF GatePasses, GateRefuses, Apply, Send, HttpdOnly, configVars, appVars,
       requestVars
  <1>13. CASE Finish
    BY <1>13 DEF Finish, HttpdOnly, configVars, appVars
  <1>14. (\E t \in Times : SetClock(t)) \/ UNCHANGED vars
         => UNCHANGED <<s_cfg, default_scopes, registered, responder, apc, cfg, starts, hpc,
                        scopes, held>>
    BY DEF vars, configVars, appVars, requestVars, SetClock
  <1>15. QED
    BY <1>1, <1>2, <1>3, <1>4, <1>5, <1>6, <1>7, <1>8, <1>9, <1>10, <1>11, <1>12, <1>13, <1>14
    DEF Next, Application, onvif_c_cfg_set, Httpd

(* During and after the first start, whichever of its calls fails, nobody  *)
(* follows a pointer that leads nowhere or into a string half written.     *)
THEOREM ServiceFirstStartIsSafe == Spec => []FirstStartIsSafe
  <1>1. Init => FirstInv
    BY DEF Init, FirstInv, Alone, ZeroConfig
  <1>2. IInv /\ FirstInv => FirstStartIsSafe
    BY DEF IInv, TypeOK, ApplicationType, FirstInv, Alone, FirstStartIsSafe, ScopesReadWhole,
       Readable
  <1>3. QED
    BY <1>1, <1>2, FirstStep, ServiceInvariant, PTL DEF Spec

-----------------------------------------------------------------------------
(* No name in a list of actions is contained in the name of a later one.   *)
LEMMA LongestFirst ==
    ASSUME NEW u \in URIs, NEW i \in DOMAIN ActionsOf[u], NEW j \in 1 .. i - 1
    PROVE  ActionsOf[u][j] \notin NamesIn(ActionsOf[u][i])
  <1>1. CASE u = "device_service"
    <2>1. ActionsOf[u] = DeviceActions /\ i \in 1 .. 9 /\ j \in 1 .. 8 /\ j < i
      BY <1>1 DEF ActionsOf, DeviceActions
    <2>2. QED
      BY <2>1 DEF DeviceActions, NamesIn
  <1>2. CASE u = "media_service"
    <2>1. ActionsOf[u] = MediaActions /\ i \in 1 .. 11 /\ j \in 1 .. 10 /\ j < i
      BY <1>2 DEF ActionsOf, MediaActions
    <2>2. QED
      BY <2>1 DEF MediaActions, NamesIn
  <1>3. CASE u = "media2_service"
    <2>1. ActionsOf[u] = Media2Actions /\ i \in 1 .. 3 /\ j \in 1 .. 2 /\ j < i
      BY <1>3 DEF ActionsOf, Media2Actions
    <2>2. QED
      BY <2>1 DEF Media2Actions, NamesIn
  <1>4. CASE u = "events_service"
    <2>1. ActionsOf[u] = EventsActions /\ i \in 1 .. 7 /\ j \in 1 .. 6 /\ j < i
      BY <1>4 DEF ActionsOf, EventsActions
    <2>2. QED
      BY <2>1 DEF EventsActions, NamesIn
  <1>5. QED
    BY <1>1, <1>2, <1>3, <1>4 DEF URIs

(* So the first name found is the one asked for.                           *)
LEMMA DispatchesWanted ==
    ASSUME NEW u \in URIs, NEW b, b # NoBody, NamesOne(b),
           NEW i \in DOMAIN ActionsOf[u], ActionsOf[u][i] = b.wanted
    PROVE  Dispatch(u, b) = b.wanted
  <1> DEFINE IsFirst(k) == /\ ActionsOf[u][k] \in b.mentions
                           /\ \A j \in 1 .. k - 1 : ActionsOf[u][j] \notin b.mentions
  <1>1. DOMAIN ActionsOf[u] \subseteq Nat \ {0}
    BY DEF URIs, ActionsOf, DeviceActions, MediaActions, Media2Actions, EventsActions
  <1>2. IsFirst(i)
    BY LongestFirst DEF NamesOne
  <1>3. ASSUME NEW k \in DOMAIN ActionsOf[u], IsFirst(k) PROVE k = i
    <2>1. k \in Nat /\ i \in Nat /\ k >= 1 /\ i >= 1
      BY <1>1
    <2>2. ~(i < k)
      <3>1. i < k => i \in 1 .. k - 1
        BY <2>1
      <3>2. QED
        BY <1>2, <1>3, <3>1
    <2>3. ~(k < i)
      <3>1. k < i => k \in 1 .. i - 1
        BY <2>1
      <3>2. QED
        BY <1>2, <1>3, <3>1
    <2>4. QED
      BY <2>1, <2>2, <2>3
  <1>4. (CHOOSE k \in DOMAIN ActionsOf[u] : IsFirst(k)) = i
    <2> HIDE DEF IsFirst
    <2>1. QED
      BY <1>2, <1>3
  <1>5. Dispatch(u, b) =
          IF b # NoBody /\ \E k \in DOMAIN ActionsOf[u] : IsFirst(k)
          THEN ActionsOf[u][CHOOSE k \in DOMAIN ActionsOf[u] : IsFirst(k)] ELSE "fault"
    BY DEF Dispatch
  <1>6. QED
    <2> HIDE DEF IsFirst
    <2>1. QED
      BY <1>2, <1>4, <1>5

(* The handler is the one that the dispatch found in the body.             *)
OwnInv == hpc \in {"apply", "send"} => handler = Dispatch(uri, body)

LEMMA OwnStep == OwnInv /\ [Next]_vars => OwnInv'
  <1> SUFFICES ASSUME OwnInv, [Next]_vars PROVE OwnInv'
    OBVIOUS
  <1> USE DEF OwnInv
  <1>1. CASE DispatchAction
    BY <1>1 DEF DispatchAction
  <1>2. CASE Apply
    BY <1>2 DEF Apply
  <1>3. CASE Application \/ Responder
    BY <1>3
    DEF Application, Responder, onvif_c_start, onvif_c_cfg_set, CopyMember, DeriveScopes,
        NameScopes, Register, StartDiscovery, onvif_c_stop, ReadScopes, ScopesRead, AppOnly,
        requestVars
  <1>4. CASE (\E u \in URIs, b \in Bodies \cup {NoBody} : Accept(u, b))
               \/ GatePasses \/ GateRefuses \/ Send \/ Finish
    BY <1>4 DEF Accept, GatePasses, GateRefuses, Send, Finish
  <1>5. CASE (\E t \in Times : SetClock(t)) \/ UNCHANGED vars
    BY <1>5 DEF SetClock, vars, requestVars
  <1>6. QED
    BY <1>1, <1>2, <1>3, <1>4, <1>5 DEF Next, Httpd

(* A client whose body names one action gets that action, of any service   *)
(* and wherever it stands in the list, if the service has it.              *)
THEOREM ServiceOwnHandler ==
    ASSUME \A b \in Bodies : NamesOne(b)
    PROVE  Spec => []OwnHandler
  <1>1. Init => OwnInv
    BY DEF Init, OwnInv
  <1>2. IInv /\ OwnInv => OwnHandler
    <2> SUFFICES ASSUME IInv, OwnInv, hpc \in {"apply", "send"}, body # NoBody,
                        NEW i \in DOMAIN ActionsOf[uri], ActionsOf[uri][i] = body.wanted
                 PROVE  handler = body.wanted
      BY DEF OwnHandler
    <2>1. uri \in URIs /\ body \in Bodies
      BY DEF IInv, TypeOK, HttpdType
    <2>2. QED
      BY <2>1, DispatchesWanted DEF OwnInv
  <1>3. QED
    BY <1>1, <1>2, OwnStep, ServiceInvariant, PTL DEF Spec
=============================================================================
