---------------------------------- MODULE Wsse ----------------------------------
(***************************************************************************)
(* WS-Security UsernameToken verification, core/onvif_wsse.c: the order of *)
(* the checks, and the replay cache, a fixed number of slots overwritten   *)
(* in turn. Digests are abstract: a token says whether its password is the *)
(* right one for its own nonce and creation time.                          *)
(***************************************************************************)
EXTENDS Integers

CONSTANTS
    Nonces,
    NoNonce,       \* a slot not in use; a token without a nonce
    NonceSlots,    \* ONVIF_WSSE_NONCE_SLOTS
    Window         \* window_secs once its default of 300 is in place

ASSUME WsseAssumption ==
    NoNonce \notin Nonces /\ NonceSlots \in Nat \ {0} /\ Window \in Nat \ {0}

(* What element_text finds in the envelope. Each field may be absent; a    *)
(* nonce that is no Base64 is "malformed", as is a time that does not scan. *)
Token == [present : BOOLEAN,        \* UsernameToken, and a Username in it
          user : BOOLEAN,           \* it names the configured user
          password : {"absent", "wrong", "right"},
          text : BOOLEAN,           \* the envelope mentions #PasswordText
          nonce : {"absent", "malformed", "good"},
          value : Nonces \cup {NoNonce},
          created : {"absent", "malformed", "good"},
          at : Int]

(* onvif_wsse_nonce_cache_t. `next` counts modulo NonceSlots here: it is   *)
(* an unsigned whose width is a multiple of the 16 slots.                  *)
Cache == [slots : [0 .. NonceSlots - 1 -> Nonces \cup {NoNonce}], next : 0 .. NonceSlots - 1]

EmptyCache == [slots |-> [i \in 0 .. NonceSlots - 1 |-> NoNonce], next |-> 0]

Remembered(cache) == {cache.slots[i] : i \in 0 .. NonceSlots - 1} \ {NoNonce}

(* Mutants: always the same slot, and a count that is not wrapped.         *)
SameSlot(cache, nonce) == [cache EXCEPT !.slots[cache.next] = nonce]

Unwrapped(cache, nonce) ==
    [slots |-> [cache.slots EXCEPT ![cache.next] = nonce], next |-> cache.next + 1]

Remember(cache, nonce) ==
    [slots |-> [cache.slots EXCEPT ![cache.next] = nonce],
     next |-> (cache.next + 1) % NonceSlots]

Stale(t, now) ==
    t.created = "malformed" \/ now - t.at > Window \/ t.at - now > Window

(* onvif_wsse_verify: the first check that fails decides.                  *)
Verify(t, password_set, allow_text, now, cache) ==
    IF ~password_set THEN "BAD_DIGEST"
    ELSE IF ~t.present THEN "NO_TOKEN"
    ELSE IF ~t.user THEN "BAD_DIGEST"
    ELSE IF t.password = "absent" THEN "NO_TOKEN"
    ELSE IF t.text THEN IF ~allow_text THEN "TEXT_REJECTED"
                        ELSE IF t.password = "right" THEN "OK" ELSE "BAD_DIGEST"
    ELSE IF t.nonce = "absent" \/ t.created = "absent" THEN "BAD_DIGEST"
    ELSE IF Stale(t, now) THEN "STALE"
    ELSE IF t.nonce = "malformed" \/ t.password = "wrong" THEN "BAD_DIGEST"
    ELSE IF t.value \in Remembered(cache) THEN "REPLAY" ELSE "OK"
=============================================================================
