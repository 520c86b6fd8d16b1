------------------------------ MODULE Messages ------------------------------
(***************************************************************************)
(* The messages of the p2psc protocol (include/p2psc/message), what the    *)
(* decoder accepts, and RSA encryption as far as the handshakes use it.    *)
(*                                                                         *)
(* A message is one record with a field for every payload field of the     *)
(* protocol; the fields its type does not carry are None.  The wording of  *)
(* `reason' and the JSON text are abstracted away; what the decoder does   *)
(* with the fields is not (see Decodes).                                   *)
(***************************************************************************)
EXTENDS Integers, Sequences

CONSTANTS Session,   \* the calls of p2psc::connect
          Key,       \* RSA key pairs; a public key stands for its pair
          Nonce,     \* what generate_nonce and the mediator may draw
          Version,   \* protocol versions
          None       \* an absent value

(***************************************************************************)
(* The ip and port from which a session reaches the Mediator.  They are    *)
(* picked by the kernel and differ between sessions.                       *)
(***************************************************************************)
Address == Session

ASSUME NoneAssumption ==
  /\ None \notin Session /\ None \notin Key /\ None \notin Nonce
  /\ None \notin Version

MessageType == {"Advertise", "AdvertiseChallenge", "AdvertiseResponse",
                "AdvertiseAbort", "AdvertiseRetry", "PeerDisconnect",
                "PeerIdentification", "PeerChallenge",
                "PeerChallengeResponse", "PeerResponse",
                "PeerAcknowledgement"}

(***************************************************************************)
(* The payload fields that the codec of a message type requires, which are *)
(* also the fields that encoding a message of the type writes.             *)
(***************************************************************************)
AdvertiseCodec             == {"version", "our_key", "their_key"}
AdvertiseChallengeCodec    == {"encrypted_nonce"}
AdvertiseResponseCodec     == {"nonce"}
AdvertiseAbortCodec        == {"reason"}
AdvertiseRetryCodec        == {"reason"}
PeerDisconnectCodec        == {"port"}
PeerIdentificationCodec    == {"version", "ip", "port"}
PeerChallengeCodec         == {"encrypted_nonce"}
PeerChallengeResponseCodec == {"encrypted_nonce", "decrypted_nonce"}
PeerResponseCodec          == {"decrypted_nonce"}
PeerAcknowledgementCodec   == {}

(* The codec of MessageFormat<T> requires the payload of T. *)
Required(type) ==
  CASE type = "Advertise"             -> AdvertiseCodec
    [] type = "AdvertiseChallenge"    -> AdvertiseChallengeCodec
    [] type = "AdvertiseResponse"     -> AdvertiseResponseCodec
    [] type = "AdvertiseAbort"        -> AdvertiseAbortCodec
    [] type = "AdvertiseRetry"        -> AdvertiseRetryCodec
    [] type = "PeerDisconnect"        -> PeerDisconnectCodec
    [] type = "PeerIdentification"    -> PeerIdentificationCodec
    [] type = "PeerChallenge"         -> PeerChallengeCodec
    [] type = "PeerChallengeResponse" -> PeerChallengeResponseCodec
    [] type = "PeerResponse"          -> PeerResponseCodec
    [] type = "PeerAcknowledgement"   -> PeerAcknowledgementCodec

Cipher == [key : Key, nonce : Nonce]

Fields ==
  [type            : MessageType \cup {"ApplicationData"},
   version         : Version \cup {None},
   our_key         : Key \cup {None},
   their_key       : Key \cup {None},
   encrypted_nonce : Cipher \cup {None},
   nonce           : Nonce \cup {None},       \* nonce or decrypted_nonce
   address         : Address \cup {None}]     \* ip and port, or port alone

(* The required fields of a message are there. *)
Complete(m) ==
  /\ "version" \in Required(m.type) => m.version \in Version
  /\ "our_key" \in Required(m.type) => m.our_key \in Key
  /\ "their_key" \in Required(m.type) => m.their_key \in Key
  /\ "encrypted_nonce" \in Required(m.type) => m.encrypted_nonce \in Cipher
  /\ "nonce" \in Required(m.type) => m.nonce \in Nonce
  /\ "decrypted_nonce" \in Required(m.type) => m.nonce \in Nonce
  /\ "port" \in Required(m.type) => m.address \in Address

Message == {m \in Fields : m.type \in MessageType => Complete(m)}
-----------------------------------------------------------------------------
(***************************************************************************)
(* Decoding.  decode<T> asks for the fields of T and for the presence of   *)
(* "type"; it never compares the type it reads with T.  What is not a      *)
(* protocol message (application data) does not decode at all.             *)
(***************************************************************************)
DecodesType(m) == m.type \in MessageType

Decodes(T, m) == DecodesType(m) /\ Required(T) \subseteq Required(m.type)

(***************************************************************************)
(* RSA with PKCS#1 padding: private_decrypt with another key than the one  *)
(* the nonce was encrypted for raises a CryptoException.                   *)
(***************************************************************************)
Encrypt(key, nonce)     == [key |-> key, nonce |-> nonce]

(* mutant: private_decrypt without check_error *)
DecryptUnchecked(key, cipher) == TRUE

CanDecrypt(key, cipher) == cipher.key = key
Decrypt(cipher)         == cipher.nonce
-----------------------------------------------------------------------------
Blank == [type |-> "ApplicationData", version |-> None, our_key |-> None,
          their_key |-> None, encrypted_nonce |-> None, nonce |-> None,
          address |-> None]

ApplicationData == Blank

Advertise(version, our_key, their_key) ==
  [Blank EXCEPT !.type = "Advertise", !.version = version,
                !.our_key = our_key, !.their_key = their_key]

AdvertiseChallenge(cipher) ==
  [Blank EXCEPT !.type = "AdvertiseChallenge", !.encrypted_nonce = cipher]

AdvertiseResponse(nonce) ==
  [Blank EXCEPT !.type = "AdvertiseResponse", !.nonce = nonce]

AdvertiseAbort == [Blank EXCEPT !.type = "AdvertiseAbort"]

AdvertiseRetry == [Blank EXCEPT !.type = "AdvertiseRetry"]

PeerDisconnect(address) ==
  [Blank EXCEPT !.type = "PeerDisconnect", !.address = address]

PeerIdentification(version, address) ==
  [Blank EXCEPT !.type = "PeerIdentification", !.version = version,
                !.address = address]

PeerChallenge(cipher) ==
  [Blank EXCEPT !.type = "PeerChallenge", !.encrypted_nonce = cipher]

PeerChallengeResponse(cipher, decrypted_nonce) ==
  [Blank EXCEPT !.type = "PeerChallengeResponse",
                !.encrypted_nonce = cipher, !.nonce = decrypted_nonce]

PeerResponse(decrypted_nonce) ==
  [Blank EXCEPT !.type = "PeerResponse", !.nonce = decrypted_nonce]

PeerAcknowledgement == [Blank EXCEPT !.type = "PeerAcknowledgement"]
=============================================================================
