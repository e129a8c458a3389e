------------------------------- MODULE Joining -------------------------------
(***************************************************************************)
(* How a dApp and a wallet come to share a session: SessionConfig,         *)
(* create_session and connect_session of crates/openlv/src/session/mod.rs, *)
(* the connection URL of url/v1.rs, what channels are made from            *)
(* (signaling/mod.rs, ntfy/url), and the functions of the native bridge    *)
(* that call them.                                                         *)
(*                                                                         *)
(* Keys, hashes, ids and servers are tokens; the form encoding of a URL    *)
(* keeps every value (form_urlencoded).                                    *)
(***************************************************************************)
EXTENDS Naturals, Sequences, SequencesExt

CONSTANTS
  None,         \* Rust's Option::None
  GeneratedId,  \* what generate_session_id returned
  FixedId,      \* an id set by the application: 16 URL-safe characters
  BadId         \* an id set by the application that is no such thing

Error(reason) == [error |-> reason]
IsError(x) == DOMAIN x = {"error"}

-----------------------------------------------------------------------------
(***************************************************************************)
(* Values.                                                                 *)
(***************************************************************************)
\* Key pairs are generated, and hashed without collision.
Hash(key) == [hash_of |-> key]
HexHash == {Hash(key) : key \in {"dapp", "wallet", "another"}}

\* HandshakeKey: 32 hex digits, kept in lower case.
Hex(digits, upper) == [digits |-> digits, upper |-> upper]
NotHex == Hex("not hex", FALSE)
FromHex(hex) == IF hex = NotHex THEN Error("encryption") ELSE Hex(hex.digits, FALSE)

\* SignalingProtocol: from a string, in any case, and back.
Protocol(p) == [p EXCEPT !.upper = FALSE]
Mqtt == [name |-> "mqtt", upper |-> FALSE]
Ntfy == [name |-> "ntfy", upper |-> FALSE]

\* A server URL; the default is https://ntfy.sh/.
Server(scheme, user, password, host, parameters) ==
  [scheme |-> scheme, user |-> user, password |-> password, host |-> host,
   parameters |-> parameters]
DefaultServer == Server("https", None, None, "ntfy.sh", None)
NoServer == Server(None, None, None, None, None)

\* An Option is None or holds a value.
ASSUME JoiningAssumption == None \notin {Mqtt, Ntfy, DefaultServer, NoServer} \cup HexHash

\* parse_ntfy_url.
Credentials(server) ==
  CASE server.password = None -> None
    [] server.user = None     -> [token |-> server.password]
    [] OTHER                  -> [user |-> server.user, password |-> server.password]

ParseNtfyUrl(server) ==
  IF server.scheme \notin {"http", "https", "ntfy", "ntfys"}
  THEN Error("signaling")
  ELSE [host |-> server.host,
        secure |-> server.scheme \in {"https", "ntfys"},  \* https and wss, or http and ws
        credentials |-> Credentials(server),
        parameters |-> server.parameters]

\* create_signaling_channel: which channel, on which topic of which server.
CreateSignalingChannel(protocol, topic, server) ==
  CASE protocol = Mqtt -> [protocol |-> "mqtt", topic |-> topic, server |-> server]
    [] protocol = Ntfy ->
         IF IsError(ParseNtfyUrl(server)) THEN ParseNtfyUrl(server)
         ELSE [protocol |-> "ntfy", topic |-> topic, server |-> ParseNtfyUrl(server)]
    [] OTHER -> Error("unsupported protocol")

\* init_hash: the peer that has no hash of another is the host.
InitHash(initial_hash, key) ==
  LET hash == IF initial_hash = None THEN Hash(key) ELSE initial_hash
  IN  [hash |-> hash, is_host |-> hash = Hash(key)]

-----------------------------------------------------------------------------
(***************************************************************************)
(* The connection URL: openlv://id@version?query, the query a sequence of  *)
(* name and value.                                                         *)
(***************************************************************************)
Pair(name, value) == <<name, value>>

\* Mutant: the server is left out.
ToUrlWithoutServer(uri) ==
  [scheme |-> "openlv", id |-> uri.session_id, version |-> 1,
   query |-> <<Pair("h", uri.key_hash), Pair("k", uri.shared_key), Pair("p", uri.protocol)>>]

ToUrl(uri) ==
  [scheme |-> "openlv", id |-> uri.session_id, version |-> 1,
   query |-> <<Pair("h", uri.key_hash), Pair("k", uri.shared_key), Pair("p", uri.protocol),
               Pair("s", uri.server)>>]

\* The map collected from the query: of pairs with one name the last counts.
Param(url, name) ==
  LET at == {i \in DOMAIN url.query : url.query[i][1] = name}
  IN  IF at = {} THEN None ELSE url.query[CHOOSE i \in at : \A j \in at : j <= i][2]

\* URI_REGEX, the version (a u8), and the parameters.
FromUrl(url) ==
  LET h == Param(url, "h")  k == Param(url, "k")
      p == Param(url, "p")  s == Param(url, "s")
  IN  IF \/ url.scheme # "openlv"
         \/ url.id \notin {GeneratedId, FixedId} \/ url.query = <<>>
         \/ url.version # 1
         \/ h \notin HexHash
         \/ k \notin {Hex(digits, FALSE) : digits \in {"generated", "fixed"}}
      THEN Error("invalid uri")
      ELSE [session_id |-> url.id, key_hash |-> h, shared_key |-> FromHex(k),
            protocol |-> IF p = None THEN Mqtt ELSE Protocol(p),
            server |-> IF s = None THEN NoServer ELSE s]

-----------------------------------------------------------------------------
(***************************************************************************)
(* Sessions.  `layer` is what the signaling layer is made of.              *)
(***************************************************************************)
OrElse(option, default) == IF option = None THEN default ELSE option

BuildSession(uri, is_host, layer) ==
  IF IsError(layer.channel) THEN layer.channel
  ELSE [uri |-> uri, is_host |-> is_host, layer |-> layer]

\* create_session, with the key pair "dapp".
CreateSession(init) ==
  LET session_id    == OrElse(init.session_id, GeneratedId)
      handshake_key == OrElse(init.k, Hex("generated", FALSE))
      init_hash     == InitHash(init.h, "dapp")
      protocol      == Protocol(OrElse(init.p, Ntfy))
      server        == OrElse(init.s, DefaultServer)
  IN  BuildSession(
        [session_id |-> session_id, key_hash |-> Hash("dapp"), shared_key |-> handshake_key,
         protocol |-> protocol, server |-> server],
        TRUE,
        [is_host |-> init_hash.is_host, h |-> init_hash.hash, handshake_key |-> handshake_key,
         channel |-> CreateSignalingChannel(protocol, session_id, server), info |-> init.info])

SignalingLayerFromVersion1(uri, is_host, info) ==
  [is_host |-> is_host, h |-> uri.key_hash, handshake_key |-> uri.shared_key,
   channel |-> CreateSignalingChannel(uri.protocol, uri.session_id, uri.server), info |-> info]

\* connect_session_with_info, with the key pair "wallet".
ConnectSession(url, info) ==
  LET uri == FromUrl(url)
      is_host == InitHash(uri.key_hash, "wallet").is_host
  IN  IF IsError(uri) THEN uri
      ELSE BuildSession(uri, is_host, SignalingLayerFromVersion1(uri, is_host, info))

\* create_dapp of the bridge, which calls the setters of SessionConfig, and
\* on_request.
CreateDapp(o) ==
  LET key == IF o.handshake_key = None THEN None ELSE FromHex(o.handshake_key)
  IN  IF o.info = "invalid" THEN Error("session")
      ELSE IF key # None /\ IsError(key) THEN key
      ELSE CreateSession([session_id |-> o.session_id, h |-> None, k |-> key,
                          p |-> Protocol(OrElse(o.protocol, Ntfy)),
                          s |-> OrElse(o.server, DefaultServer), info |-> o.info])

\* create_wallet, and on_request with a URL.
CreateWallet(url, info) ==
  IF info = "invalid" THEN Error("session") ELSE ConnectSession(url, info)

\* select_transport_id: the first transport of the host that the client has.
FirstCommon(host, client) ==
  LET common == SelectSeq(host, LAMBDA transport : transport \in Range(client))
  IN  IF common = <<>> THEN None ELSE Head(common)

SelectTransportId(is_host, own, peer) ==
  IF is_host THEN FirstCommon(own, peer) ELSE FirstCommon(peer, own)

-----------------------------------------------------------------------------
(***************************************************************************)
(* What applications may ask for.                                          *)
(***************************************************************************)
Infos == {None, "valid", "invalid"}
AccessServer == Server("ntfys", "user", "password", "example.org", "auth=1")
TokenServer  == Server("http", None, "token", "example.org", None)
MqttServer   == Server("mqtt", None, None, "broker", None)
Shout(protocol) == [protocol EXCEPT !.upper = TRUE]
Irc == [name |-> "irc", upper |-> FALSE]

Options ==
  [session_id : {None, FixedId, BadId}, protocol : {None, Mqtt, Shout(Ntfy), Irc},
   server : {None, AccessServer, TokenServer, MqttServer},
   handshake_key : {None, Hex("fixed", FALSE), Hex("fixed", TRUE), NotHex}, info : Infos]

\* A caller of create_session may pass the hash of another peer's key.
Inits == [session_id : {None}, h : {None, Hash("another")}, k : {None}, p : {None, Mqtt},
          s : {None, MqttServer}, info : Infos]

\* URLs that no dApp of this code made: each differs in one respect from a
\* good one.
Good == [scheme |-> "openlv", id |-> FixedId, version |-> 1,
         query |-> <<Pair("h", Hash("another")), Pair("k", Hex("fixed", FALSE)),
                     Pair("p", Shout(Ntfy)), Pair("s", TokenServer)>>]
Without(name) == [Good EXCEPT !.query = SelectSeq(@, LAMBDA pair : pair[1] # name)]
With(name, value) == [Good EXCEPT !.query = Append(@, Pair(name, value))]

ForeignUrls ==
  {Good, [Good EXCEPT !.scheme = "https"], [Good EXCEPT !.id = BadId],
   [Good EXCEPT !.version = 2], [Good EXCEPT !.version = 257], [Good EXCEPT !.query = <<>>],
   With("h", Hash("dapp")), With("h", Hash("not 16 hex digits")), With("k", Hex("fixed", TRUE)),
   With("p", Irc), With("p", Mqtt), With("s", MqttServer), With("t", None)}
  \cup {Without(name) : name \in {"h", "k", "p", "s"}}

VARIABLES
  dapp,    \* the dApp's session, or the error it got
  url,     \* the URL the wallet was given
  wallet   \* the wallet's session, or the error it got

vars == <<dapp, url, wallet>>

IsSession(x) == x # None /\ ~IsError(x)

Init == dapp = None /\ url = None /\ wallet = None

StartDapp ==
  /\ dapp = None
  /\ \/ \E o \in Options : dapp' = CreateDapp(o)
     \/ \E init \in Inits : dapp' = CreateSession(init)
  /\ UNCHANGED <<url, wallet>>

\* The wallet scans the dApp's URL, or is given another (bound: if there is no
\* dApp).
GiveUrl ==
  /\ url = None /\ dapp # None
  /\ \/ IsSession(dapp) /\ url' = ToUrl(dapp.uri)
     \/ IsError(dapp) /\ url' \in ForeignUrls
  /\ UNCHANGED <<dapp, wallet>>

StartWallet ==
  /\ url # None /\ wallet = None
  /\ \E info \in Infos : wallet' = CreateWallet(url, info)
  /\ UNCHANGED <<dapp, url>>

Next == StartDapp \/ GiveUrl \/ StartWallet

-----------------------------------------------------------------------------
\* Both layers use one topic of one server with one handshake key, the wallet
\* expects the dApp's public key, and they agree on who is the host.
Meets(d, w) ==
  /\ d.layer.channel = w.layer.channel
  /\ d.layer.handshake_key = w.layer.handshake_key
  /\ w.layer.h = Hash("dapp")
  /\ d.is_host /\ d.layer.is_host /\ ~w.is_host /\ ~w.layer.is_host

TransportLists == {<<"wrtc">>, <<"tcp", "wrtc">>, <<"wrtc", "tcp">>, <<"tcp">>}

\* A wallet that scans the URL of a dApp meets it there, whatever the dApp was
\* configured with, and chooses the same transport; if it fails then for its own
\* info or for an id that is not 16 URL-safe characters.  (Not claimed if
\* create_session was given a hash: then its layer is no host.)  A wallet that
\* accepts any URL passes the session on unchanged: the URL of its own session
\* leads to the same place, with what a short URL left out filled in.
WalletJoins ==
  /\ IsSession(dapp) /\ dapp.layer.is_host /\ wallet # None =>
       IF IsError(wallet) THEN wallet = Error("session") \/ dapp.uri.session_id = BadId
       ELSE /\ Meets(dapp, wallet)
            /\ \A a, b \in TransportLists :
                 SelectTransportId(dapp.is_host, a, b) = SelectTransportId(wallet.is_host, b, a)
  /\ IsSession(wallet) => FromUrl(ToUrl(wallet.uri)) = wallet.uri
=============================================================================
