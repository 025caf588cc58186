------------------------------- MODULE Gateway -------------------------------
(***************************************************************************)
(* The gateway's chain of handlers (gateway/server.go): Logger, CORS, Auth *)
(* with its cache of the keys of Cloudflare Access (middleware/auth.go),   *)
(* the mux, and the first lines of the modules' handlers, which decide     *)
(* whether a request is served.                                            *)
(***************************************************************************)
EXTENDS Naturals

CONSTANTS
    Requests,
    Methods,       \* "OPTIONS" and others
    Paths,         \* what is asked: "health", "chat", "events", "proxy", "other"
    Credentials,   \* "none", "lan", and "token", signed by the key of its time
    MaxRotations   \* bound on the keys that Access has after the first

VARIABLES
    request,  \* method, path, credential and the key that signed the token
    at,       \* where in the chain a request is
    status,   \* the answer, 0 before it
    answerOf, \* keys that a request's fetchJWKS brought
    key,      \* the key with which Access signs
    cached,   \* cache.keys, by their kid
    stale     \* "yes" when cache.fetched is more than 10 minutes ago

vars == <<request, at, status, answerOf, key, cached, stale>>

Kids == 0 .. MaxRotations

Init ==
    /\ request = [r \in Requests |-> [method |-> "GET", path |-> "other", credential |-> "none", kid |-> 0]]
    /\ at = [r \in Requests |-> "client"]
    /\ status = [r \in Requests |-> 0]
    /\ answerOf = [r \in Requests |-> {}]
    /\ key = 0
    /\ cached = {}
    /\ stale = "yes"

-----------------------------------------------------------------------------
(***************************************************************************)
(* What a handler finds in its ResponseWriter.  Logger's responseWriter    *)
(* embeds the interface http.ResponseWriter, and has its methods only.     *)
(***************************************************************************)
NetHttpWriter == {"Header", "Write", "WriteHeader", "Flush", "Hijack"}

ResponseWriter == {"Header", "Write", "WriteHeader"}

Writer == NetHttpWriter \cap ResponseWriter

Answer(r, s) ==
    /\ status' = [status EXCEPT ![r] = s]
    /\ at' = [at EXCEPT ![r] = "answered"]

Goto(r, from, to) ==
    /\ at[r] = from
    /\ at' = [at EXCEPT ![r] = to]

Arrive(r) ==
    /\ Goto(r, "client", "cors")
    /\ \E m \in Methods, p \in Paths, c \in Credentials :
          request' = [request EXCEPT ![r] = [method |-> m, path |-> p, credential |-> c, kid |-> key]]
    /\ UNCHANGED <<status, answerOf, key, cached, stale>>

CORS(r) ==
    /\ at[r] = "cors"
    /\ IF request[r].method = "OPTIONS" THEN Answer(r, 204)
       ELSE Goto(r, "cors", "auth") /\ UNCHANGED status
    /\ UNCHANGED <<request, answerOf, key, cached, stale>>

-----------------------------------------------------------------------------
(***************************************************************************)
(* Auth                                                                    *)
(***************************************************************************)
\* The LAN key, no token, or a token and the look at the cache's age
Auth(r) ==
    /\ at[r] = "auth"
    /\ \/ /\ request[r].credential = "lan"
          /\ Goto(r, "auth", "mux")
          /\ UNCHANGED status
       \/ /\ request[r].credential = "none"
          /\ Answer(r, 401)
       \/ /\ request[r].credential = "token"
          /\ Goto(r, "auth", IF stale = "yes" THEN "fetching" ELSE "verifying")
          /\ UNCHANGED status
    /\ UNCHANGED <<request, answerOf, key, cached, stale>>

\* fetchJWKS, outside the lock
FetchJWKS(r) ==
    /\ at[r] = "fetching"
    /\ \/ /\ Goto(r, "fetching", "storing")
          /\ answerOf' = [answerOf EXCEPT ![r] = {key}]
          /\ UNCHANGED status
       \/ /\ at[r] = "fetching"
          /\ Answer(r, 500)
          /\ UNCHANGED answerOf
    /\ UNCHANGED <<request, key, cached, stale>>

Store(r) ==
    /\ Goto(r, "storing", "verifying")
    /\ cached' = answerOf[r]
    /\ stale' = "no"
    /\ UNCHANGED <<request, status, answerOf, key>>

\* The cache holds a key as the JSON of a JWK.
Form(kid) == "jwk"

\* jwt.ParseRSAPublicKeyFromPEM
ParseRSAPublicKeyFromPEM(form) == form = "pem"

Verify(r) ==
    /\ at[r] = "verifying"
    /\ IF request[r].kid \in cached /\ ParseRSAPublicKeyFromPEM(Form(request[r].kid))
         THEN Goto(r, "verifying", "mux") /\ UNCHANGED status
         ELSE Answer(r, 401)
    /\ UNCHANGED <<request, answerOf, key, cached, stale>>

-----------------------------------------------------------------------------
(***************************************************************************)
(* The mux, and the modules' first lines                                   *)
(***************************************************************************)
Health(r) == request[r].path = "health" /\ Answer(r, 200)

NotFound(r) == request[r].path = "other" /\ Answer(r, 404)

\* Chat: 400 for a bad body or no model, 500 "streaming unsupported", or the
\* stream
Chat(r) ==
    /\ request[r].path = "chat"
    /\ \/ Answer(r, 400)
       \/ Answer(r, IF "Flush" \in Writer THEN 200 ELSE 500)

\* wsHandler: gorilla's Upgrade answers 500 when it cannot hijack.
Events(r) ==
    /\ request[r].path = "events"
    /\ Answer(r, IF "Hijack" \in Writer THEN 101 ELSE 500)

\* The status of Sonarr, Radarr or SABnzbd, or 502
Proxy(r) ==
    /\ request[r].path = "proxy"
    /\ Answer(r, 200) \/ Answer(r, 502)

Serve(r) ==
    /\ at[r] = "mux"
    /\ Health(r) \/ Chat(r) \/ Events(r) \/ Proxy(r) \/ NotFound(r)
    /\ UNCHANGED <<request, answerOf, key, cached, stale>>

\* Cloudflare Access signs with a new key.
Rotate ==
    /\ key < MaxRotations
    /\ key' = key + 1
    /\ UNCHANGED <<request, at, status, answerOf, cached, stale>>

\* Ten minutes pass.
Expire ==
    /\ stale = "no"
    /\ stale' = "yes"
    /\ UNCHANGED <<request, at, status, answerOf, key, cached>>

Next == \/ \E r \in Requests : \/ Arrive(r)
                               \/ CORS(r)
                               \/ Auth(r)
                               \/ FetchJWKS(r)
                               \/ Store(r)
                               \/ Verify(r)
                               \/ Serve(r)
        \/ Rotate
        \/ Expire

Spec == Init /\ [][Next]_vars

-----------------------------------------------------------------------------
\* "Each chunk -> w.Write + Flusher.Flush()" (01-PLAN-SUPEROL1N.md): a chat
\* request that Auth lets through is streamed, or refused for its body.
ChatStreams ==
    \A r \in Requests :
        /\ at[r] = "answered"
        /\ request[r].path = "chat"
        /\ request[r].method # "OPTIONS"
        /\ request[r].credential = "lan"
        => status[r] \in {200, 400}

\* "Verify the signature against the CF Access JWKS endpoint -> OK": while
\* Access keeps its key, a token that it signed passes Auth.
TokenAdmits ==
    \A r \in Requests :
        /\ at[r] = "answered"
        /\ request[r].method # "OPTIONS"
        /\ request[r].credential = "token"
        /\ MaxRotations = 0
        => status[r] # 401
=============================================================================
