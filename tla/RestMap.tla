------------------------------ MODULE RestMap ------------------------------
(***************************************************************************)
(* What a keyed RESTful resource over one storage field promises to its    *)
(* clients.  Every request that arrives is answered once, and the answer   *)
(* and the change to the field happen together at one instant, as if the  *)
(* requests were served one at a time against a map from keys to values.  *)
(*                                                                         *)
(* A request names its key in the URL, by the query parameter `key` or by *)
(* the first path segment; POST and PUT carry an entry (a key and a value) *)
(* in a JSON body that may fail to parse.                                  *)
(***************************************************************************)
EXTENDS Naturals, Sequences

CONSTANTS
    Keys,       \* keys of the field
    Vals,       \* values an entry carries besides its key
    Reqs,       \* the requests, as identities
    Nothing,    \* no key, no entry, no answer yet
    BadJSON     \* a body that does not parse into an entry

Verbs == {"GET", "POST", "PUT", "DELETE", "PATCH"}

Entries == [key : Keys, val : Vals]

Requests ==
    [verb : Verbs,
     query_key : Keys \cup {Nothing},
     path_args : {<<>>} \cup {<<k>> : k \in Keys},
     body : Entries \cup {BadJSON}]

Response(code, text) == [code |-> code, body |-> text]

(* The texts of the answers, one per message of the handlers. *)
Texts == {"NeedResourceKey", "ShouldNotHaveResourceKey", "BadJson",
          "MethodNotAllowed", "KeyMismatch", "Nope", "Created", "Updated",
          "Deleted"}

Responses == [code : {200, 201, 400, 404, 405}, body : Vals \cup Texts]

VARIABLES
    store,      \* the field: a key maps to its value or to Nothing
    asked,      \* the request a client sent, or Nothing
    answer      \* the answer it got, or Nothing

vars == <<store, asked, answer>>

TypeOK ==
    /\ store \in [Keys -> Vals \cup {Nothing}]
    /\ asked \in [Reqs -> Requests \cup {Nothing}]
    /\ answer \in [Reqs -> Responses \cup {Nothing}]

(* The key a URL names, or Nothing. *)
UrlKey(q) ==
    IF q.query_key # Nothing THEN q.query_key
    ELSE IF q.path_args # <<>> THEN q.path_args[1] ELSE Nothing

(* The answer to q served against the map s.  A request is checked in the *)
(* order a server must: the method, then the key the URL names, then the   *)
(* body, and only then the map.                                            *)
Answer(q, s) ==
    LET k == UrlKey(q)
        e == q.body
    IN  CASE q.verb = "PATCH" -> Response(405, "MethodNotAllowed")
          [] q.verb = "POST" ->
                 IF q.path_args # <<>> THEN Response(400, "ShouldNotHaveResourceKey")
                 ELSE IF e = BadJSON THEN Response(400, "BadJson")
                 ELSE Response(201, "Created")
          [] q.verb \in {"GET", "PUT", "DELETE"} /\ k = Nothing ->
                 Response(400, "NeedResourceKey")
          [] q.verb = "GET" /\ k # Nothing ->
                 IF s[k] = Nothing THEN Response(404, "Nope")
                 ELSE Response(200, s[k])
          [] q.verb = "PUT" /\ k # Nothing ->
                 IF e = BadJSON THEN Response(400, "BadJson")
                 ELSE IF e.key # k THEN Response(400, "KeyMismatch")
                 ELSE IF s[k] = Nothing THEN Response(201, "Created")
                 ELSE Response(200, "Updated")
          [] q.verb = "DELETE" /\ k # Nothing -> Response(200, "Deleted")

(* The map after q is served against s: a created or updated entry is     *)
(* stored, a deleted key is gone, anything else leaves the map alone.      *)
Effect(q, s) ==
    IF Answer(q, s).code \notin {200, 201} THEN s
    ELSE IF q.verb \in {"POST", "PUT"} THEN [s EXCEPT ![q.body.key] = q.body.val]
    ELSE IF q.verb = "DELETE" THEN [s EXCEPT ![UrlKey(q)] = Nothing]
    ELSE s

Init ==
    /\ store = [k \in Keys |-> Nothing]
    /\ asked = [r \in Reqs |-> Nothing]
    /\ answer = [r \in Reqs |-> Nothing]

(* A client sends request q. *)
Ask(r) ==
    /\ asked[r] = Nothing
    /\ \E q \in Requests : asked' = [asked EXCEPT ![r] = q]
    /\ UNCHANGED <<store, answer>>

(* The request is served, all at once. *)
Serve(r) ==
    /\ asked[r] # Nothing
    /\ answer[r] = Nothing
    /\ answer' = [answer EXCEPT ![r] = Answer(asked[r], store)]
    /\ store' = Effect(asked[r], store)
    /\ UNCHANGED asked

Next == \E r \in Reqs : Ask(r) \/ Serve(r)

(* Every request sent is served. *)
Fairness == \A r \in Reqs : WF_vars(Serve(r))

SafeSpec == Init /\ [][Next]_vars

Spec == SafeSpec /\ Fairness

=============================================================================
